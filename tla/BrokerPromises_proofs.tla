----------------------- MODULE BrokerPromises_proofs -----------------------
(***************************************************************************)
(* Theorems about what the Windows broker promises to its clients, when    *)
(* any call of the file system or of the virtual disk may fail.            *)
(*                                                                         *)
(* For any number of clients and handlers, with or without the periodic    *)
(* Recover:                                                                *)
(*                                                                         *)
(*   TypesAreKept           Spec => []TypeOK                               *)
(*   ReleasedAreGone        Spec => []ReleasedMeansGone                    *)
(*   RetainedAreKept        Spec => []UndisturbedRetained                  *)
(*   SoleClientsAreServed   Spec => []SoleClientServed                     *)
(*                                                                         *)
(* The same, when Recover runs at the start only:                          *)
(*                                                                         *)
(*   LiveClientsAreServed   Spec => []LiveClientPreserved                  *)
(*                                                                         *)
(* Every step of a goroutine concerns one lease, so the invariants are     *)
(* stated lease by lease: a lease that the step does not concern keeps     *)
(* its invariant for one reason (OtherLeases), and the lease that it does  *)
(* concern is looked at once per kind of step.                             *)
(***************************************************************************)
EXTENDS BrokerLeases_proofs

-----------------------------------------------------------------------------
(* The invariants                                                          *)

\* The types of what the sessions do not depend on.
Observed ==
    /\ child \in [Leases -> BOOLEAN] /\ stale \in [Leases -> BOOLEAN]
    /\ up \in {"down", "starting", "serving"} /\ alive \subseteq Clients
    /\ holder \in [Leases -> Clients \cup {NoClient}]
    /\ kept \in [Leases -> {"no", "asked", "yes", "dropped", "discarded"}]
    /\ gone \in [Leases -> BOOLEAN] /\ crashes \in 0..MaxCrashes

\* A goroutine that works on no lease has forgotten everything.
Calm ==
    \A p \in Procs :
        IF proc[p].pc \in {"idle", "next"} THEN proc[p] \in {Idle, Ended(Recoverer)}
        ELSE proc[p].op # "none"

Types == Typed /\ Observed /\ Calm

\* Who attached the child and has not registered its session is the only one
\* who knows it.  A lease is acquired once, and a child that was never
\* attached has no file identity in any copy of its journal.
SessionOf(p, l) ==
    /\ proc[p].s <= attaches[l]
    /\ proc[p].pc \in Fresh =>
          /\ proc[p].s # 0 /\ proc[p].s = live[l] /\ children[l] # proc[p].s
          /\ \A q \in Procs \ {p} : proc[q].l = l => proc[q].s # proc[p].s
    /\ attaches[l] = 0 => ~proc[p].j.ident
    /\ proc[p].pc \in {"owner", "create", "mount"} =>
          /\ proc[p].op = "acquire" /\ attaches[l] = 0
    /\ proc[p].op = "acquire" =>
          /\ p \in Handlers
          /\ \A q \in Handlers \ {p} : proc[q].l = l => proc[q].op # "acquire"

SessionOK(l) ==
    /\ live[l] <= attaches[l] /\ children[l] <= attaches[l]
    /\ live[l] # 0 => child[l]
    /\ attaches[l] = 0 => ~journal[l].ident /\ \A x \in todo : x.l = l => ~x.j.ident
    /\ \A p \in Procs : proc[p].l = l => SessionOf(p, l)

SessionInv == Types /\ \A l \in Leases : SessionOK(l)

\* Who sent requests about the lease, and who was disturbed.
Noticed == users \in [Leases -> SUBSET Clients] /\ disturbed \subseteq Leases

\* One client alone sends requests about the lease.
Sole(l) == \A b, c \in users[l] : b = c

\* Every client that is known for the lease has sent a request about it.
UserOK(l) ==
    /\ journal[l].client \in users[l] \cup {NoClient}
    /\ holder[l] \in users[l] \cup {NoClient}
    /\ \A x \in todo : x.l = l => x.j.client \in users[l]
    /\ \A p \in Procs : proc[p].l = l =>
          proc[p].j.client \in users[l] /\ proc[p].c \in users[l] \cup {NoClient}

UserInv == Noticed /\ \A l \in Leases : UserOK(l)

\* No goroutine holds the session of a client that has the lease.
HolderOK(l) ==
    holder[l] \in alive =>
        live[l] # 0 /\ \A p \in Procs : proc[p].l = l => proc[p].s # live[l]

HolderInv == \A l \in Leases : Sole(l) => HolderOK(l)

\* What Recover does with a lease.
RecoverOnly ==
    proc[Recoverer].l \in Leases =>
        /\ proc[Recoverer].op = "recover" /\ ~proc[Recoverer].keep
        /\ proc[Recoverer].pc \in {"cleanup", "reattach", "native", "unlist", "forget"}

\* The first Recover comes before the requests, with nothing in memory.
Serial ==
    /\ up # "serving" => /\ \A p \in Handlers : proc[p].l = NoLease
                         /\ \A l \in Leases : children[l] = 0
    /\ up = "down" => proc[Recoverer].pc = "idle" /\ todo = {}
    /\ RecoverOnly

\* One goroutine at a time works on a lease that is not disturbed.
AloneOK(l) ==
    /\ \A p, q \in Handlers : proc[p].l = l /\ proc[q].l = l => p = q
    /\ proc[Recoverer].l = l => up = "starting"

\* What a request on lease l, or Recover, was told when it began.
RequestOf(p, l) ==
    /\ p = Recoverer => proc[p].op = "recover"
    /\ proc[p].op = "acquire" => kept[l] = "no" /\ children[l] = 0 /\ ~proc[p].keep
    /\ proc[p].op = "heartbeat" => proc[p].j.retained = journal[l].retained
    /\ proc[p].op = "release" =>
          /\ proc[p].s = children[l] /\ proc[p].s # 0
          /\ proc[p].keep => proc[p].j.retained /\ kept[l] \in {"asked", "yes", "dropped"}
          /\ ~proc[p].keep => kept[l] \in {"discarded", "dropped"}
    /\ proc[p].op = "attach" =>
          /\ proc[p].keep /\ proc[p].j.retained /\ children[l] = 0
          /\ kept[l] \in {"asked", "yes", "dropped"}
    /\ proc[p].op = "remove" => ~proc[p].keep /\ kept[l] = "dropped"
    /\ proc[p].op = "recover" => ~proc[p].keep /\ kept[l] # "yes" /\ children[l] = 0

\* Which request is at which step, and what it has done so far.
StepOf(p, l) ==
    /\ proc[p].pc \in {"owner", "create", "mount", "ready"} => proc[p].op = "acquire"
    /\ proc[p].pc = "register" => proc[p].op \in {"acquire", "attach"}
    /\ proc[p].pc = "rewrite" => proc[p].op = "attach"
    /\ proc[p].pc = "beat" => proc[p].op = "heartbeat"
    /\ proc[p].pc = "mark" => proc[p].op = "release"
    /\ proc[p].pc \in {"native", "cleanup", "unlist", "forget"} =>
          proc[p].op \in {"release", "remove", "recover"}
    /\ proc[p].pc \in {"retain", "record"} => proc[p].op = "release" /\ proc[p].keep
    /\ proc[p].pc = "reattach" =>
          proc[p].op \in {"attach", "remove", "recover"} /\ children[l] = 0
    /\ proc[p].pc \in {"cleanup", "unlist"} => ~proc[p].keep
    /\ proc[p].pc = "unrecord" => proc[p].op = "remove"
    /\ proc[p].pc \in {"record", "forget"} /\ proc[p].keep => journal[l].retained
    /\ proc[p].pc = "forget" /\ proc[p].keep => record[l]
    /\ proc[p].pc \in {"cleanup", "unlist", "forget"} /\ proc[p].op = "release"
          /\ kept[l] = "discarded" => ~child[l]

\* What the clients have asked for, and what is left of the lease.
KeptOK(l) ==
    /\ kept[l] # "no" => attaches[l] # 0
    /\ record[l] => kept[l] \in {"asked", "yes", "dropped"}
    /\ gone[l] => kept[l] \in {"discarded", "dropped"}
    /\ kept[l] = "yes" => /\ child[l] /\ record[l] /\ journal[l].retained
                          /\ up = "starting" => \A x \in todo : x.l = l => x.j.retained
    /\ children[l] # 0 /\ kept[l] \in {"no", "asked", "yes"} => child[l]
    /\ children[l] # 0 /\ kept[l] \in {"no", "discarded"} => live[l] = children[l] \/ ~child[l]
    /\ gone[l] /\ kept[l] = "discarded" => ~child[l]

ConsoleOK(l) ==
    /\ KeptOK(l) /\ AloneOK(l)
    /\ \A p \in Procs : proc[p].l = l => RequestOf(p, l) /\ StepOf(p, l)

ConsoleInv == Serial /\ \A l \in Leases \ disturbed : ConsoleOK(l)

\* Without the periodic Recover, Recover and the requests take turns.
Apart ==
    /\ up # "serving" => \A p \in Handlers : proc[p].l = NoLease
    /\ up # "starting" => proc[Recoverer].pc = "idle"
    /\ proc[Recoverer].l \in Leases =>
          /\ proc[Recoverer].op = "recover" /\ ~proc[Recoverer].keep
          /\ proc[Recoverer].pc \in {"cleanup", "reattach", "native", "unlist", "forget"}

\* No goroutine holds the session of a lease that any client has.
PossessOK(l) ==
    holder[l] # NoClient =>
        /\ up = "serving" /\ live[l] # 0
        /\ \A p \in Procs : proc[p].l = l => proc[p].s # live[l]

PossessInv == Apart /\ \A l \in Leases : PossessOK(l)

\* Nobody asked to retain the child.
Unwanted(l) == kept[l] \in {"no", "discarded"}

\* Then whoever knows a session knows the attached one, until the child is
\* deleted, and a release that has got past its session has deleted it.
GoneOf(p, l) ==
    /\ proc[p].keep \/ proc[p].op \in {"attach", "remove"} => ~Unwanted(l)
    /\ proc[p].pc \in {"retain", "record"} => proc[p].keep
    /\ proc[p].op = "release" => proc[p].s # 0
    /\ Unwanted(l) /\ proc[p].s # 0 => proc[p].s = live[l] \/ ~child[l]
    /\ Unwanted(l) /\ proc[p].op = "release"
          /\ proc[p].pc \in {"cleanup", "unlist", "unrecord", "forget"} => ~child[l]

GoneOK(l) ==
    /\ record[l] => ~Unwanted(l)
    /\ Unwanted(l) /\ children[l] # 0 => children[l] = live[l] \/ ~child[l]
    /\ Unwanted(l) /\ gone[l] => ~child[l] /\ attaches[l] # 0
    /\ \A p \in Procs : proc[p].l = l => GoneOf(p, l)

GoneInv == \A l \in Leases : GoneOK(l)
-----------------------------------------------------------------------------
(* The kinds of steps                                                      *)

\* A step of p that concerns lease l alone.
Concerns(p, l) ==
    /\ Others(p)
    /\ proc[p].l \in {l, NoLease} /\ proc'[p].l \in {l, NoLease}
    /\ \A m \in Leases \ {l} :
          /\ journal'[m] = journal[m] /\ child'[m] = child[m] /\ record'[m] = record[m]
          /\ live'[m] = live[m] /\ attaches'[m] = attaches[m] /\ children'[m] = children[m]
          /\ holder'[m] = holder[m] /\ kept'[m] = kept[m] /\ gone'[m] = gone[m]
    /\ todo' \subseteq todo /\ UNCHANGED <<alive, crashes>>
    /\ \/ up' = up
       \/ /\ p = Recoverer /\ up = "starting" /\ up' = "down"
          /\ proc'[p].pc = "idle" /\ todo' = {}

\* Nothing but the journal changes.
LeaseStays == UNCHANGED <<child, record, live, attaches, children, holder, kept, gone>>

SameCopy(p) ==
    proc'[p].j.retained = proc[p].j.retained /\ proc'[p].j.ident = proc[p].j.ident

\* The handler answers with an error, or Recover goes on; at most the lease
\* is quarantined, or a fresh journal removed again.
GivesUp(p, l) ==
    /\ Concerns(p, l) /\ LeaseStays /\ proc[p].l = l /\ Stopped(p)
    /\ \/ journal'[l] = journal[l]
       \/ journal'[l] = Absent /\ proc[p].pc = "owner"
       \/ /\ journal'[l].retained = proc[p].j.retained
          /\ journal'[l].ident = proc[p].j.ident

\* The goroutine goes on to its next step.
GoesOn(p, l) ==
    /\ Concerns(p, l) /\ LeaseStays /\ proc[p].l = l /\ Same(p)
    /\ proc'[p].j.retained = proc[p].j.retained
    /\ proc'[p].j.ident = proc[p].j.ident \/ proc[p].pc = "ready"
    /\ \/ proc[p].pc = "owner" /\ proc'[p].pc = "create" /\ journal'[l] = journal[l]
       \/ proc[p].pc = "ready" /\ proc'[p].pc = "register" /\ journal'[l] = proc'[p].j
       \/ proc[p].pc = "rewrite" /\ proc'[p].pc = "register" /\ journal'[l] = proc'[p].j
       \/ proc[p].pc = "mark" /\ proc'[p].pc = "native" /\ journal'[l] = proc'[p].j
       \/ proc[p].pc = "retain" /\ proc'[p].pc = "record" /\ journal'[l] = proc'[p].j
       \/ proc[p].pc = "cleanup" /\ proc'[p].pc = "unlist" /\ journal'[l] = journal[l]
       \/ /\ proc[p].pc = "unlist" /\ journal'[l] = Absent
          /\ proc'[p].pc = IF proc[p].op = "remove" THEN "unrecord" ELSE "forget"

\* The child is created.
Creates(p, l) ==
    /\ Concerns(p, l) /\ proc[p].l = l /\ Same(p) /\ SameCopy(p)
    /\ UNCHANGED <<record, live, attaches, children, holder, kept, gone>>
    /\ proc[p].pc = "create" /\ proc'[p].pc = "mount"
    /\ child'[l] = TRUE /\ journal'[l] = proc'[p].j

\* The child that could not be attached is deleted.
Abandons(p, l) ==
    /\ Concerns(p, l) /\ proc[p].l = l /\ Stopped(p)
    /\ UNCHANGED <<record, live, attaches, children, holder, kept, gone>>
    /\ proc[p].pc \in {"create", "mount"}
    /\ child'[l] = FALSE /\ journal'[l] = Absent

\* The child is attached: the session has the next number.
Mounts(p, l) ==
    /\ Concerns(p, l) /\ proc[p].l = l
    /\ UNCHANGED <<child, record, children, holder, kept, gone>>
    /\ child[l] /\ live[l] = 0
    /\ live'[l] = attaches[l] + 1 /\ attaches'[l] = attaches[l] + 1
    /\ proc'[p].l = l /\ proc'[p].s = attaches[l] + 1 /\ proc'[p].j = proc[p].j
    /\ proc'[p].op = proc[p].op /\ proc'[p].keep = proc[p].keep
    /\ \/ proc[p].pc = "mount" /\ proc'[p].pc = "ready" /\ journal'[l] = proc[p].j
       \/ /\ proc[p].pc = "reattach" /\ proc[p].j.ident /\ journal'[l] = journal[l]
          /\ proc'[p].pc = IF proc[p].op = "attach" THEN "rewrite" ELSE "native"

\* session.Release
Ends(p, l) ==
    /\ live'[l] = IF live[l] = proc[p].s THEN 0 ELSE live[l]
    /\ child'[l] = IF live[l] = proc[p].s /\ ~proc[p].keep THEN FALSE ELSE child[l]
    /\ UNCHANGED <<journal, record, attaches, children, holder, kept, gone>>

\* The session is ended by the goroutine that made it.
Undoes(p, l) ==
    /\ Concerns(p, l) /\ proc[p].l = l /\ Stopped(p) /\ Ends(p, l)
    /\ proc[p].pc \in {"ready", "rewrite"}

\* The session is ended because a client or Recover wants it.
Ejects(p, l) ==
    /\ Concerns(p, l) /\ proc[p].l = l /\ Same(p) /\ SameCopy(p) /\ Ends(p, l)
    /\ proc[p].pc = "native"
    /\ proc'[p].pc = IF proc[p].keep THEN "retain" ELSE "cleanup"

\* The session is in the map, and the client has the lease.
Registers(p, l) ==
    /\ Concerns(p, l) /\ proc[p].l = l /\ Stopped(p)
    /\ UNCHANGED <<journal, child, record, live, attaches, kept, gone>>
    /\ proc[p].pc = "register"
    /\ children'[l] = proc[p].s /\ holder'[l] = proc[p].c

Beats(p, l) ==
    /\ Concerns(p, l) /\ proc[p].l = l /\ Stopped(p)
    /\ UNCHANGED <<child, record, live, attaches, children, kept, gone>>
    /\ proc[p].pc = "beat" /\ journal'[l] = proc[p].j
    /\ holder'[l] = IF holder[l] = NoClient THEN NoClient ELSE proc[p].c

\* The record of the run is made, or removed.
Marks(p, l) ==
    /\ Concerns(p, l) /\ proc[p].l = l /\ Same(p) /\ SameCopy(p)
    /\ UNCHANGED <<journal, child, live, attaches, children, holder, kept, gone>>
    /\ proc'[p].pc = "forget"
    /\ \/ proc[p].pc = "record" /\ record'[l] = TRUE
       \/ proc[p].pc = "unrecord" /\ record'[l] = FALSE

\* The entry of the map is deleted, and the client gets its answer.
Forgets(p, l) ==
    LET answers == proc[p].op \in {"release", "remove"} IN
    /\ Concerns(p, l) /\ proc[p].l = l /\ Stopped(p)
    /\ UNCHANGED <<journal, child, record, live, attaches, holder>>
    /\ proc[p].pc = "forget"
    /\ children'[l] = IF proc[p].s = 0 THEN children[l] ELSE 0
    /\ kept'[l] = IF answers /\ proc[p].keep /\ kept[l] = "asked" THEN "yes" ELSE kept[l]
    /\ gone'[l] = (gone[l] \/ (answers /\ ~proc[p].keep))

Works(p, l) ==
    \/ GivesUp(p, l) \/ GoesOn(p, l) \/ Creates(p, l) \/ Abandons(p, l) \/ Mounts(p, l)
    \/ Undoes(p, l) \/ Ejects(p, l) \/ Registers(p, l) \/ Beats(p, l) \/ Marks(p, l)
    \/ Forgets(p, l)

\* A request on lease l comes in.
Opens(p, l) ==
    /\ Concerns(p, l) /\ p \in Handlers /\ up = "serving" /\ proc'[p].l = l
    /\ UNCHANGED <<child, record, live, attaches, children, gone>>
    /\ proc[p].pc = "idle"

OpensAcquire(p, l) ==
    /\ Opens(p, l) /\ UNCHANGED <<holder, kept>>
    /\ proc'[p].pc = "owner" /\ proc'[p].op = "acquire" /\ proc'[p].s = 0
    /\ ~proc'[p].keep /\ attaches[l] = 0 /\ \A q \in Handlers : proc[q].l # l
    /\ journal'[l] = proc'[p].j /\ ~proc'[p].j.ident

OpensHeartbeat(p, l) ==
    /\ Opens(p, l) /\ UNCHANGED <<journal, holder, kept>>
    /\ proc'[p].pc = "beat" /\ proc'[p].op = "heartbeat" /\ proc'[p].s = 0 /\ ~proc'[p].keep
    /\ proc'[p].j.retained = journal[l].retained /\ proc'[p].j.ident = journal[l].ident

OpensRelease(p, l) ==
    /\ Opens(p, l) /\ UNCHANGED journal
    /\ proc'[p].pc = "mark" /\ proc'[p].op = "release"
    /\ proc'[p].s = children[l] /\ children[l] # 0 /\ proc'[p].keep \in BOOLEAN
    /\ proc'[p].j.retained = proc'[p].keep /\ proc'[p].j.ident = journal[l].ident
    /\ holder'[l] = NoClient /\ kept'[l] = AskedFor(kept[l], proc'[p].keep)

OpensAttach(p, l) ==
    /\ Opens(p, l) /\ UNCHANGED <<journal, holder, kept>>
    /\ proc'[p].pc = "reattach" /\ proc'[p].op = "attach" /\ proc'[p].s = 0
    /\ proc'[p].keep /\ proc'[p].j = journal[l] /\ record[l] /\ journal[l].retained
    /\ children[l] = 0 /\ attaches[l] < MaxAttach

OpensRemove(p, l) ==
    /\ Opens(p, l) /\ UNCHANGED journal
    /\ proc'[p].pc = IF children[l] = 0 THEN "reattach" ELSE "native"
    /\ proc'[p].op = "remove" /\ proc'[p].s = children[l]
    /\ ~proc'[p].keep /\ proc'[p].j = journal[l] /\ record[l]
    /\ holder'[l] = NoClient /\ kept'[l] = AskedFor(kept[l], FALSE)

Asks(p, l) ==
    \/ OpensAcquire(p, l) \/ OpensHeartbeat(p, l) \/ OpensRelease(p, l)
    \/ OpensAttach(p, l) \/ OpensRemove(p, l)

\* Recover takes up lease l, or quarantines it at once.
Reaps(l) ==
    /\ Concerns(Recoverer, l) /\ LeaseStays /\ proc[Recoverer].pc = "next"
    /\ \E x \in todo :
         /\ x.l = l /\ ~Preserves(x.j)
         /\ journal'[l] = journal[l] \/ journal'[l].ident = x.j.ident
         /\ \/ proc'[Recoverer] = proc[Recoverer]
            \/ /\ proc'[Recoverer].l = l /\ proc'[Recoverer].op = "recover"
               /\ proc'[Recoverer].j.ident = x.j.ident /\ ~proc'[Recoverer].keep
               /\ \/ proc'[Recoverer].pc \in {"cleanup", "reattach"} /\ proc'[Recoverer].s = 0
                  \/ proc'[Recoverer].pc = "native" /\ proc'[Recoverer].s = children[l]
-----------------------------------------------------------------------------
(* Other leases                                                            *)

\* Who works on a lease: a goroutine that is at one of its steps.
LEMMA AtWork ==
    ASSUME Types, NEW p \in Procs
    PROVE  /\ proc[p].l \in Leases <=> proc[p].pc \notin {"idle", "next"}
           /\ proc[p].l = NoLease <=> proc[p].pc \in {"idle", "next"}
           /\ proc[p].l \in Leases => proc[p].j \in Journals
           /\ proc[p].s \in Nat /\ proc[p].keep \in BOOLEAN
           /\ NoLease \notin Leases
BY SentinelsAssumption DEF SentinelsAssumption, Types, Typed, ProcTyped, Frames

\* The state of a lease has its type.
LEMMA LeaseTypes ==
    ASSUME Types, NEW l \in Leases
    PROVE  /\ live[l] \in Nat /\ attaches[l] \in Nat /\ children[l] \in Nat
           /\ child[l] \in BOOLEAN /\ record[l] \in BOOLEAN /\ gone[l] \in BOOLEAN
           /\ kept[l] \in {"no", "asked", "yes", "dropped", "discarded"}
           /\ holder[l] \in Clients \cup {NoClient}
           /\ journal[l] \in Journals \cup {Absent} /\ crashes \in Nat
<1>1. MaxCrashes \in Nat
  BY ConstantsAssumption DEF ConstantsAssumption
<1> QED
  BY <1>1 DEF Types, Typed, Observed

\* The goroutines on another lease stay where they are.
LEMMA OtherWork ==
    ASSUME NEW p \in Procs, NEW l \in Leases, NEW m \in Leases, m # l, Concerns(p, l)
    PROVE  /\ \A q \in Procs : proc'[q].l = m <=> proc[q].l = m
           /\ \A q \in Procs : proc[q].l = m => proc'[q] = proc[q]
<1>1. NoLease \notin Leases
  BY SentinelsAssumption DEF SentinelsAssumption
<1> QED
  BY <1>1 DEF Concerns, Others

\* A step that concerns one lease leaves the invariants of the others alone.
LEMMA OtherLeases ==
    ASSUME NEW p \in Procs, NEW l \in Leases, NEW m \in Leases, m # l, Concerns(p, l)
    PROVE  /\ SessionOK(m) => SessionOK(m)'
           /\ HolderOK(m) => HolderOK(m)'
           /\ ConsoleOK(m) => ConsoleOK(m)'
<1>1. /\ journal'[m] = journal[m] /\ child'[m] = child[m] /\ record'[m] = record[m]
      /\ live'[m] = live[m] /\ attaches'[m] = attaches[m] /\ children'[m] = children[m]
      /\ holder'[m] = holder[m] /\ kept'[m] = kept[m] /\ gone'[m] = gone[m]
      /\ todo' \subseteq todo /\ UNCHANGED <<alive, crashes>>
  BY DEF Concerns
<1>2. /\ \A q \in Procs : proc'[q].l = m <=> proc[q].l = m
      /\ \A q \in Procs : proc[q].l = m => proc'[q] = proc[q]
  BY OtherWork
<1>3. SessionOK(m) => SessionOK(m)'
  <2>1. ASSUME NEW q \in Procs, proc[q].l = m, SessionOf(q, m) PROVE SessionOf(q, m)'
    <3>1. proc'[q] = proc[q]
      BY <1>2, <2>1
    <3>2. \A r \in Procs : proc'[r].l = m => proc'[r] = proc[r] /\ proc[r].l = m
      BY <1>2
    <3>3. Handlers \subseteq Procs
      BY DEF Procs
    <3> QED
      BY <1>1, <2>1, <3>1, <3>2, <3>3 DEF SessionOf
  <2> QED
    BY <1>1, <1>2, <2>1 DEF SessionOK
<1>4. HolderOK(m) => HolderOK(m)'
  BY <1>1, <1>2 DEF HolderOK
<1>5. ConsoleOK(m) => ConsoleOK(m)'
  <2>1. ASSUME NEW q \in Procs, proc[q].l = m, RequestOf(q, m), StepOf(q, m)
        PROVE  RequestOf(q, m)' /\ StepOf(q, m)'
    <3>1. proc'[q] = proc[q]
      BY <1>2, <2>1
    <3> QED
      BY <1>1, <2>1, <3>1 DEF RequestOf, StepOf
  <2>2. /\ up' = "starting" => up = "starting"
        /\ up = "starting" /\ proc[Recoverer].l = m => up' = "starting"
    BY SentinelsAssumption DEF SentinelsAssumption, Concerns
  <2>3. KeptOK(m) => KeptOK(m)'
    BY <1>1, <2>2 DEF KeptOK
  <2>4. AloneOK(m) => AloneOK(m)'
    BY <1>2, <2>2 DEF AloneOK, Procs
  <2> QED
    BY <1>2, <2>1, <2>3, <2>4 DEF ConsoleOK
<1> QED
  BY <1>3, <1>4, <1>5
-----------------------------------------------------------------------------
(* The sessions of the lease that a step concerns                          *)

\* What SessionOK says, one fact at a time.
LEMMA SessionFacts ==
    ASSUME SessionInv, NEW l \in Leases
    PROVE  /\ Types /\ SessionOK(l)
           /\ \A p \in Procs : proc[p].l = l => SessionOf(p, l)
           /\ live[l] \in Nat /\ attaches[l] \in Nat /\ children[l] \in Nat
           /\ live[l] <= attaches[l] /\ children[l] <= attaches[l]
BY LeaseTypes DEF SessionInv, SessionOK

\* A goroutine that ends takes nothing with it.
LEMMA SessionStops ==
    ASSUME SessionInv, NEW p \in Procs, NEW l \in Leases, Concerns(p, l), proc[p].l = l,
           Stopped(p), attaches'[l] = attaches[l],
           live'[l] = live[l] \/ (live'[l] = 0 /\ live[l] = proc[p].s /\ proc[p].pc \in Fresh),
           children'[l] \in {0, children[l], proc[p].s},
           children'[l] = proc[p].s => proc[p].pc = "register" \/ children'[l] \in {0, children[l]},
           live'[l] # 0 => child'[l],
           attaches[l] = 0 => ~journal'[l].ident
    PROVE  SessionOK(l)'
<1>1. /\ Types /\ SessionOK(l) /\ SessionOf(p, l)
      /\ \A q \in Procs : proc[q].l = l => SessionOf(q, l)
      /\ live[l] \in Nat /\ attaches[l] \in Nat /\ children[l] \in Nat
      /\ live[l] <= attaches[l] /\ children[l] <= attaches[l]
  BY SessionFacts
<1>2. NoLease \notin Leases /\ proc[p].s \in Nat /\ Handlers \subseteq Procs
  BY <1>1, AtWork DEF Procs
<1>3. /\ proc'[p].l # l /\ todo' \subseteq todo
      /\ \A q \in Procs \ {p} : proc'[q] = proc[q]
  BY <1>2 DEF Stopped, Concerns, Others
<1>4. ASSUME NEW q \in Procs, proc'[q].l = l
      PROVE  SessionOf(q, l)'
  <2>1. q # p /\ proc'[q] = proc[q] /\ SessionOf(q, l)
    BY <1>1, <1>3, <1>4
  <2>2. ASSUME proc[q].pc \in Fresh
        PROVE  live'[l] = live[l] /\ children'[l] # proc[q].s
    <3>1. /\ proc[q].s # 0 /\ proc[q].s = live[l] /\ children[l] # proc[q].s
          /\ proc[p].s # proc[q].s
      BY <2>1, <2>2 DEF SessionOf
    <3> QED
      BY <3>1
  <2>3. \A r \in Procs : proc'[r].l = l => proc'[r] = proc[r] /\ proc[r].l = l
    BY <1>3
  <2> QED
    BY <1>2, <2>1, <2>2, <2>3 DEF SessionOf
<1>5. live'[l] <= attaches'[l] /\ children'[l] <= attaches'[l]
  BY <1>1, <1>2 DEF SessionOf
<1> QED
  BY <1>1, <1>3, <1>4, <1>5 DEF SessionOK

\* A goroutine that goes on knows what it knew.
LEMMA SessionGoes ==
    ASSUME SessionInv, NEW p \in Procs, NEW l \in Leases, Concerns(p, l), proc[p].l = l,
           Same(p), UNCHANGED <<attaches, children>>,
           live'[l] = live[l] \/ (live'[l] = 0 /\ live[l] = proc[p].s /\ proc[p].pc \notin Fresh),
           proc'[p].pc \in Fresh => proc[p].pc \in Fresh /\ live'[l] = live[l],
           proc'[p].pc \in {"owner", "create", "mount"} =>
              proc[p].pc \in {"owner", "create", "mount"},
           live'[l] # 0 => child'[l],
           attaches[l] = 0 => ~journal'[l].ident /\ ~proc'[p].j.ident
    PROVE  SessionOK(l)'
<1>1. /\ Types /\ SessionOK(l) /\ SessionOf(p, l)
      /\ \A q \in Procs : proc[q].l = l => SessionOf(q, l)
      /\ live[l] \in Nat /\ attaches[l] \in Nat /\ children[l] \in Nat
      /\ live[l] <= attaches[l] /\ children[l] <= attaches[l]
  BY SessionFacts
<1>2. Handlers \subseteq Procs
  BY DEF Procs
<1>3. /\ todo' \subseteq todo /\ \A q \in Procs \ {p} : proc'[q] = proc[q]
      /\ \A q \in Procs : /\ proc'[q].l = proc[q].l /\ proc'[q].s = proc[q].s
                          /\ proc'[q].op = proc[q].op
  BY DEF Same, Concerns, Others
<1>4. ASSUME NEW q \in Procs, proc'[q].l = l
      PROVE  SessionOf(q, l)'
  <2>1. SessionOf(q, l)
    BY <1>1, <1>3, <1>4
  <2>2. CASE q = p
    BY <1>2, <1>3, <2>1, <2>2 DEF SessionOf
  <2>3. CASE q # p
    <3>1. proc'[q] = proc[q]
      BY <1>3, <2>3
    <3>2. proc[q].pc \in Fresh => live'[l] = live[l]
      BY <1>3, <1>4, <2>1, <2>3 DEF SessionOf
    <3> QED
      BY <1>2, <1>3, <2>1, <3>1, <3>2 DEF SessionOf
  <2> QED
    BY <2>2, <2>3
<1> QED
  BY <1>1, <1>3, <1>4 DEF SessionOK

\* A request, or Recover, takes its session from the map.
LEMMA SessionOpens ==
    ASSUME SessionInv, NEW p \in Procs, NEW l \in Leases, Concerns(p, l),
           proc[p].l = NoLease, proc'[p].l = l,
           UNCHANGED <<child, live, attaches, children>>,
           proc'[p].s \in {0, children[l]}, proc'[p].pc \notin Fresh,
           attaches[l] = 0 => ~journal'[l].ident /\ ~proc'[p].j.ident,
           proc'[p].pc \in {"owner", "create", "mount"} => proc'[p].op = "acquire",
           proc'[p].op = "acquire" =>
              /\ p \in Handlers /\ attaches[l] = 0 /\ \A q \in Handlers : proc[q].l # l
    PROVE  SessionOK(l)'
<1>1. /\ Types /\ SessionOK(l)
      /\ \A q \in Procs : proc[q].l = l => SessionOf(q, l)
      /\ live[l] \in Nat /\ attaches[l] \in Nat /\ children[l] \in Nat
      /\ live[l] <= attaches[l] /\ children[l] <= attaches[l]
  BY SessionFacts
<1>2. Handlers \subseteq Procs /\ NoLease \notin Leases
  BY <1>1, AtWork DEF Procs
<1>3. todo' \subseteq todo /\ \A q \in Procs \ {p} : proc'[q] = proc[q]
  BY DEF Concerns, Others
<1>4. SessionOf(p, l)'
  <2>1. ASSUME proc'[p].op = "acquire", NEW q \in Handlers \ {p}, proc'[q].l = l
        PROVE  FALSE
    BY <1>2, <1>3, <2>1
  <2> QED
    BY <1>1, <2>1 DEF SessionOf
<1>5. ASSUME NEW q \in Procs \ {p}, proc'[q].l = l
      PROVE  SessionOf(q, l)'
  <2>1. SessionOf(q, l) /\ proc'[q] = proc[q]
    BY <1>1, <1>3, <1>5
  <2>2. proc[q].pc \in Fresh => proc'[p].s # proc[q].s
    BY <2>1 DEF SessionOf
  <2>3. ASSUME proc[q].op = "acquire" PROVE proc'[p].op # "acquire"
    BY <1>3, <1>5, <2>1, <2>3 DEF SessionOf
  <2> QED
    BY <1>2, <1>3, <2>1, <2>2, <2>3 DEF SessionOf
<1> QED
  BY <1>1, <1>3, <1>4, <1>5 DEF SessionOK

\* A new session is known to the goroutine that attached the child.
LEMMA SessionMounts ==
    ASSUME SessionInv, NEW p \in Procs, NEW l \in Leases, Mounts(p, l)
    PROVE  SessionOK(l)'
<1>1. /\ Types /\ SessionOK(l) /\ SessionOf(p, l)
      /\ \A q \in Procs : proc[q].l = l => SessionOf(q, l)
      /\ live[l] \in Nat /\ attaches[l] \in Nat /\ children[l] \in Nat
      /\ live[l] <= attaches[l] /\ children[l] <= attaches[l]
  BY SessionFacts DEF Mounts
<1>2. Handlers \subseteq Procs
  BY DEF Procs
<1>3. /\ todo' \subseteq todo /\ \A q \in Procs \ {p} : proc'[q] = proc[q]
      /\ proc[p].l = l /\ proc'[p].l = l /\ live[l] = 0 /\ child'[l]
      /\ live'[l] = attaches[l] + 1 /\ attaches'[l] = attaches[l] + 1
      /\ proc'[p].s = attaches[l] + 1 /\ proc'[p].op = proc[p].op
      /\ children'[l] = children[l]
      /\ proc'[p].pc \notin {"owner", "create", "mount"}
  BY DEF Mounts, Concerns, Others
<1>4. \A q \in Procs : proc[q].l = l => proc[q].s \in Nat /\ proc[q].s < attaches[l] + 1
  BY <1>1, AtWork DEF SessionOf
<1>5. SessionOf(p, l)'
  BY <1>1, <1>2, <1>3, <1>4 DEF SessionOf
<1>6. ASSUME NEW q \in Procs \ {p}, proc'[q].l = l
      PROVE  SessionOf(q, l)'
  <2>1. SessionOf(q, l) /\ proc'[q] = proc[q] /\ proc[q].l = l
    BY <1>1, <1>3, <1>6
  <2>2. proc[q].pc \notin Fresh
    BY <1>3, <2>1 DEF SessionOf
  <2>3. proc[q].pc \notin {"owner", "create", "mount"}
    <3>1. ASSUME proc[q].pc \in {"owner", "create", "mount"} PROVE FALSE
      <4>1. attaches[l] = 0 /\ proc[q].op = "acquire" /\ q \in Handlers
        BY <2>1, <3>1 DEF SessionOf
      <4>2. proc[p].pc = "mount"
        BY <1>1, <4>1 DEF Mounts, SessionOf
      <4>3. proc[p].op = "acquire" /\ p \in Handlers
        BY <1>1, <4>2 DEF SessionOf
      <4> QED
        BY <1>3, <2>1, <4>1, <4>3 DEF SessionOf
    <3> QED
      BY <3>1
  <2> QED
    BY <1>1, <1>2, <1>3, <1>4, <2>1, <2>2, <2>3 DEF SessionOf
<1> QED
  BY <1>1, <1>3, <1>5, <1>6 DEF SessionOK

\* The steps of a goroutine keep the sessions of its lease.
LEMMA SessionWorks ==
    ASSUME SessionInv, NEW p \in Procs, NEW l \in Leases, Works(p, l)
    PROVE  SessionOK(l)'
<1>1. Types /\ SessionOK(l) /\ (proc[p].l = l => SessionOf(p, l))
  BY SessionFacts
<1>2. live[l] # 0 => child[l]
  BY <1>1 DEF SessionOK
<1>3. attaches[l] = 0 => ~journal[l].ident /\ (proc[p].l = l => ~proc[p].j.ident)
  BY <1>1 DEF SessionOK, SessionOf
<1>4. Absent.ident = FALSE
  BY DEF Absent
<1>5. /\ proc[p].l = l /\ proc[p].pc \in Fresh =>
            proc[p].s = live[l] /\ proc[p].s # 0 /\ attaches[l] # 0
      /\ proc[p].l = l /\ proc[p].pc \in {"create", "mount"} => live[l] = 0
  BY SessionFacts, AtWork, <1>1 DEF SessionOf
<1>6. CASE GivesUp(p, l)
  <2>1. attaches[l] = 0 => ~journal'[l].ident
    BY <1>3, <1>4, <1>6 DEF GivesUp
  <2> QED
    BY <1>2, <1>6, <2>1, SessionStops DEF GivesUp, LeaseStays
<1>7. CASE GoesOn(p, l)
  <2>1. attaches[l] = 0 => ~journal'[l].ident /\ ~proc'[p].j.ident
    BY <1>3, <1>4, <1>5, <1>7 DEF GoesOn, Fresh
  <2>2. /\ proc'[p].pc \in Fresh => proc[p].pc \in Fresh
        /\ proc'[p].pc \in {"owner", "create", "mount"} => proc[p].pc = "owner"
    BY <1>7 DEF GoesOn, Fresh
  <2> QED
    BY <1>2, <1>7, <2>1, <2>2, SessionGoes DEF GoesOn, LeaseStays
<1>8. CASE Creates(p, l)
  <2>1. attaches[l] = 0 => ~journal'[l].ident /\ ~proc'[p].j.ident
    BY <1>3, <1>8 DEF Creates, SameCopy
  <2> QED
    BY <1>8, <2>1, SessionGoes DEF Creates, Fresh
<1>9. CASE Abandons(p, l)
  BY <1>4, <1>5, <1>9, SessionStops DEF Abandons
<1>10. CASE Mounts(p, l)
  BY <1>10, SessionMounts
<1>11. CASE Undoes(p, l)
  <2>1. live'[l] = 0 /\ live[l] = proc[p].s /\ proc[p].pc \in Fresh
    BY <1>5, <1>11 DEF Undoes, Ends, Fresh
  <2> QED
    BY <1>3, <1>11, <2>1, SessionStops DEF Undoes, Ends
<1>12. CASE Ejects(p, l)
  <2>1. /\ live'[l] = live[l] \/ (live'[l] = 0 /\ live[l] = proc[p].s /\ proc[p].pc \notin Fresh)
        /\ live'[l] # 0 => child'[l]
    BY <1>2, <1>12 DEF Ejects, Ends, Fresh
  <2>2. proc'[p].pc \notin Fresh /\ proc'[p].pc \notin {"owner", "create", "mount"}
    BY <1>12 DEF Ejects, Fresh
  <2> QED
    BY <1>3, <1>12, <2>1, <2>2, SessionGoes DEF Ejects, Ends, SameCopy
<1>13. CASE Registers(p, l)
  BY <1>2, <1>3, <1>13, SessionStops DEF Registers
<1>14. CASE Beats(p, l)
  BY <1>2, <1>3, <1>14, SessionStops DEF Beats
<1>15. CASE Marks(p, l)
  <2>1. proc'[p].pc \notin Fresh /\ proc'[p].pc \notin {"owner", "create", "mount"}
    BY <1>15 DEF Marks, Fresh
  <2> QED
    BY <1>2, <1>3, <1>15, <2>1, SessionGoes DEF Marks, SameCopy
<1>16. CASE Forgets(p, l)
  BY <1>2, <1>3, <1>16, SessionStops DEF Forgets
<1> QED
  BY <1>6, <1>7, <1>8, <1>9, <1>10, <1>11, <1>12, <1>13, <1>14, <1>15, <1>16 DEF Works

\* So do the requests that come in.
LEMMA SessionAsks ==
    ASSUME SessionInv, NEW p \in Procs, NEW l \in Leases, Asks(p, l)
    PROVE  SessionOK(l)'
<1>1. Types /\ SessionOK(l) /\ Opens(p, l)
  BY SessionFacts
     DEF Asks, OpensAcquire, OpensHeartbeat, OpensRelease, OpensAttach, OpensRemove
<1>2. attaches[l] = 0 => ~journal[l].ident
  BY <1>1 DEF SessionOK
<1>3. /\ Concerns(p, l) /\ proc[p].l = NoLease /\ proc'[p].l = l /\ p \in Handlers
      /\ UNCHANGED <<child, live, attaches, children>>
  BY <1>1, AtWork DEF Opens
<1>4. /\ proc'[p].s \in {0, children[l]} /\ proc'[p].pc \notin Fresh
      /\ attaches[l] = 0 => ~journal'[l].ident /\ ~proc'[p].j.ident
  BY <1>2 DEF Asks, OpensAcquire, OpensHeartbeat, OpensRelease, OpensAttach, OpensRemove, Fresh
<1>5. /\ proc'[p].pc \in {"owner", "create", "mount"} => proc'[p].op = "acquire"
      /\ proc'[p].op = "acquire" => attaches[l] = 0 /\ \A q \in Handlers : proc[q].l # l
  BY DEF Asks, OpensAcquire, OpensHeartbeat, OpensRelease, OpensAttach, OpensRemove
<1> QED
  BY <1>3, <1>4, <1>5, SessionOpens

\* So does Recover.
LEMMA SessionReaps ==
    ASSUME SessionInv, NEW l \in Leases, Reaps(l)
    PROVE  SessionOK(l)'
<1>1. Types /\ SessionOK(l) /\ Recoverer \in Procs
  BY SessionFacts DEF Procs
<1>2. PICK x \in todo :
         /\ x.l = l /\ ~Preserves(x.j)
         /\ journal'[l] = journal[l] \/ journal'[l].ident = x.j.ident
         /\ \/ proc'[Recoverer] = proc[Recoverer]
            \/ /\ proc'[Recoverer].l = l /\ proc'[Recoverer].op = "recover"
               /\ proc'[Recoverer].j.ident = x.j.ident /\ ~proc'[Recoverer].keep
               /\ \/ proc'[Recoverer].pc \in {"cleanup", "reattach"} /\ proc'[Recoverer].s = 0
                  \/ proc'[Recoverer].pc = "native" /\ proc'[Recoverer].s = children[l]
  BY DEF Reaps
<1>3. attaches[l] = 0 => ~journal[l].ident /\ ~x.j.ident
  BY <1>1, <1>2 DEF SessionOK
<1>4. /\ Concerns(Recoverer, l) /\ proc[Recoverer].l = NoLease
      /\ UNCHANGED <<child, live, attaches, children>>
  BY <1>1, AtWork DEF Reaps, LeaseStays
<1>5. CASE proc'[Recoverer].l = l /\ proc'[Recoverer].op = "recover"
  <2>1. /\ proc'[Recoverer].s \in {0, children[l]} /\ proc'[Recoverer].pc \notin Fresh
        /\ proc'[Recoverer].pc \notin {"owner", "create", "mount"}
        /\ attaches[l] = 0 => ~journal'[l].ident /\ ~proc'[Recoverer].j.ident
    <3>1. proc'[Recoverer] # proc[Recoverer]
      BY <1>1, <1>4, <1>5, AtWork
    <3> QED
      BY <1>2, <1>3, <3>1 DEF Fresh
  <2> QED
    BY <1>1, <1>4, <1>5, <2>1, SessionOpens
<1>6. CASE proc'[Recoverer] = proc[Recoverer]
  <2>1. \A q \in Procs : proc'[q] = proc[q]
    BY <1>4, <1>6 DEF Concerns, Others
  <2>2. todo' \subseteq todo
    BY <1>4 DEF Concerns
  <2>3. Handlers \subseteq Procs
    BY DEF Procs
  <2>4. ASSUME NEW q \in Procs, proc[q].l = l PROVE SessionOf(q, l)'
    <3>1. SessionOf(q, l)
      BY <1>1, <2>4 DEF SessionOK
    <3> QED
      BY <1>4, <2>1, <2>3, <3>1 DEF SessionOf
  <2> QED
    BY <1>1, <1>2, <1>3, <1>4, <2>1, <2>2, <2>4 DEF SessionOK
<1> QED
  BY <1>2, <1>5, <1>6
-----------------------------------------------------------------------------
(* The client that has the lease                                           *)

\* No goroutine detaches the disk of a client that has the lease: whoever
\* holds its session does not exist.
LEMMA HolderWorks ==
    ASSUME SessionInv, NEW p \in Procs, NEW l \in Leases, UserOK(l), Sole(l), HolderOK(l),
           Works(p, l)
    PROVE  HolderOK(l)'
<1>1. Types /\ SessionOK(l) /\ (proc[p].l = l => SessionOf(p, l)) /\ NoLease \notin Leases
  BY SessionFacts, AtWork
<1>2. Concerns(p, l) /\ proc[p].l = l
  BY DEF Works, GivesUp, GoesOn, Creates, Abandons, Mounts, Undoes, Ejects, Registers,
         Beats, Marks, Forgets
<1>3. alive' = alive /\ \A q \in Procs \ {p} : proc'[q] = proc[q]
  BY <1>2 DEF Concerns, Others
<1>4. CASE /\ live'[l] = live[l] /\ (holder'[l] \in alive => holder[l] \in alive)
           /\ Stopped(p) \/ Same(p)
  BY <1>1, <1>2, <1>3, <1>4 DEF HolderOK, Stopped, Same
<1>5. CASE GivesUp(p, l) \/ GoesOn(p, l) \/ Creates(p, l) \/ Abandons(p, l) \/ Marks(p, l)
           \/ Forgets(p, l)
  BY <1>4, <1>5 DEF GivesUp, GoesOn, Creates, Abandons, Marks, Forgets, LeaseStays
<1>6. CASE Mounts(p, l)
  BY <1>3, <1>6 DEF Mounts, HolderOK
<1>7. CASE Undoes(p, l) \/ Ejects(p, l)
  <2>1. holder[l] \in alive => live'[l] = live[l]
    BY <1>2, <1>7 DEF HolderOK, Undoes, Ejects, Ends
  <2>2. holder'[l] = holder[l] /\ (Stopped(p) \/ Same(p))
    BY <1>7 DEF Undoes, Ejects, Ends
  <2> QED
    BY <1>1, <1>2, <1>3, <2>1, <2>2 DEF HolderOK, Stopped, Same
<1>8. CASE Registers(p, l)
  <2>1. /\ proc[p].s # 0 /\ proc[p].s = live[l] /\ live'[l] = live[l] /\ Stopped(p)
        /\ \A q \in Procs \ {p} : proc[q].l = l => proc[q].s # proc[p].s
    BY <1>1, <1>2, <1>8 DEF Registers, SessionOf, Fresh
  <2> QED
    BY <1>1, <1>3, <2>1 DEF HolderOK, Stopped
<1>9. CASE Beats(p, l)
  <2>1. holder'[l] \in alive => holder[l] \in alive
    <3>1. alive \subseteq Clients /\ NoClient \notin Clients
      BY <1>1, SentinelsAssumption DEF SentinelsAssumption, Types, Observed
    <3>2. /\ holder[l] \in users[l] \cup {NoClient}
          /\ proc[p].c \in users[l] \cup {NoClient}
      BY <1>2 DEF UserOK
    <3> QED
      BY <1>9, <3>1, <3>2 DEF Beats, Sole
  <2> QED
    BY <1>4, <1>9, <2>1 DEF Beats
<1> QED
  BY <1>5, <1>6, <1>7, <1>8, <1>9 DEF Works

\* Who asks for the release, or the removal, gives up the lease.
LEMMA HolderAsks ==
    ASSUME SessionInv, NEW p \in Procs, NEW l \in Leases, HolderOK(l), Asks(p, l)
    PROVE  HolderOK(l)'
<1>1. Opens(p, l)
  BY DEF Asks, OpensAcquire, OpensHeartbeat, OpensRelease, OpensAttach, OpensRemove
<1>2. /\ alive' = alive /\ live' = live /\ proc'[p].l = l
      /\ \A q \in Procs \ {p} : proc'[q] = proc[q]
  BY <1>1 DEF Opens, Concerns, Others
<1>3. NoClient \notin alive
  BY SentinelsAssumption DEF SentinelsAssumption, SessionInv, Types, Observed
<1>4. holder'[l] = NoClient \/ (holder'[l] = holder[l] /\ proc'[p].s = 0)
  BY DEF Asks, OpensAcquire, OpensHeartbeat, OpensRelease, OpensAttach, OpensRemove
<1> QED
  BY <1>2, <1>3, <1>4 DEF HolderOK

\* Recover takes up no lease while its only client is running.
LEMMA HolderReaps ==
    ASSUME SessionInv, NEW l \in Leases, UserOK(l), Sole(l), HolderOK(l), Reaps(l)
    PROVE  HolderOK(l)'
<1>1. /\ Types /\ alive' = alive /\ alive \subseteq Clients /\ holder' = holder
      /\ NoClient \notin Clients
  BY SentinelsAssumption
     DEF SentinelsAssumption, Reaps, LeaseStays, Concerns, SessionInv, Types, Observed
<1>2. PICK x \in todo : x.l = l /\ ~Preserves(x.j)
  BY DEF Reaps
<1>3. x.j.client \in users[l] /\ x.j.client \notin alive
  BY <1>2 DEF Preserves, UserOK
<1>4. holder[l] \notin alive
  BY <1>1, <1>3 DEF UserOK, Sole
<1> QED
  BY <1>1, <1>4 DEF HolderOK
-----------------------------------------------------------------------------
(* What a release leaves behind                                            *)

\* The steps of goroutines delete a child before they report it.
LEMMA GoneWorks ==
    ASSUME SessionInv, NEW p \in Procs, NEW l \in Leases, GoneOK(l), Works(p, l)
    PROVE  GoneOK(l)'
<1>1. Types /\ SessionOK(l) /\ NoLease \notin Leases
  BY SessionFacts, SentinelsAssumption DEF SentinelsAssumption
<1>2. Concerns(p, l) /\ proc[p].l = l
  BY DEF Works, GivesUp, GoesOn, Creates, Abandons, Mounts, Undoes, Ejects, Registers,
         Beats, Marks, Forgets
<1>3. /\ \A q \in Procs \ {p} : proc'[q] = proc[q]
      /\ SessionOf(p, l) /\ GoneOf(p, l)
  BY <1>1, <1>2 DEF Concerns, Others, SessionOK, GoneOK
<1>4. /\ live[l] \in Nat /\ attaches[l] \in Nat /\ children[l] \in Nat /\ proc[p].s \in Nat
      /\ child[l] \in BOOLEAN /\ record[l] \in BOOLEAN /\ gone[l] \in BOOLEAN
      /\ live[l] <= attaches[l] /\ children[l] <= attaches[l]
  BY <1>1, LeaseTypes, AtWork, SessionFacts
<1>5. Unwanted(l)' <=> Unwanted(l)
  BY <1>1, LeaseTypes DEF Works, GivesUp, GoesOn, Creates, Abandons, Mounts, Undoes, Ends, Ejects,
         Registers, Beats, Marks, Forgets, LeaseStays, Unwanted
<1>6. ASSUME \/ UNCHANGED <<child, live>>
             \/ ~child'[l]
             \/ ~Unwanted(l),
             attaches'[l] = attaches[l]
      PROVE  /\ \A q \in Procs \ {p} : proc'[q].l = l => GoneOf(q, l)'
             /\ Unwanted(l) /\ gone[l] => ~child'[l] /\ attaches'[l] # 0
             /\ Unwanted(l) /\ children[l] # 0 => children[l] = live'[l] \/ ~child'[l]
  BY <1>3, <1>5, <1>6 DEF GoneOK, GoneOf
<1>7. CASE GivesUp(p, l) \/ Beats(p, l) \/ Registers(p, l) \/ Forgets(p, l)
  <2>1. UNCHANGED <<child, live, record, attaches>> /\ proc'[p].l # l
    BY <1>1, <1>7 DEF GivesUp, Beats, Registers, Forgets, LeaseStays, Stopped
  <2>2. Unwanted(l) /\ children'[l] # 0 => children'[l] = live[l] \/ ~child[l]
    BY <1>3, <1>6, <1>7, <2>1 DEF GivesUp, Beats, Registers, Forgets, LeaseStays, GoneOf
  <2>3. Unwanted(l) /\ gone'[l] => ~child[l] /\ attaches[l] # 0
    <3>1. CASE Forgets(p, l) /\ proc[p].op \in {"release", "remove"}
      BY <1>3, <1>4, <1>6, <2>1, <3>1 DEF Forgets, GoneOf, SessionOf
    <3>2. CASE ~(Forgets(p, l) /\ proc[p].op \in {"release", "remove"})
      BY <1>4, <1>6, <1>7, <2>1, <3>2 DEF GivesUp, Beats, Registers, Forgets, LeaseStays
    <3> QED
      BY <3>1, <3>2
  <2> QED
    BY <1>5, <1>6, <2>1, <2>2, <2>3 DEF GoneOK
<1>8. CASE GoesOn(p, l) \/ Marks(p, l)
  <2>1. /\ UNCHANGED <<child, live, attaches, children, gone>> /\ Same(p)
        /\ record'[l] => record[l] \/ proc[p].keep
    BY <1>3, <1>8 DEF GoesOn, Marks, LeaseStays, GoneOf
  <2>2. GoneOf(p, l)'
    <3>1. /\ proc'[p].pc \in {"retain", "record"} => proc[p].pc = "retain"
          /\ proc'[p].pc \in {"cleanup", "unlist", "unrecord", "forget"} =>
                proc[p].pc \in {"cleanup", "unlist", "unrecord", "record"}
      BY <1>8 DEF GoesOn, Marks
    <3> QED
      BY <1>3, <1>5, <2>1, <3>1 DEF GoneOf, Same
  <2> QED
    BY <1>3, <1>5, <1>6, <2>1, <2>2 DEF GoneOK, GoneOf
<1>9. CASE Creates(p, l)
  <2>1. attaches[l] = 0 /\ proc[p].op = "acquire"
    BY <1>3, <1>9 DEF Creates, SessionOf
  <2>2. /\ UNCHANGED <<record, live, attaches, children, gone>> /\ Same(p)
        /\ proc'[p].pc = "mount"
    BY <1>9 DEF Creates
  <2>3. /\ children[l] = 0 /\ (Unwanted(l) => ~gone[l])
        /\ \A q \in Procs : proc[q].l = l => proc[q].s = 0 /\ proc[q].op # "release"
    <3>1. children[l] = 0 /\ (Unwanted(l) => ~gone[l])
      BY <1>4, <2>1 DEF GoneOK
    <3>2. ASSUME NEW q \in Procs, proc[q].l = l PROVE proc[q].s = 0 /\ proc[q].op # "release"
      <4>1. proc[q].s \in Nat /\ proc[q].s <= 0 /\ GoneOf(q, l)
        BY <1>1, <2>1, <3>2, AtWork, SessionFacts DEF SessionOf, GoneOK
      <4>2. proc[q].s = 0
        BY <4>1
      <4> QED
        BY <4>1, <4>2 DEF GoneOf
    <3> QED
      BY <3>1, <3>2
  <2>4. ASSUME NEW q \in Procs, proc'[q].l = l PROVE GoneOf(q, l)'
    <3>1. GoneOf(q, l) /\ proc[q].s = 0 /\ proc[q].op # "release"
      BY <1>2, <1>3, <2>3, <2>4 DEF GoneOK
    <3>2. CASE q = p
      BY <1>5, <2>1, <2>2, <3>1, <3>2 DEF GoneOf, Same
    <3>3. CASE q # p
      BY <1>3, <1>5, <3>1, <3>3 DEF GoneOf
    <3> QED
      BY <3>2, <3>3
  <2> QED
    BY <1>5, <2>2, <2>3, <2>4 DEF GoneOK
<1>10. CASE Abandons(p, l)
  <2>1. ~child'[l] /\ UNCHANGED <<record, attaches, children, gone>> /\ proc'[p].l # l
    BY <1>1, <1>10 DEF Abandons, Stopped
  <2> QED
    BY <1>5, <1>6, <2>1 DEF GoneOK
<1>11. CASE Mounts(p, l)
  <2>1. /\ UNCHANGED <<child, record, children, gone>> /\ child[l] /\ live[l] = 0
        /\ proc'[p].s = live'[l] /\ attaches'[l] = attaches[l] + 1
        /\ proc'[p].op = proc[p].op /\ proc'[p].keep = proc[p].keep
        /\ proc'[p].pc \in {"ready", "rewrite", "native"} /\ live'[l] # 0
    BY <1>4, <1>11 DEF Mounts
  <2>2. /\ Unwanted(l) => children[l] = 0 /\ ~gone[l]
        /\ \A q \in Procs : proc[q].l = l /\ Unwanted(l) => proc[q].s = 0
    BY <2>1 DEF GoneOK, GoneOf
  <2>3. ASSUME NEW q \in Procs \ {p}, proc'[q].l = l PROVE GoneOf(q, l)'
    <3>1. GoneOf(q, l) /\ proc'[q] = proc[q] /\ (Unwanted(l) => proc[q].s = 0)
      BY <1>3, <2>2, <2>3 DEF GoneOK
    <3> QED
      BY <1>5, <2>1, <3>1 DEF GoneOf
  <2>4. GoneOf(p, l)'
    BY <1>3, <1>5, <2>1 DEF GoneOf
  <2> QED
    BY <1>5, <2>1, <2>2, <2>3, <2>4 DEF GoneOK
<1>12. CASE Undoes(p, l) \/ Ejects(p, l)
  <2>1. /\ UNCHANGED <<record, attaches, children, gone>> /\ Ends(p, l)
        /\ live'[l] = IF live[l] = proc[p].s THEN 0 ELSE live[l]
        /\ child'[l] = IF live[l] = proc[p].s /\ ~proc[p].keep THEN FALSE ELSE child[l]
    BY <1>12 DEF Undoes, Ejects, Ends
  <2>2. Unwanted(l) => ~proc[p].keep
    BY <1>3 DEF GoneOf
  <2>3. CASE live[l] = proc[p].s
    <3>1. ~child'[l] \/ ~Unwanted(l)
      BY <2>1, <2>2, <2>3
    <3>2. proc'[p].l = l => GoneOf(p, l)'
      <4>1. proc'[p].l = l => Same(p) /\ proc'[p].pc = IF proc[p].keep THEN "retain" ELSE "cleanup"
        BY <1>1, <1>12 DEF Undoes, Ejects, Stopped
      <4> QED
        BY <1>3, <1>5, <3>1, <4>1 DEF GoneOf, Same
    <3> QED
      BY <1>5, <1>6, <2>1, <3>1, <3>2 DEF GoneOK
  <2>4. CASE live[l] # proc[p].s
    <3>1. live'[l] = live[l] /\ child'[l] = child[l]
      BY <2>1, <2>4
    <3>2. proc'[p].l = l => GoneOf(p, l)'
      <4>1. proc'[p].l = l => Same(p) /\ proc'[p].pc = IF proc[p].keep THEN "retain" ELSE "cleanup"
        BY <1>1, <1>12 DEF Undoes, Ejects, Stopped
      <4>2. Unwanted(l) /\ proc[p].op = "release" => ~child[l]
        BY <1>3, <2>4 DEF GoneOf
      <4> QED
        BY <1>3, <1>5, <3>1, <4>1, <4>2 DEF GoneOf, Same
    <3>3. \A q \in Procs \ {p} : proc'[q].l = l => GoneOf(q, l)'
      BY <1>3, <1>5, <3>1 DEF GoneOK, GoneOf
    <3> QED
      BY <1>5, <2>1, <3>1, <3>2, <3>3 DEF GoneOK
  <2> QED
    BY <2>3, <2>4
<1> QED
  BY <1>7, <1>8, <1>9, <1>10, <1>11, <1>12 DEF Works

\* A request, or Recover, starts with the session in the map or with none.
LEMMA GoneOpens ==
    ASSUME SessionInv, NEW p \in Procs, NEW l \in Leases, GoneOK(l),
           Concerns(p, l), UNCHANGED <<child, record, live, attaches, children, gone>>,
           Unwanted(l)' => Unwanted(l), record[l] => ~Unwanted(l)',
           proc'[p].l = l => /\ proc'[p].keep \/ proc'[p].op \in {"attach", "remove"} => ~Unwanted(l)'
                             /\ proc'[p].pc \notin {"retain", "record"}
                             /\ proc'[p].op = "release" =>
                                   proc'[p].s # 0 /\ proc'[p].pc = "mark"
                             /\ proc'[p].s \in {0, children[l]}
    PROVE  GoneOK(l)'
<1>1. \A q \in Procs \ {p} : proc'[q] = proc[q]
  BY DEF Concerns, Others
<1>2. \A q \in Procs \ {p} : proc'[q].l = l => GoneOf(q, l)'
  <2> SUFFICES ASSUME NEW q \in Procs \ {p}, proc'[q].l = l
               PROVE  GoneOf(q, l)'
    OBVIOUS
  <2>1. GoneOf(q, l) /\ proc'[q] = proc[q]
    BY <1>1 DEF GoneOK
  <2>2. ~Unwanted(l) => ~Unwanted(l)'
    OBVIOUS
  <2> QED
    BY <2>1, <2>2 DEF GoneOf
<1>3. proc'[p].l = l => GoneOf(p, l)'
  BY DEF GoneOf, GoneOK
<1> QED
  BY <1>2, <1>3 DEF GoneOK

\* What clients ask for is asked for from then on.
LEMMA AskedOnce ==
    ASSUME NEW so_far \in {"no", "asked", "yes", "dropped", "discarded"}, NEW keep \in BOOLEAN
    PROVE  /\ AskedFor(so_far, keep) \in {"no", "discarded"} =>
                 so_far \in {"no", "discarded"} /\ ~keep
           /\ keep => AskedFor(so_far, keep) \in {"asked", "yes", "dropped"}
BY DEF AskedFor

\* Every request keeps the account.
LEMMA GoneAsks ==
    ASSUME SessionInv, NEW p \in Procs, NEW l \in Leases, GoneOK(l), Asks(p, l)
    PROVE  GoneOK(l)'
<1>1. /\ Concerns(p, l) /\ UNCHANGED <<child, record, live, attaches, children, gone>>
      /\ kept[l] \in {"no", "asked", "yes", "dropped", "discarded"} /\ record[l] \in BOOLEAN
  BY LeaseTypes
     DEF Asks, OpensAcquire, OpensHeartbeat, OpensRelease, OpensAttach, OpensRemove, Opens,
         SessionInv
<1>2. CASE OpensAcquire(p, l)
  <2>1. /\ kept'[l] = kept[l] /\ ~proc'[p].keep /\ proc'[p].op = "acquire"
        /\ proc'[p].pc = "owner" /\ proc'[p].s = 0
    BY <1>2 DEF OpensAcquire
  <2> QED
    BY <1>1, <2>1, GoneOpens DEF GoneOK, Unwanted
<1>3. CASE OpensHeartbeat(p, l)
  <2>1. /\ kept'[l] = kept[l] /\ proc'[p].op = "heartbeat"
        /\ proc'[p].pc = "beat" /\ proc'[p].s = 0 /\ ~proc'[p].keep
    BY <1>3 DEF OpensHeartbeat
  <2> QED
    BY <1>1, <2>1, GoneOpens DEF GoneOK, Unwanted
<1>4. CASE OpensRelease(p, l)
  <2>1. /\ kept'[l] = AskedFor(kept[l], proc'[p].keep) /\ proc'[p].op = "release"
        /\ proc'[p].pc = "mark" /\ proc'[p].s = children[l] /\ children[l] # 0
        /\ proc'[p].keep \in BOOLEAN
    BY <1>4 DEF OpensRelease
  <2>2. /\ Unwanted(l)' => Unwanted(l) /\ ~proc'[p].keep
    BY <1>1, <2>1, AskedOnce DEF Unwanted
  <2>3. record[l] => ~Unwanted(l)
    BY DEF GoneOK
  <2> QED
    BY <1>1, <2>1, <2>2, <2>3, GoneOpens
<1>5. CASE OpensAttach(p, l)
  <2>1. /\ kept'[l] = kept[l] /\ proc'[p].op = "attach" /\ record[l]
        /\ proc'[p].pc = "reattach" /\ proc'[p].s = 0
    BY <1>5 DEF OpensAttach
  <2> QED
    BY <1>1, <2>1, GoneOpens DEF GoneOK, Unwanted
<1>6. CASE OpensRemove(p, l)
  <2>1. /\ kept'[l] = AskedFor(kept[l], FALSE) /\ proc'[p].op = "remove" /\ record[l]
        /\ proc'[p].pc \in {"reattach", "native"} /\ proc'[p].s = children[l]
        /\ ~proc'[p].keep
    BY <1>6 DEF OpensRemove
  <2>2. Unwanted(l)' => Unwanted(l)
    BY <1>1, <2>1, AskedOnce DEF Unwanted
  <2>3. ~Unwanted(l)
    BY <2>1 DEF GoneOK
  <2> QED
    BY <1>1, <2>1, <2>2, <2>3, GoneOpens
<1> QED
  BY <1>2, <1>3, <1>4, <1>5, <1>6 DEF Asks

\* So does Recover.
LEMMA GoneReaps ==
    ASSUME SessionInv, NEW l \in Leases, GoneOK(l), Reaps(l)
    PROVE  GoneOK(l)'
<1>1. /\ Recoverer \in Procs /\ Concerns(Recoverer, l)
      /\ UNCHANGED <<child, record, live, attaches, children, gone, kept>>
      /\ proc[Recoverer].l = NoLease /\ NoLease \notin Leases
  BY AtWork DEF Reaps, LeaseStays, Procs, SessionInv
<1>2. proc'[Recoverer].l = l =>
         /\ proc'[Recoverer].op = "recover" /\ ~proc'[Recoverer].keep
         /\ proc'[Recoverer].pc \in {"cleanup", "reattach", "native"}
         /\ proc'[Recoverer].s \in {0, children[l]}
  BY <1>1 DEF Reaps
<1>3. (Unwanted(l)' <=> Unwanted(l)) /\ (record[l] => ~Unwanted(l))
  BY <1>1 DEF Unwanted, GoneOK
<1> QED
  BY <1>1, <1>2, <1>3, GoneOpens
-----------------------------------------------------------------------------
(* One goroutine after the other                                           *)

\* The goroutine that works on a lease that is not disturbed is the only one.
LEMMA Alone ==
    ASSUME Serial, NEW l \in Leases, AloneOK(l), NEW p \in Procs, NEW q \in Procs,
           proc[p].l = l, proc[q].l = l
    PROVE  p = q
<1>1. NoLease \notin Leases
  BY SentinelsAssumption DEF SentinelsAssumption
<1> QED
  BY <1>1 DEF Serial, AloneOK, Procs

\* The steps of goroutines leave the first Recover alone.
LEMMA SerialWorks ==
    ASSUME Types, Serial, NEW p \in Procs, NEW l \in Leases, Works(p, l)
    PROVE  Serial'
<1>1. Concerns(p, l) /\ proc[p].l = l
  BY DEF Works, GivesUp, GoesOn, Creates, Abandons, Mounts, Undoes, Ejects, Registers,
         Beats, Marks, Forgets
<1>2. /\ \A q \in Procs \ {p} : proc'[q] = proc[q]
      /\ todo' \subseteq todo
      /\ \/ up' = up
         \/ /\ p = Recoverer /\ up = "starting" /\ up' = "down"
            /\ proc'[p].pc = "idle" /\ todo' = {}
  BY <1>1 DEF Concerns, Others
<1>3. NoLease \notin Leases /\ Recoverer \notin Handlers
  BY SentinelsAssumption DEF SentinelsAssumption
<1>4. up # "serving" => p = Recoverer /\ \A q \in Handlers : q # p /\ q \in Procs
  BY <1>1, <1>3 DEF Serial, Procs
<1>5. ASSUME up # "serving", NEW m \in Leases
      PROVE  children'[m] = 0
  <2>1. children[m] = 0 /\ children[l] = 0
    BY <1>5 DEF Serial
  <2>2. CASE m # l
    BY <1>1, <2>1, <2>2 DEF Concerns
  <2>3. CASE m = l
    <3>1. ~Registers(p, l)
      BY <1>1, <1>4, <1>5 DEF Registers, Serial, RecoverOnly
    <3> QED
      BY <1>1, <2>1, <2>3, <3>1
         DEF Works, GivesUp, GoesOn, Creates, Abandons, Mounts, Undoes, Ejects, Beats, Marks,
             Forgets, LeaseStays, Ends
  <2> QED
    BY <2>2, <2>3
<1>6. up # "down"
  BY <1>1, <1>4, AtWork DEF Serial
<1>7. RecoverOnly'
  <2>1. CASE p = Recoverer
    <3>1. /\ proc[p].op = "recover" /\ ~proc[p].keep
          /\ proc[p].pc \in {"cleanup", "reattach", "native", "unlist", "forget"}
      BY <1>1, <2>1 DEF Serial, RecoverOnly
    <3>2. proc'[p].l \in Leases =>
            /\ proc'[p].op = "recover" /\ ~proc'[p].keep
            /\ proc'[p].pc \in {"cleanup", "reattach", "native", "unlist", "forget"}
      BY <1>3, <3>1
         DEF Works, GivesUp, GoesOn, Creates, Abandons, Mounts, Undoes, Ejects, Registers,
             Beats, Marks, Forgets, Stopped, Same
    <3> QED
      BY <2>1, <3>2 DEF RecoverOnly
  <2>2. CASE p # Recoverer
    BY <1>2, <2>2 DEF Serial, RecoverOnly, Procs
  <2> QED
    BY <2>1, <2>2
<1> QED
  BY <1>2, <1>4, <1>5, <1>6, <1>7 DEF Serial

\* So do requests, which come later.
LEMMA SerialAsks ==
    ASSUME Types, Serial, NEW p \in Procs, NEW l \in Leases, Asks(p, l)
    PROVE  Serial'
<1>1. Opens(p, l)
  BY DEF Asks, OpensAcquire, OpensHeartbeat, OpensRelease, OpensAttach, OpensRemove
<1>2. up = "serving" /\ up' = up /\ proc'[Recoverer] = proc[Recoverer]
  BY <1>1, SentinelsAssumption DEF SentinelsAssumption, Opens, Concerns, Others, Procs
<1> QED
  BY <1>2 DEF Serial, RecoverOnly

\* Recover takes up a lease.
LEMMA SerialReaps ==
    ASSUME Types, Serial, NEW l \in Leases, Reaps(l)
    PROVE  Serial'
<1>1. /\ Concerns(Recoverer, l) /\ children' = children /\ proc[Recoverer].pc = "next"
      /\ Recoverer \notin Handlers /\ Recoverer \in Procs /\ NoLease \notin Leases
  BY SentinelsAssumption DEF SentinelsAssumption, Reaps, LeaseStays, Procs
<1>2. \/ proc'[Recoverer] = proc[Recoverer]
      \/ /\ proc'[Recoverer].op = "recover" /\ ~proc'[Recoverer].keep
         /\ proc'[Recoverer].pc \in {"cleanup", "reattach", "native"}
  BY DEF Reaps
<1>3. /\ \A q \in Handlers : proc'[q] = proc[q]
      /\ up' = up /\ up # "down"
  BY <1>1, <1>2 DEF Concerns, Others, Procs, Serial
<1>4. RecoverOnly'
  BY <1>2 DEF Serial, RecoverOnly
<1> QED
  BY <1>1, <1>3, <1>4 DEF Serial

\* The lease is as it should be if it is for the goroutine that works on it.
LEMMA ConsoleFrom ==
    ASSUME NEW p \in Procs, NEW l \in Leases, KeptOK(l)', AloneOK(l)',
           \A q \in Procs \ {p} : proc'[q].l # l,
           proc'[p].l = l => RequestOf(p, l)' /\ StepOf(p, l)'
    PROVE  ConsoleOK(l)'
BY DEF ConsoleOK

\* What is known before a step of p on lease l.
LEMMA ConsoleFacts ==
    ASSUME SessionInv, Serial, NEW p \in Procs, NEW l \in Leases, ConsoleOK(l), Works(p, l)
    PROVE  /\ KeptOK(l) /\ RequestOf(p, l) /\ StepOf(p, l) /\ SessionOf(p, l)
           /\ \A q \in Procs \ {p} : proc'[q].l # l
           /\ AloneOK(l)' /\ todo' \subseteq todo /\ (up' = "starting" => up = "starting")
           /\ live[l] # 0 => child[l]
<1>1. Concerns(p, l) /\ proc[p].l = l
  BY DEF Works, GivesUp, GoesOn, Creates, Abandons, Mounts, Undoes, Ejects, Registers,
         Beats, Marks, Forgets
<1>2. Types /\ SessionOK(l) /\ AloneOK(l) /\ KeptOK(l) /\ RequestOf(p, l) /\ StepOf(p, l)
  BY <1>1 DEF SessionInv, ConsoleOK
<1>3. \A q \in Procs \ {p} : proc[q].l # l /\ proc'[q].l # l
  BY <1>1, <1>2, Alone DEF Concerns, Others
<1>4. proc'[p].pc = "idle" => proc'[p].l = NoLease
  BY DEF Works, GivesUp, GoesOn, Creates, Abandons, Mounts, Undoes, Ejects, Registers,
         Beats, Marks, Forgets, Stopped
<1>5. AloneOK(l)'
  <2>1. \A q, r \in Handlers : proc'[q].l = l /\ proc'[r].l = l => q = r
    BY <1>3 DEF Procs
  <2>2. ASSUME proc'[Recoverer].l = l PROVE up' = "starting"
    <3>1. p = Recoverer
      BY <1>3, <2>2 DEF Procs
    <3>2. up' = up
      BY <1>1, <1>4, <2>2, <3>1, SentinelsAssumption DEF SentinelsAssumption, Concerns
    <3> QED
      BY <1>1, <1>2, <3>1, <3>2 DEF AloneOK
  <2> QED
    BY <2>1, <2>2 DEF AloneOK
<1> QED
  BY <1>1, <1>2, <1>3, <1>5 DEF Concerns, SessionOK

\* The steps of a goroutine keep what the clients were told.
LEMMA ConsoleWorks ==
    ASSUME SessionInv, Serial, NEW p \in Procs, NEW l \in Leases, ConsoleOK(l), Works(p, l)
    PROVE  ConsoleOK(l)'
<1>1. Concerns(p, l) /\ proc[p].l = l
  BY DEF Works, GivesUp, GoesOn, Creates, Abandons, Mounts, Undoes, Ejects, Registers,
         Beats, Marks, Forgets
<1>2. /\ KeptOK(l) /\ RequestOf(p, l) /\ StepOf(p, l) /\ SessionOf(p, l)
      /\ \A q \in Procs \ {p} : proc'[q].l # l
      /\ AloneOK(l)' /\ todo' \subseteq todo /\ (up' = "starting" => up = "starting")
      /\ live[l] # 0 => child[l]
  BY <1>1, ConsoleFacts
<1>3. /\ live[l] \in Nat /\ attaches[l] \in Nat /\ children[l] \in Nat
      /\ child[l] \in BOOLEAN /\ record[l] \in BOOLEAN /\ gone[l] \in BOOLEAN
      /\ kept[l] \in {"no", "asked", "yes", "dropped", "discarded"}
      /\ proc[p].s \in Nat /\ proc[p].keep \in BOOLEAN /\ NoLease \notin Leases
  BY LeaseTypes, AtWork, ConstantsAssumption DEF ConstantsAssumption, SessionInv
<1>4. Stopped(p) => proc'[p].l # l
  BY <1>3 DEF Stopped
<1>5. Absent.retained = FALSE
  BY DEF Absent
<1>6. CASE GivesUp(p, l)
  <2>0. proc[p].op \in Ops
    BY <1>1, AtWork DEF SessionInv, Types, Typed, ProcTyped, Frames, Calm
  <2>1. KeptOK(l)'
    BY <1>1, <1>2, <1>6, <2>0 DEF Ops, GivesUp, LeaseStays, KeptOK, RequestOf, StepOf
  <2> QED
    BY <1>2, <1>4, <1>6, <2>1, ConsoleFrom DEF GivesUp
<1>7. CASE GoesOn(p, l)
  <2>1. KeptOK(l)'
    BY <1>1, <1>2, <1>5, <1>7 DEF GoesOn, LeaseStays, KeptOK, RequestOf, StepOf
  <2>3. RequestOf(p, l)'
    BY <1>1, <1>2, <1>7 DEF GoesOn, LeaseStays, RequestOf, StepOf, Same
  <2>4. StepOf(p, l)'
    BY <1>1, <1>2, <1>7 DEF GoesOn, LeaseStays, RequestOf, StepOf, Same
  <2> QED
    BY <1>2, <2>1, <2>3, <2>4, ConsoleFrom
<1>8. CASE Creates(p, l)
  <2>1. KeptOK(l)'
    BY <1>1, <1>2, <1>8 DEF Creates, KeptOK, RequestOf, StepOf
  <2>3. RequestOf(p, l)' /\ StepOf(p, l)'
    BY <1>1, <1>2, <1>8 DEF Creates, RequestOf, StepOf, Same, SameCopy
  <2> QED
    BY <1>2, <2>1, <2>3, ConsoleFrom
<1>9. CASE Abandons(p, l)
  <2>1. KeptOK(l)'
    BY <1>1, <1>2, <1>9 DEF Abandons, KeptOK, RequestOf, StepOf
  <2> QED
    BY <1>2, <1>4, <1>9, <2>1, ConsoleFrom DEF Abandons
<1>10. CASE Mounts(p, l)
  <2>1. KeptOK(l)'
    BY <1>1, <1>2, <1>3, <1>10 DEF Mounts, KeptOK, RequestOf, StepOf
  <2>3. RequestOf(p, l)'
    BY <1>1, <1>2, <1>10 DEF Mounts, RequestOf, StepOf
  <2>4. StepOf(p, l)'
    BY <1>1, <1>2, <1>10 DEF Mounts, RequestOf, StepOf
  <2> QED
    BY <1>2, <2>1, <2>3, <2>4, ConsoleFrom
<1>11. CASE Undoes(p, l)
  <2>0. live[l] = proc[p].s /\ live'[l] = 0
    BY <1>1, <1>2, <1>11 DEF Undoes, Ends, SessionOf, Fresh
  <2>1. KeptOK(l)'
    BY <1>1, <1>2, <1>11, <2>0 DEF Undoes, Ends, KeptOK, RequestOf, StepOf
  <2> QED
    BY <1>2, <1>4, <1>11, <2>1, ConsoleFrom DEF Undoes
<1>12. CASE Ejects(p, l)
  <2>1. KeptOK(l)'
    BY <1>1, <1>2, <1>3, <1>12 DEF Ejects, Ends, KeptOK, RequestOf, StepOf
  <2>3. RequestOf(p, l)'
    BY <1>1, <1>2, <1>12 DEF Ejects, Ends, RequestOf, StepOf, Same, SameCopy
  <2>4. StepOf(p, l)'
    BY <1>1, <1>2, <1>12 DEF Ejects, Ends, RequestOf, StepOf, KeptOK, Same, SameCopy
  <2> QED
    BY <1>2, <2>1, <2>3, <2>4, ConsoleFrom
<1>13. CASE Registers(p, l)
  <2>0. proc[p].s = live[l] /\ proc[p].s # 0
    BY <1>1, <1>2, <1>13 DEF Registers, SessionOf, Fresh
  <2>1. KeptOK(l)'
    BY <1>1, <1>2, <1>13, <2>0 DEF Registers, KeptOK
  <2> QED
    BY <1>2, <1>4, <1>13, <2>1, ConsoleFrom DEF Registers
<1>14. CASE Beats(p, l)
  <2>1. KeptOK(l)'
    BY <1>1, <1>2, <1>14 DEF Beats, KeptOK, RequestOf, StepOf
  <2> QED
    BY <1>2, <1>4, <1>14, <2>1, ConsoleFrom DEF Beats
<1>15. CASE Marks(p, l)
  <2>1. KeptOK(l)'
    BY <1>1, <1>2, <1>15 DEF Marks, KeptOK, RequestOf, StepOf
  <2>3. RequestOf(p, l)' /\ StepOf(p, l)'
    BY <1>1, <1>2, <1>15 DEF Marks, RequestOf, StepOf, Same, SameCopy
  <2> QED
    BY <1>2, <2>1, <2>3, ConsoleFrom
<1>16. CASE Forgets(p, l)
  <2>0. kept'[l] = "yes" /\ kept[l] # "yes" => up # "starting"
    BY <1>1, <1>2, <1>3, <1>16 DEF Forgets, Serial, RequestOf, Procs
  <2>1. KeptOK(l)'
    BY <1>1, <1>2, <1>3, <1>16, <2>0 DEF Forgets, KeptOK, RequestOf, StepOf
  <2> QED
    BY <1>2, <1>4, <1>16, <2>1, ConsoleFrom DEF Forgets
<1> QED
  BY <1>6, <1>7, <1>8, <1>9, <1>10, <1>11, <1>12, <1>13, <1>14, <1>15, <1>16 DEF Works

\* A request on a lease that is not busy begins with what the clients were
\* told so far.
LEMMA ConsoleAsks ==
    ASSUME SessionInv, Serial, NEW p \in Procs, NEW l \in Leases, ConsoleOK(l), Asks(p, l),
           \A q \in Procs : proc[q].l # l
    PROVE  ConsoleOK(l)'
<1>1. Opens(p, l)
  BY DEF Asks, OpensAcquire, OpensHeartbeat, OpensRelease, OpensAttach, OpensRemove
<1>2. /\ Types /\ ConsoleOK(l) /\ SessionOK(l) /\ p \in Handlers /\ up = "serving"
      /\ proc[p].l = NoLease /\ proc'[p].l = l
      /\ UNCHANGED <<child, record, live, attaches, children, gone, up>>
  BY <1>1, AtWork, SentinelsAssumption
     DEF SentinelsAssumption, Opens, Concerns, SessionInv
<1>3. /\ live[l] \in Nat /\ attaches[l] \in Nat /\ children[l] \in Nat
      /\ child[l] \in BOOLEAN /\ record[l] \in BOOLEAN /\ gone[l] \in BOOLEAN
      /\ kept[l] \in {"no", "asked", "yes", "dropped", "discarded"}
      /\ NoLease \notin Leases /\ Recoverer \notin Handlers
  BY <1>2, LeaseTypes, SentinelsAssumption DEF SentinelsAssumption
<1>4. \A q \in Procs \ {p} : proc'[q] = proc[q] /\ proc'[q].l # l
  BY <1>1 DEF Opens, Concerns, Others
<1>5. AloneOK(l)'
  BY <1>2, <1>3, <1>4 DEF AloneOK, Procs
<1>6. KeptOK(l) /\ children[l] <= attaches[l] /\ (live[l] # 0 => child[l])
  BY <1>2 DEF ConsoleOK, SessionOK
<1>7. /\ \/ kept'[l] = kept[l]
         \/ attaches[l] # 0 /\ \E keep \in BOOLEAN : kept'[l] = AskedFor(kept[l], keep)
      /\ journal'[l] = journal[l] \/ (attaches[l] = 0 /\ kept'[l] = kept[l])
  <2>1. CASE OpensAcquire(p, l) \/ OpensHeartbeat(p, l) \/ OpensAttach(p, l)
    BY <2>1 DEF OpensAcquire, OpensHeartbeat, OpensAttach
  <2>2. CASE OpensRelease(p, l)
    BY <1>3, <1>6, <2>2 DEF OpensRelease
  <2>3. CASE OpensRemove(p, l)
    BY <1>3, <1>6, <2>3 DEF OpensRemove, KeptOK
  <2> QED
    BY <2>1, <2>2, <2>3 DEF Asks
<1>8. KeptOK(l)'
  BY <1>2, <1>3, <1>6, <1>7 DEF KeptOK, AskedFor
<1>10. RequestOf(p, l)'
  <2>1. CASE OpensAcquire(p, l)
    BY <1>2, <1>3, <1>6, <2>1 DEF OpensAcquire, RequestOf, KeptOK
  <2>2. CASE OpensHeartbeat(p, l)
    BY <1>2, <1>3, <2>2 DEF OpensHeartbeat, RequestOf
  <2>3. CASE OpensRelease(p, l)
    BY <1>2, <1>3, <2>3 DEF OpensRelease, RequestOf, AskedFor
  <2>4. CASE OpensAttach(p, l)
    BY <1>2, <1>3, <1>6, <2>4 DEF OpensAttach, RequestOf, KeptOK
  <2>5. CASE OpensRemove(p, l)
    BY <1>2, <1>3, <1>6, <2>5 DEF OpensRemove, RequestOf, KeptOK, AskedFor
  <2> QED
    BY <2>1, <2>2, <2>3, <2>4, <2>5 DEF Asks
<1>11. StepOf(p, l)'
  BY <1>2 DEF Asks, OpensAcquire, OpensHeartbeat, OpensRelease, OpensAttach, OpensRemove, StepOf
<1> QED
  BY <1>4, <1>5, <1>8, <1>10, <1>11, ConsoleFrom

\* The first Recover takes up a lease that no client was told is retained.
LEMMA ConsoleReaps ==
    ASSUME SessionInv, Serial, NEW l \in Leases, ConsoleOK(l), Reaps(l), up # "serving"
    PROVE  ConsoleOK(l)'
<1>1. /\ Types /\ SessionOK(l) /\ Recoverer \in Procs
      /\ Concerns(Recoverer, l) /\ LeaseStays /\ proc[Recoverer].pc = "next"
  BY DEF SessionInv, Reaps, Procs
<1>2. /\ up = "starting" /\ todo' \subseteq todo
  BY <1>1 DEF Serial, Concerns, Types, Observed
<1>3. PICK x \in todo :
         /\ x.l = l /\ ~Preserves(x.j)
         /\ journal'[l] = journal[l] \/ journal'[l].ident = x.j.ident
         /\ \/ proc'[Recoverer] = proc[Recoverer]
            \/ /\ proc'[Recoverer].l = l /\ proc'[Recoverer].op = "recover"
               /\ proc'[Recoverer].j.ident = x.j.ident /\ ~proc'[Recoverer].keep
               /\ \/ proc'[Recoverer].pc \in {"cleanup", "reattach"} /\ proc'[Recoverer].s = 0
                  \/ proc'[Recoverer].pc = "native" /\ proc'[Recoverer].s = children[l]
  BY DEF Reaps
<1>4. kept[l] # "yes"
  BY <1>2, <1>3 DEF ConsoleOK, KeptOK, Preserves
<1>5. /\ NoLease \notin Leases /\ Recoverer \notin Handlers
      /\ proc[Recoverer].l = NoLease
  BY <1>1, AtWork, SentinelsAssumption DEF SentinelsAssumption
<1>6. up' = up
  BY <1>1, <1>3 DEF Concerns
<1>7. /\ \A q \in Procs \ {Recoverer} : proc'[q] = proc[q] /\ proc[q].l = NoLease
      /\ children[l] = 0
  BY <1>1, <1>2 DEF Concerns, Others, Serial, Procs
<1>8. AloneOK(l)'
  BY <1>2, <1>5, <1>6, <1>7 DEF AloneOK, Procs
<1>9. KeptOK(l)'
  BY <1>1, <1>2, <1>4 DEF ConsoleOK, KeptOK, LeaseStays
<1>11. proc'[Recoverer].l = l => RequestOf(Recoverer, l)' /\ StepOf(Recoverer, l)'
  BY <1>1, <1>3, <1>4, <1>5, <1>7 DEF LeaseStays, RequestOf, StepOf
<1> QED
  BY <1>1, <1>5, <1>7, <1>8, <1>9, <1>11, ConsoleFrom
-----------------------------------------------------------------------------
(* Every step is of one of these kinds                                     *)

\* A handler answers, Recover goes on with its list, or gives up the pass.
LEMMA Stops ==
    ASSUME Types, NEW p \in Procs,
           Return(p) \/ (p = Recoverer /\ proc' = [proc EXCEPT ![Recoverer] = Idle])
    PROVE  ProcTyped' /\ Calm' /\ Others(p) /\ Stopped(p)
<1>1. Typed /\ Calm
  BY DEF Types
<1>2. ProcTyped' /\ Others(p) /\ Stopped(p)
  BY <1>1, Returned, Aborted
<1>3. proc'[p] \in {Idle, Ended(Recoverer)}
  BY <1>1 DEF Return, Ended, Typed, ProcTyped
<1> QED
  BY <1>1, <1>2, <1>3 DEF Calm, Others, Stopped

\* A goroutine takes up a lease.
LEMMA TakesUp ==
    ASSUME Types, NEW p \in Procs, NEW f \in Frames, f.l \in Leases, f.j \in Journals,
           f.pc \notin {"idle", "next"}, f.op # "none", proc' = [proc EXCEPT ![p] = f]
    PROVE  ProcTyped' /\ Calm' /\ Others(p) /\ proc'[p] = f
<1>1. ProcTyped' /\ Others(p) /\ proc'[p] = f
  BY Started DEF Types
<1> QED
  BY <1>1 DEF Types, Calm, Others

\* A goroutine goes on, maybe with a new copy of the journal.
LEMMA Proceeds ==
    ASSUME Types, NEW p \in Procs, proc[p].pc \notin {"idle", "next"},
           NEW step \in Steps \ {"next"}, NEW j \in Journals,
           \/ Goto(p, step) /\ j = proc[p].j
           \/ proc' = [proc EXCEPT ![p].pc = step, ![p].j = j]
    PROVE  ProcTyped' /\ Calm' /\ Others(p) /\ Same(p) /\ proc'[p].pc = step /\ proc'[p].j = j
<1>1. ProcTyped' /\ Others(p) /\ Same(p) /\ proc'[p].pc = step
  BY Went DEF Types
<1>2. proc \in [Procs -> Frames]
  BY DEF Types, Typed, ProcTyped
<1>3. proc'[p].j = j
  BY <1>2 DEF Goto, Frames
<1>4. step \notin {"idle", "next"}
  BY DEF Steps
<1> QED
  BY <1>1, <1>3, <1>4 DEF Types, Calm, Others, Same

\* A goroutine goes on with a new session, or a new copy of the journal.
HasSession(p, step, s) == proc' = [proc EXCEPT ![p].pc = step, ![p].s = s]

HasCopy(p, step, j) == proc' = [proc EXCEPT ![p].pc = step, ![p].j = j]

\* What that means for its local variables.
LEMMA ProceedsMounted ==
    ASSUME Types, NEW p \in Procs, proc[p].pc \notin {"idle", "next"},
           NEW step \in Steps \ {"next"}, NEW s \in Nat, HasSession(p, step, s)
    PROVE  /\ ProcTyped' /\ Calm' /\ Others(p) /\ proc'[p].pc = step /\ proc'[p].s = s
           /\ proc'[p].l = proc[p].l /\ proc'[p].j = proc[p].j
           /\ proc'[p].op = proc[p].op /\ proc'[p].keep = proc[p].keep
<1>1. /\ ProcTyped' /\ Others(p) /\ proc'[p].pc = step /\ proc'[p].s = s
      /\ proc'[p].l = proc[p].l
      /\ proc'[p].op = proc[p].op /\ proc'[p].keep = proc[p].keep
  BY Mounted DEF Types, HasSession
<1>2. proc'[p].j = proc[p].j
  BY DEF HasSession, Types, Typed, ProcTyped, Frames
<1>3. step \notin {"idle", "next"}
  BY DEF Steps
<1> QED
  BY <1>1, <1>2, <1>3 DEF Types, Calm, Others

\* The same for a new copy of the journal.
LEMMA ProceedsCopied ==
    ASSUME Types, NEW p \in Procs, proc[p].pc \notin {"idle", "next"},
           NEW step \in Steps \ {"next"}, NEW j \in Journals, HasCopy(p, step, j)
    PROVE  ProcTyped' /\ Calm' /\ Others(p) /\ Same(p) /\ proc'[p].pc = step /\ proc'[p].j = j
BY Proceeds DEF HasCopy

\* The lease of a goroutine that is at a step.
LEMMA WorkOn ==
    ASSUME Types, NEW p \in Procs, NEW step \in Steps \ {"next"}, At(p, step)
    PROVE  /\ proc[p].pc = step /\ proc[p].pc \notin {"idle", "next"}
           /\ proc[p].l \in Leases /\ proc[p].j \in Journals /\ Lease(p) = proc[p].l
BY AtWork DEF At, Lease, Steps

\* A journal that is written, and what it says.
LEMMA Writes ==
    ASSUME Types, NEW l \in Leases, NEW j \in Journals \cup {Absent}, WriteLease(l, j)
    PROVE  /\ journal' \in [Leases -> Journals \cup {Absent}] /\ journal'[l] = j
           /\ \A m \in Leases \ {l} : journal'[m] = journal[m]
BY DEF Types, Typed, WriteLease

\* A journal that is removed.
LEMMA Removes ==
    ASSUME Types, NEW l \in Leases, RemoveLease(l)
    PROVE  /\ journal' \in [Leases -> Journals \cup {Absent}] /\ journal'[l] = Absent
           /\ \A m \in Leases \ {l} : journal'[m] = journal[m]
BY DEF Types, Typed, RemoveLease

\* Another state in a journal changes nothing else in it.
LEMMA Restated ==
    ASSUME NEW j \in Journals, NEW s \in States
    PROVE  /\ [j EXCEPT !.state = s] \in Journals
           /\ [j EXCEPT !.state = s].retained = j.retained
           /\ [j EXCEPT !.state = s].ident = j.ident
           /\ j.ident \in BOOLEAN /\ j.retained \in BOOLEAN /\ j.client \in Clients
BY DEF Journals

\* The error path writes its copy of the journal and stops.
LEMMA Quarantines ==
    ASSUME Types, NEW p \in Procs, proc[p].pc \notin {"idle", "next"}, Quarantine(p)
    PROVE  /\ journal' \in [Leases -> Journals \cup {Absent}]
           /\ ProcTyped' /\ Calm' /\ Others(p) /\ Stopped(p)
           /\ journal'[proc[p].l].retained = proc[p].j.retained
           /\ journal'[proc[p].l].ident = proc[p].j.ident
           /\ \A m \in Leases \ {proc[p].l} : journal'[m] = journal[m]
<1>1. proc[p].l \in Leases /\ proc[p].j \in Journals
  BY AtWork
<1>2. /\ [proc[p].j EXCEPT !.state = "quarantined"] \in Journals
      /\ [proc[p].j EXCEPT !.state = "quarantined"].retained = proc[p].j.retained
      /\ [proc[p].j EXCEPT !.state = "quarantined"].ident = proc[p].j.ident
  BY <1>1, Restated DEF States
<1>3. WriteLease(proc[p].l, [proc[p].j EXCEPT !.state = "quarantined"]) /\ Return(p)
  BY DEF Quarantine, Lease
<1> QED
  BY <1>1, <1>2, <1>3, Writes, Stops

\* A goroutine stops, and the lease stays as it is but for its journal.
LEMMA GivesUpStep ==
    ASSUME Types, NEW p \in Procs, proc[p].pc \notin {"idle", "next"},
           LeaseStays, UNCHANGED <<stale, alive, crashes, up>>,
           ws' \in [Leases -> {"bare", "marked", "unmarked", "gone"}], todo' = todo,
           \/ Return(p) /\ UNCHANGED journal
           \/ Return(p) /\ RemoveLease(proc[p].l) /\ proc[p].pc = "owner"
           \/ Quarantine(p)
    PROVE  Types' /\ GivesUp(p, proc[p].l)
<1>1. proc[p].l \in Leases
  BY AtWork
<1>2. /\ journal' \in [Leases -> Journals \cup {Absent}]
      /\ ProcTyped' /\ Calm' /\ Others(p) /\ Stopped(p)
      /\ \A m \in Leases \ {proc[p].l} : journal'[m] = journal[m]
      /\ \/ journal'[proc[p].l] = journal[proc[p].l]
         \/ journal'[proc[p].l] = Absent /\ proc[p].pc = "owner"
         \/ /\ journal'[proc[p].l].retained = proc[p].j.retained
            /\ journal'[proc[p].l].ident = proc[p].j.ident
  <2>1. CASE Return(p) /\ UNCHANGED journal
    BY <2>1, Stops DEF Types, Typed
  <2>2. CASE Return(p) /\ RemoveLease(proc[p].l) /\ proc[p].pc = "owner"
    BY <1>1, <2>2, Stops, Removes
  <2>3. CASE Quarantine(p)
    BY <2>3, Quarantines
  <2> QED
    BY <2>1, <2>2, <2>3
<1>3. Types'
  BY <1>2 DEF Types, Typed, Observed, LeaseStays
<1>4. Concerns(p, proc[p].l)
  BY <1>2 DEF Concerns, LeaseStays, Stopped
<1> QED
  BY <1>2, <1>3, <1>4 DEF GivesUp

\* A goroutine goes on, and the lease stays as it is but for its journal.
LEMMA GoesOnStep ==
    ASSUME Types, NEW p \in Procs, proc[p].pc \notin {"idle", "next"},
           LeaseStays, UNCHANGED <<stale, alive, crashes, up, todo>>,
           ws' \in [Leases -> {"bare", "marked", "unmarked", "gone"}],
           NEW step \in Steps \ {"next"}, NEW j \in Journals,
           \/ Goto(p, step) /\ j = proc[p].j
           \/ proc' = [proc EXCEPT ![p].pc = step, ![p].j = j],
           UNCHANGED journal \/ WriteLease(proc[p].l, j) \/ RemoveLease(proc[p].l)
    PROVE  /\ Types' /\ Concerns(p, proc[p].l) /\ Same(p)
           /\ proc'[p].pc = step /\ proc'[p].j = j
           /\ UNCHANGED journal => journal'[proc[p].l] = journal[proc[p].l]
           /\ WriteLease(proc[p].l, j) => journal'[proc[p].l] = j
           /\ RemoveLease(proc[p].l) => journal'[proc[p].l] = Absent
<1>1. proc[p].l \in Leases
  BY AtWork
<1>2. ProcTyped' /\ Calm' /\ Others(p) /\ Same(p) /\ proc'[p].pc = step /\ proc'[p].j = j
  BY Proceeds
<1>3. /\ journal' \in [Leases -> Journals \cup {Absent}]
      /\ \A m \in Leases \ {proc[p].l} : journal'[m] = journal[m]
      /\ WriteLease(proc[p].l, j) => journal'[proc[p].l] = j
      /\ RemoveLease(proc[p].l) => journal'[proc[p].l] = Absent
  BY <1>1, Writes, Removes DEF Types, Typed
<1>4. Types'
  BY <1>2, <1>3 DEF Types, Typed, Observed, LeaseStays
<1>5. Concerns(p, proc[p].l)
  BY <1>2, <1>3 DEF Concerns, LeaseStays, Same
<1> QED
  BY <1>2, <1>3, <1>4, <1>5

\* The same, for a goroutine that keeps its copy of the journal.
LEMMA GoesOnGoto ==
    ASSUME Types, NEW p \in Procs, proc[p].pc \notin {"idle", "next"},
           LeaseStays, UNCHANGED <<stale, alive, crashes, up, todo>>,
           ws' \in [Leases -> {"bare", "marked", "unmarked", "gone"}],
           NEW step \in Steps \ {"next"}, Goto(p, step),
           UNCHANGED journal \/ WriteLease(proc[p].l, proc[p].j) \/ RemoveLease(proc[p].l)
    PROVE  /\ Types' /\ Concerns(p, proc[p].l) /\ Same(p)
           /\ proc'[p].pc = step /\ proc'[p].j = proc[p].j
           /\ UNCHANGED journal => journal'[proc[p].l] = journal[proc[p].l]
           /\ WriteLease(proc[p].l, proc[p].j) => journal'[proc[p].l] = proc[p].j
           /\ RemoveLease(proc[p].l) => journal'[proc[p].l] = Absent
<1> DEFINE j == proc[p].j
<1>1. /\ j \in Journals /\ j = proc[p].j
      /\ (Goto(p, step) /\ j = proc[p].j) \/ proc' = [proc EXCEPT ![p].pc = step, ![p].j = j]
      /\ UNCHANGED journal \/ WriteLease(proc[p].l, j) \/ RemoveLease(proc[p].l)
  BY AtWork
<1> HIDE DEF j
<1>2. /\ Types' /\ Concerns(p, proc[p].l) /\ Same(p)
      /\ proc'[p].pc = step /\ proc'[p].j = j
      /\ UNCHANGED journal => journal'[proc[p].l] = journal[proc[p].l]
      /\ WriteLease(proc[p].l, j) => journal'[proc[p].l] = j
      /\ RemoveLease(proc[p].l) => journal'[proc[p].l] = Absent
  BY <1>1, GoesOnStep
<1> QED
  BY <1>1, <1>2

\* The child is attached.
LEMMA MountsStep ==
    ASSUME Types, NEW p \in Procs, proc[p].pc \notin {"idle", "next"},
           Attachable(proc[p].l), Attached(proc[p].l),
           UNCHANGED <<child, ws, record, children, todo, up, alive, obs, crashes>>,
           stale' \in [Leases -> BOOLEAN],
           UNCHANGED journal \/ WriteLease(proc[p].l, proc[p].j),
           NEW step \in Steps \ {"next"},
           proc' = [proc EXCEPT ![p].pc = step, ![p].s = attaches[proc[p].l] + 1]
    PROVE  /\ Types' /\ Concerns(p, proc[p].l) /\ proc'[p].pc = step
           /\ UNCHANGED <<child, record, children, holder, kept, gone>>
           /\ child[proc[p].l] /\ live[proc[p].l] = 0
           /\ live'[proc[p].l] = attaches[proc[p].l] + 1
           /\ attaches'[proc[p].l] = attaches[proc[p].l] + 1
           /\ proc'[p].l = proc[p].l /\ proc'[p].s = attaches[proc[p].l] + 1
           /\ proc'[p].j = proc[p].j
           /\ proc'[p].op = proc[p].op /\ proc'[p].keep = proc[p].keep
           /\ UNCHANGED journal => journal'[proc[p].l] = journal[proc[p].l]
           /\ WriteLease(proc[p].l, proc[p].j) => journal'[proc[p].l] = proc[p].j
<1> DEFINE l == proc[p].l
<1>1. l \in Leases /\ proc[p].j \in Journals /\ attaches[l] + 1 \in Nat
  BY AtWork, LeaseTypes
<1>2. /\ ProcTyped' /\ Calm' /\ Others(p) /\ proc'[p].pc = step
      /\ proc'[p].s = attaches[l] + 1
      /\ proc'[p].l = proc[p].l /\ proc'[p].j = proc[p].j
      /\ proc'[p].op = proc[p].op /\ proc'[p].keep = proc[p].keep
  <2> DEFINE s == attaches[l] + 1
  <2>1. s \in Nat /\ HasSession(p, step, s) /\ s = attaches[l] + 1
    BY <1>1 DEF HasSession
  <2> HIDE DEF s
  <2>2. /\ ProcTyped' /\ Calm' /\ Others(p) /\ proc'[p].pc = step /\ proc'[p].s = s
        /\ proc'[p].l = proc[p].l /\ proc'[p].j = proc[p].j
        /\ proc'[p].op = proc[p].op /\ proc'[p].keep = proc[p].keep
    BY <2>1, ProceedsMounted
  <2> QED
    BY <2>1, <2>2
<1>3. /\ journal' \in [Leases -> Journals \cup {Absent}]
      /\ \A m \in Leases \ {l} : journal'[m] = journal[m]
      /\ WriteLease(l, proc[p].j) => journal'[l] = proc[p].j
  BY <1>1, Writes DEF Types, Typed
<1>4. /\ live' \in [Leases -> Nat] /\ attaches' \in [Leases -> Nat]
      /\ live'[l] = attaches[l] + 1 /\ attaches'[l] = attaches[l] + 1
      /\ \A m \in Leases \ {l} : live'[m] = live[m] /\ attaches'[m] = attaches[m]
  BY <1>1 DEF Attached, Types, Typed
<1>5. UNCHANGED <<child, record, children, holder, kept, gone>>
  BY DEF obs
<1>6. Types'
  BY <1>2, <1>3, <1>4, <1>5 DEF Types, Typed, Observed
<1>7. Concerns(p, l)
  BY <1>2, <1>3, <1>4, <1>5 DEF Concerns
<1> QED
  BY <1>2, <1>3, <1>4, <1>5, <1>6, <1>7 DEF Attachable

\* session.Release: what happens to the session and to the child.
LEMMA EndsStep ==
    ASSUME Types, NEW p \in Procs, proc[p].l \in Leases, Released(p)
    PROVE  /\ live' \in [Leases -> Nat] /\ child' \in [Leases -> BOOLEAN]
           /\ live'[proc[p].l] =
                IF live[proc[p].l] = proc[p].s THEN 0 ELSE live[proc[p].l]
           /\ child'[proc[p].l] =
                IF live[proc[p].l] = proc[p].s /\ ~proc[p].keep THEN FALSE ELSE child[proc[p].l]
           /\ \A m \in Leases \ {proc[p].l} : live'[m] = live[m] /\ child'[m] = child[m]
BY DEF Types, Typed, Observed, Released, Lease, Deletes

\* The goroutine that attached the child detaches it again, and stops.
LEMMA UndoesStep ==
    ASSUME Types, NEW p \in Procs, proc[p].pc \in {"ready", "rewrite"}, Released(p), Return(p),
           UNCHANGED <<journal, stale, record, attaches, children, todo, up, alive, obs, crashes>>,
           ws' \in [Leases -> {"bare", "marked", "unmarked", "gone"}]
    PROVE  Types' /\ Undoes(p, proc[p].l)
<1>1. proc[p].l \in Leases
  BY AtWork
<1>2. ProcTyped' /\ Calm' /\ Others(p) /\ Stopped(p)
  BY Stops
<1>3. UNCHANGED <<journal, record, attaches, children, holder, kept, gone>>
  BY DEF obs
<1>4. Types'
  BY <1>1, <1>2, <1>3, EndsStep DEF Types, Typed, Observed
<1>5. Concerns(p, proc[p].l)
  BY <1>1, <1>2, <1>3, EndsStep DEF Concerns, Stopped
<1> QED
  BY <1>1, <1>2, <1>3, <1>4, <1>5, EndsStep DEF Undoes, Ends

\* The record of the run is made, or removed.
LEMMA MarksStep ==
    ASSUME Types, NEW p \in Procs, proc[p].pc \notin {"idle", "next"}, Goto(p, "forget"),
           \/ proc[p].pc = "record" /\ record' = [record EXCEPT ![proc[p].l] = TRUE]
           \/ proc[p].pc = "unrecord" /\ record' = [record EXCEPT ![proc[p].l] = FALSE],
           UNCHANGED <<journal, child, ws, stale, live, attaches, children, todo, up, alive,
                       holder, kept, gone, crashes>>
    PROVE  Types' /\ Marks(p, proc[p].l)
<1>1. proc[p].l \in Leases /\ proc[p].j \in Journals
  BY AtWork
<1>2. /\ ProcTyped' /\ Calm' /\ Others(p) /\ Same(p) /\ proc'[p].pc = "forget"
      /\ proc'[p].j = proc[p].j
  BY <1>1, Proceeds DEF Steps
<1>3. /\ record' \in [Leases -> BOOLEAN]
      /\ \A m \in Leases \ {proc[p].l} : record'[m] = record[m]
      /\ \/ proc[p].pc = "record" /\ record'[proc[p].l] = TRUE
         \/ proc[p].pc = "unrecord" /\ record'[proc[p].l] = FALSE
  BY <1>1 DEF Types, Typed
<1>4. Types'
  BY <1>2, <1>3 DEF Types, Typed, Observed
<1>5. Concerns(p, proc[p].l)
  BY <1>2, <1>3 DEF Concerns, Same
<1> QED
  BY <1>2, <1>3, <1>4, <1>5 DEF Marks, SameCopy

\* The steps of acquire.
LEMMA AcquireWorks ==
    ASSUME Types, NEW p \in Procs, Acquire(p)
    PROVE  Types' /\ proc[p].l \in Leases /\ Works(p, proc[p].l)
<1> DEFINE l == proc[p].l
<1>1. CASE AcquireOwner(p)
  <2>1. /\ proc[p].pc = "owner" /\ proc[p].pc \notin {"idle", "next"}
        /\ l \in Leases /\ proc[p].j \in Journals /\ Lease(p) = l
    BY <1>1, WorkOn DEF AcquireOwner, Steps
  <2>2. /\ LeaseStays /\ UNCHANGED <<stale, alive, crashes, up, todo>>
        /\ ws' \in [Leases -> {"bare", "marked", "unmarked", "gone"}]
    BY <1>1, <2>1 DEF AcquireOwner, LeaseStays, obs, Types, Typed
  <2>3. CASE Goto(p, "create") /\ UNCHANGED journal
    <3>1. /\ Types' /\ Concerns(p, l) /\ Same(p) /\ proc'[p].pc = "create"
          /\ proc'[p].j = proc[p].j /\ journal'[l] = journal[l]
      BY <2>1, <2>2, <2>3, GoesOnGoto DEF Steps
    <3> QED
      BY <2>1, <2>2, <3>1 DEF Works, GoesOn
  <2>4. CASE RemoveLease(l) /\ Return(p)
    BY <2>1, <2>2, <2>4, GivesUpStep DEF Works
  <2> QED
    BY <1>1, <2>1, <2>3, <2>4 DEF AcquireOwner
<1>2. CASE AcquireCreate(p)
  <2> DEFINE j == [proc[p].j EXCEPT !.state = "acquiring"]
  <2>1. /\ proc[p].pc = "create" /\ proc[p].pc \notin {"idle", "next"}
        /\ l \in Leases /\ proc[p].j \in Journals /\ Lease(p) = l
    BY <1>2, WorkOn DEF AcquireCreate, Steps
  <2>2. j \in Journals /\ j.retained = proc[p].j.retained /\ j.ident = proc[p].j.ident
    BY <2>1, Restated DEF States
  <2>3. /\ WriteLease(l, j) /\ child' = [child EXCEPT ![l] = TRUE]
        /\ proc' = [proc EXCEPT ![p].pc = "mount", ![p].j = j]
        /\ UNCHANGED <<ws, stale, record, live, attaches, children, todo, up, alive,
                       holder, kept, gone, crashes>>
    BY <1>2, <2>1 DEF AcquireCreate, obs
  <2> HIDE DEF j
  <2>4. /\ ProcTyped' /\ Calm' /\ Others(p) /\ Same(p) /\ proc'[p].pc = "mount"
        /\ proc'[p].j = j
    BY <2>1, <2>2, <2>3, Proceeds DEF Steps
  <2>5. /\ journal' \in [Leases -> Journals \cup {Absent}] /\ journal'[l] = j
        /\ \A m \in Leases \ {l} : journal'[m] = journal[m]
    BY <2>1, <2>2, <2>3, Writes
  <2>6. /\ child' \in [Leases -> BOOLEAN] /\ child'[l] = TRUE
        /\ \A m \in Leases \ {l} : child'[m] = child[m]
    BY <2>1, <2>3 DEF Types, Observed
  <2>7. Types'
    BY <2>3, <2>4, <2>5, <2>6 DEF Types, Typed, Observed
  <2>8. Creates(p, l)
    BY <2>1, <2>2, <2>3, <2>4, <2>5, <2>6 DEF Creates, Concerns, Same, SameCopy
  <2> QED
    BY <2>1, <2>7, <2>8 DEF Works
<1>3. CASE AcquireMount(p)
  <2>1. /\ proc[p].pc = "mount" /\ proc[p].pc \notin {"idle", "next"}
        /\ l \in Leases /\ proc[p].j \in Journals /\ Lease(p) = l
    BY <1>3, WorkOn DEF AcquireMount, Steps
  <2>2. /\ Attachable(l) /\ Attached(l) /\ WriteLease(l, proc[p].j)
        /\ proc' = [proc EXCEPT ![p].pc = "ready", ![p].s = attaches[l] + 1]
        /\ UNCHANGED <<child, ws, record, children, todo, up, alive, obs, crashes>>
        /\ stale' \in [Leases -> BOOLEAN]
    BY <1>3, <2>1 DEF AcquireMount, Types, Observed
  <2>3. /\ Types' /\ Concerns(p, l) /\ proc'[p].pc = "ready"
        /\ UNCHANGED <<child, record, children, holder, kept, gone>>
        /\ child[l] /\ live[l] = 0
        /\ live'[l] = attaches[l] + 1 /\ attaches'[l] = attaches[l] + 1
        /\ proc'[p].l = l /\ proc'[p].s = attaches[l] + 1 /\ proc'[p].j = proc[p].j
        /\ proc'[p].op = proc[p].op /\ proc'[p].keep = proc[p].keep
        /\ journal'[l] = proc[p].j
    BY <2>1, <2>2, MountsStep DEF Steps
  <2> QED
    BY <2>1, <2>3 DEF Works, Mounts
<1>4. CASE AcquireFails(p)
  <2>1. /\ proc[p].pc \in {"create", "mount"} /\ proc[p].pc \notin {"idle", "next"}
        /\ l \in Leases /\ proc[p].j \in Journals /\ Lease(p) = l
    BY <1>4, WorkOn DEF AcquireFails, Steps
  <2>2. UNCHANGED <<stale, record, live, attaches, children, todo, up, alive, holder, kept,
                    gone, crashes>>
    BY <1>4 DEF AcquireFails, obs
  <2>3. CASE /\ child' = [child EXCEPT ![l] = FALSE]
             /\ ws' = [ws EXCEPT ![l] = IF @ = "marked" THEN "unmarked" ELSE @]
             /\ RemoveLease(l) /\ Return(p)
    <3>1. ProcTyped' /\ Calm' /\ Others(p) /\ Stopped(p)
      BY <2>3, Stops
    <3>2. /\ journal' \in [Leases -> Journals \cup {Absent}] /\ journal'[l] = Absent
          /\ \A m \in Leases \ {l} : journal'[m] = journal[m]
      BY <2>1, <2>3, Removes
    <3>3. /\ child' \in [Leases -> BOOLEAN] /\ child'[l] = FALSE
          /\ \A m \in Leases \ {l} : child'[m] = child[m]
          /\ ws' \in [Leases -> {"bare", "marked", "unmarked", "gone"}]
      BY <2>1, <2>3 DEF Types, Observed, Typed
    <3>4. Types'
      BY <2>2, <3>1, <3>2, <3>3 DEF Types, Typed, Observed
    <3>5. Abandons(p, l)
      BY <2>1, <2>2, <3>1, <3>2, <3>3 DEF Abandons, Concerns, Stopped
    <3> QED
      BY <2>1, <3>4, <3>5 DEF Works
  <2>4. CASE Quarantine(p) /\ UNCHANGED <<child, ws>>
    <3>1. LeaseStays /\ ws' \in [Leases -> {"bare", "marked", "unmarked", "gone"}]
      BY <2>2, <2>4 DEF LeaseStays, Types, Typed
    <3> QED
      BY <2>1, <2>2, <2>4, <3>1, GivesUpStep DEF Works
  <2> QED
    BY <1>4, <2>1, <2>3, <2>4 DEF AcquireFails
<1>5. CASE AcquireReady(p)
  <2> DEFINE j == [proc[p].j EXCEPT !.state = "ready", !.ident = TRUE]
  <2>1. /\ proc[p].pc = "ready" /\ proc[p].pc \notin {"idle", "next"}
        /\ l \in Leases /\ proc[p].j \in Journals /\ Lease(p) = l
    BY <1>5, WorkOn DEF AcquireReady, Steps
  <2>2. j \in Journals /\ j.retained = proc[p].j.retained
    BY <2>1 DEF Journals, States
  <2>3. /\ WriteLease(l, j) /\ proc' = [proc EXCEPT ![p].pc = "register", ![p].j = j]
        /\ LeaseStays /\ UNCHANGED <<stale, alive, crashes, up, todo>>
        /\ ws' \in [Leases -> {"bare", "marked", "unmarked", "gone"}]
    BY <1>5, <2>1 DEF AcquireReady, obs, LeaseStays, Types, Typed
  <2> HIDE DEF j
  <2>4. /\ Types' /\ Concerns(p, l) /\ Same(p) /\ proc'[p].pc = "register"
        /\ proc'[p].j = j /\ journal'[l] = j
    BY <2>1, <2>2, <2>3, GoesOnStep DEF Steps
  <2> QED
    BY <2>1, <2>2, <2>3, <2>4 DEF Works, GoesOn
<1>6. CASE AcquireReadyFails(p)
  <2>1. /\ proc[p].pc = "ready" /\ proc[p].pc \notin {"idle", "next"}
        /\ l \in Leases /\ proc[p].j \in Journals /\ Lease(p) = l
    BY <1>6, WorkOn DEF AcquireReadyFails, Steps
  <2>2. /\ Return(p) /\ UNCHANGED <<journal, stale, record, attaches, children, todo, up, alive,
                                    obs, crashes>>
    BY <1>6 DEF AcquireReadyFails
  <2>3. CASE Released(p) /\ ws' = [ws EXCEPT ![l] = "gone"]
    <3>1. ws' \in [Leases -> {"bare", "marked", "unmarked", "gone"}]
      BY <2>3 DEF Types, Typed
    <3> QED
      BY <2>1, <2>2, <2>3, <3>1, UndoesStep DEF Works
  <2>4. CASE UNCHANGED <<live, child, ws>>
    <3>1. LeaseStays /\ ws' \in [Leases -> {"bare", "marked", "unmarked", "gone"}]
      BY <2>2, <2>4 DEF LeaseStays, obs, Types, Typed
    <3> QED
      BY <2>1, <2>2, <3>1, GivesUpStep DEF Works
  <2> QED
    BY <1>6, <2>1, <2>3, <2>4 DEF AcquireReadyFails
<1>7. CASE Register(p)
  <2>1. /\ proc[p].pc = "register" /\ proc[p].pc \notin {"idle", "next"}
        /\ l \in Leases /\ proc[p].j \in Journals /\ Lease(p) = l
    BY <1>7, WorkOn DEF Register, Steps
  <2>2. /\ Return(p) /\ children' = [children EXCEPT ![l] = proc[p].s]
        /\ holder' = [holder EXCEPT ![l] = proc[p].c]
        /\ UNCHANGED <<journal, child, ws, stale, record, live, attaches, todo, up, alive, kept,
                       gone, crashes>>
    BY <1>7, <2>1 DEF Register, disk
  <2>3. ProcTyped' /\ Calm' /\ Others(p) /\ Stopped(p)
    BY <2>2, Stops
  <2>4. proc[p].s \in Nat /\ proc[p].c \in Clients \cup {NoClient}
    BY DEF Types, Typed, ProcTyped, Frames
  <2>5. /\ children' \in [Leases -> Nat] /\ holder' \in [Leases -> Clients \cup {NoClient}]
        /\ children'[l] = proc[p].s /\ holder'[l] = proc[p].c
        /\ \A m \in Leases \ {l} : children'[m] = children[m] /\ holder'[m] = holder[m]
    BY <2>1, <2>2, <2>4 DEF Types, Typed, Observed
  <2>6. Types'
    BY <2>2, <2>3, <2>5 DEF Types, Typed, Observed
  <2>7. Registers(p, l)
    BY <2>1, <2>2, <2>3, <2>5 DEF Registers, Concerns, Stopped
  <2> QED
    BY <2>1, <2>6, <2>7 DEF Works
<1> QED
  BY <1>1, <1>2, <1>3, <1>4, <1>5, <1>6, <1>7 DEF Acquire

\* The steps of release, which remove-retained and Recover share.
LEMMA ReleaseWorks ==
    ASSUME Types, NEW p \in Procs, Release(p)
    PROVE  Types' /\ proc[p].l \in Leases /\ Works(p, proc[p].l)
<1> DEFINE l == proc[p].l
<1>1. CASE WriteFails(p)
  <2>1. proc[p].pc \notin {"idle", "next"} /\ l \in Leases
    BY <1>1, AtWork DEF WriteFails
  <2>2. /\ Return(p) /\ LeaseStays /\ UNCHANGED <<journal, stale, alive, crashes, up, todo>>
        /\ ws' \in [Leases -> {"bare", "marked", "unmarked", "gone"}]
    BY <1>1 DEF WriteFails, LeaseStays, disk, obs, Types, Typed
  <2> QED
    BY <2>1, <2>2, GivesUpStep DEF Works
<1>2. CASE ReleaseMark(p)
  <2>1. /\ proc[p].pc = "mark" /\ proc[p].pc \notin {"idle", "next"}
        /\ l \in Leases /\ proc[p].j \in Journals /\ Lease(p) = l
    BY <1>2, WorkOn DEF ReleaseMark, Steps
  <2>2. /\ WriteLease(l, proc[p].j) /\ Goto(p, "native")
        /\ LeaseStays /\ UNCHANGED <<stale, alive, crashes, up, todo>>
        /\ ws' \in [Leases -> {"bare", "marked", "unmarked", "gone"}]
    BY <1>2, <2>1 DEF ReleaseMark, obs, LeaseStays, Types, Typed
  <2>3. /\ Types' /\ Concerns(p, l) /\ Same(p) /\ proc'[p].pc = "native"
        /\ proc'[p].j = proc[p].j /\ journal'[l] = proc[p].j
    BY <2>1, <2>2, GoesOnGoto DEF Steps
  <2> QED
    BY <2>1, <2>2, <2>3 DEF Works, GoesOn
<1>3. CASE NativeRelease(p)
  <2> DEFINE step == IF proc[p].keep THEN "retain" ELSE "cleanup"
             j == [proc[p].j EXCEPT !.state = IF proc[p].op = "release"
                                              THEN "released" ELSE @]
  <2>1. /\ proc[p].pc = "native" /\ proc[p].pc \notin {"idle", "next"}
        /\ l \in Leases /\ proc[p].j \in Journals /\ Lease(p) = l
    BY <1>3, WorkOn DEF NativeRelease, Steps
  <2>2. /\ j \in Journals /\ j.retained = proc[p].j.retained /\ j.ident = proc[p].j.ident
        /\ step \in Steps \ {"next"} /\ step = IF proc[p].keep THEN "retain" ELSE "cleanup"
    BY <2>1 DEF Journals, States, Steps
  <2>3. /\ Released(p) /\ HasCopy(p, step, j)
        /\ UNCHANGED <<journal, ws, stale, record, attaches, children, todo, up, alive,
                       holder, kept, gone, crashes>>
    BY <1>3, <2>1 DEF NativeRelease, HasCopy, obs
  <2> HIDE DEF step, j
  <2>4. /\ ProcTyped' /\ Calm' /\ Others(p) /\ Same(p) /\ proc'[p].pc = step
        /\ proc'[p].j = j
    BY <2>1, <2>2, <2>3, ProceedsCopied
  <2>5. Types'
    BY <2>1, <2>3, <2>4, EndsStep DEF Types, Typed, Observed
  <2>6. Concerns(p, l)
    BY <2>1, <2>3, <2>4, EndsStep DEF Concerns, Same
  <2>7. Ejects(p, l)
    BY <2>1, <2>2, <2>3, <2>4, <2>6, EndsStep DEF Ejects, Ends, SameCopy
  <2> QED
    BY <2>1, <2>5, <2>7 DEF Works
<1>4. CASE NativeReleaseFails(p)
  <2>1. /\ proc[p].pc = "native" /\ proc[p].pc \notin {"idle", "next"}
        /\ l \in Leases /\ proc[p].j \in Journals /\ Lease(p) = l
    BY <1>4, WorkOn DEF NativeReleaseFails, Steps
  <2>2. /\ LeaseStays /\ UNCHANGED <<stale, alive, crashes, up, todo>>
        /\ ws' \in [Leases -> {"bare", "marked", "unmarked", "gone"}]
        /\ (Return(p) /\ UNCHANGED journal) \/ Quarantine(p)
    BY <1>4 DEF NativeReleaseFails, Unfinished, LeaseStays, obs, Types, Typed
  <2> QED
    BY <2>1, <2>2, GivesUpStep DEF Works
<1>5. CASE ReleaseRetain(p)
  <2>1. /\ proc[p].pc = "retain" /\ proc[p].pc \notin {"idle", "next"}
        /\ l \in Leases /\ proc[p].j \in Journals /\ Lease(p) = l
    BY <1>5, WorkOn DEF ReleaseRetain, Steps
  <2>2. /\ WriteLease(l, proc[p].j) /\ Goto(p, "record")
        /\ LeaseStays /\ UNCHANGED <<stale, alive, crashes, up, todo>>
        /\ ws' \in [Leases -> {"bare", "marked", "unmarked", "gone"}]
    BY <1>5, <2>1 DEF ReleaseRetain, obs, LeaseStays, Types, Typed
  <2>3. /\ Types' /\ Concerns(p, l) /\ Same(p) /\ proc'[p].pc = "record"
        /\ proc'[p].j = proc[p].j /\ journal'[l] = proc[p].j
    BY <2>1, <2>2, GoesOnGoto DEF Steps
  <2> QED
    BY <2>1, <2>2, <2>3 DEF Works, GoesOn
<1>6. CASE ReleaseRecord(p)
  <2>1. /\ proc[p].pc = "record" /\ proc[p].pc \notin {"idle", "next"}
        /\ l \in Leases /\ proc[p].j \in Journals /\ Lease(p) = l
    BY <1>6, WorkOn DEF ReleaseRecord, Steps
  <2>2. UNCHANGED <<journal, child, ws, stale, live, attaches, children, todo, up, alive, holder,
                    kept, gone, crashes>>
    BY <1>6 DEF ReleaseRecord, obs
  <2>3. CASE record' = [record EXCEPT ![l] = TRUE] /\ Goto(p, "forget")
    BY <2>1, <2>2, <2>3, MarksStep DEF Works
  <2>4. CASE Return(p) /\ UNCHANGED record
    <3>1. LeaseStays /\ ws' \in [Leases -> {"bare", "marked", "unmarked", "gone"}]
      BY <2>2, <2>4 DEF LeaseStays, Types, Typed
    <3> QED
      BY <2>1, <2>2, <2>4, <3>1, GivesUpStep DEF Works
  <2> QED
    BY <1>6, <2>1, <2>3, <2>4 DEF ReleaseRecord
<1>7. CASE CleanupWorkspace(p)
  <2>1. /\ proc[p].pc = "cleanup" /\ proc[p].pc \notin {"idle", "next"}
        /\ l \in Leases /\ proc[p].j \in Journals /\ Lease(p) = l
    BY <1>7, WorkOn DEF CleanupWorkspace, Steps
  <2>2. /\ LeaseStays /\ UNCHANGED <<stale, alive, crashes, up, todo>>
        /\ ws' \in [Leases -> {"bare", "marked", "unmarked", "gone"}]
    BY <1>7, <2>1 DEF CleanupWorkspace, obs, LeaseStays, Types, Typed
  <2>3. CASE Goto(p, "unlist") /\ UNCHANGED journal
    <3>1. /\ Types' /\ Concerns(p, l) /\ Same(p) /\ proc'[p].pc = "unlist"
          /\ proc'[p].j = proc[p].j /\ journal'[l] = journal[l]
      BY <2>1, <2>2, <2>3, GoesOnGoto DEF Steps
    <3> QED
      BY <2>1, <2>2, <3>1 DEF Works, GoesOn
  <2>4. CASE Quarantine(p)
    BY <2>1, <2>2, <2>4, GivesUpStep DEF Works
  <2> QED
    BY <1>7, <2>3, <2>4 DEF CleanupWorkspace
<1>8. CASE Unlist(p)
  <2>1. /\ proc[p].pc = "unlist" /\ proc[p].pc \notin {"idle", "next"}
        /\ l \in Leases /\ proc[p].j \in Journals /\ Lease(p) = l
    BY <1>8, WorkOn DEF Unlist, Steps
  <2>2. /\ LeaseStays /\ UNCHANGED <<stale, alive, crashes>>
        /\ ws' \in [Leases -> {"bare", "marked", "unmarked", "gone"}]
    BY <1>8 DEF Unlist, obs, LeaseStays, Types, Typed
  <2>3. CASE /\ RemoveLease(l) /\ UNCHANGED <<todo, up>>
             /\ Goto(p, IF proc[p].op = "remove" THEN "unrecord" ELSE "forget")
    <3> DEFINE step == IF proc[p].op = "remove" THEN "unrecord" ELSE "forget"
    <3>1. /\ step \in Steps \ {"next"} /\ Goto(p, step)
          /\ step = IF proc[p].op = "remove" THEN "unrecord" ELSE "forget"
      BY <2>3 DEF Steps
    <3> HIDE DEF step
    <3>2. /\ Types' /\ Concerns(p, l) /\ Same(p) /\ proc'[p].pc = step
          /\ proc'[p].j = proc[p].j /\ journal'[l] = Absent
      BY <2>1, <2>2, <2>3, <3>1, GoesOnGoto
    <3> QED
      BY <2>1, <2>2, <3>1, <3>2 DEF Works, GoesOn
  <2>4. CASE UNCHANGED journal /\ Return(p) /\ UNCHANGED <<todo, up>>
    BY <2>1, <2>2, <2>4, GivesUpStep DEF Works
  <2>5. CASE UNCHANGED journal /\ p = Recoverer /\ AbortPass
    <3>1. /\ proc' = [proc EXCEPT ![Recoverer] = Idle] /\ todo' = {}
          /\ up' = IF up = "starting" THEN "down" ELSE up
      BY <2>5 DEF AbortPass
    <3>2. ProcTyped' /\ Calm' /\ Others(p) /\ Stopped(p)
      BY <2>5, <3>1, Stops
    <3>3. proc'[p].pc = "idle"
      BY <2>5, <3>1 DEF Types, Typed, ProcTyped, Idle
    <3>4. Types'
      BY <2>2, <2>5, <3>1, <3>2 DEF Types, Typed, Observed, LeaseStays
    <3>5. Concerns(p, l)
      BY <2>2, <2>5, <3>1, <3>2, <3>3 DEF Concerns, LeaseStays, Stopped
    <3> QED
      BY <2>1, <2>2, <2>5, <3>2, <3>4, <3>5 DEF Works, GivesUp
  <2> QED
    BY <1>8, <2>1, <2>3, <2>4, <2>5 DEF Unlist
<1>9. CASE Forget(p)
  <2> DEFINE answers == proc[p].op \in {"release", "remove"}
  <2>1. /\ proc[p].pc = "forget" /\ proc[p].pc \notin {"idle", "next"}
        /\ l \in Leases /\ proc[p].j \in Journals /\ Lease(p) = l
    BY <1>9, WorkOn DEF Forget, Steps
  <2>2. /\ Return(p)
        /\ children' = IF proc[p].s = 0 THEN children ELSE [children EXCEPT ![l] = 0]
        /\ kept' = [kept EXCEPT ![l] = IF answers /\ proc[p].keep /\ @ = "asked"
                                          THEN "yes" ELSE @]
        /\ gone' = [gone EXCEPT ![l] = @ \/ (answers /\ ~proc[p].keep)]
        /\ UNCHANGED <<journal, child, ws, stale, record, live, attaches, todo, up, alive,
                       holder, crashes>>
    BY <1>9, <2>1 DEF Forget, disk
  <2>3. ProcTyped' /\ Calm' /\ Others(p) /\ Stopped(p)
    BY <2>2, Stops
  <2>4. /\ children' \in [Leases -> Nat]
        /\ children'[l] = IF proc[p].s = 0 THEN children[l] ELSE 0
        /\ \A m \in Leases \ {l} : children'[m] = children[m]
    BY <2>1, <2>2 DEF Types, Typed
  <2>5. /\ kept' \in [Leases -> {"no", "asked", "yes", "dropped", "discarded"}]
        /\ kept'[l] = IF answers /\ proc[p].keep /\ kept[l] = "asked" THEN "yes" ELSE kept[l]
        /\ \A m \in Leases \ {l} : kept'[m] = kept[m]
    BY <2>1, <2>2 DEF Types, Observed
  <2>6. /\ gone' \in [Leases -> BOOLEAN]
        /\ gone'[l] = (gone[l] \/ (answers /\ ~proc[p].keep))
        /\ \A m \in Leases \ {l} : gone'[m] = gone[m]
    BY <2>1, <2>2 DEF Types, Observed
  <2>7. Types'
    BY <2>2, <2>3, <2>4, <2>5, <2>6 DEF Types, Typed, Observed
  <2>8. Concerns(p, l)
    BY <2>2, <2>3, <2>4, <2>5, <2>6 DEF Concerns, Stopped
  <2>9. Forgets(p, l)
    BY <2>1, <2>2, <2>3, <2>4, <2>5, <2>6, <2>8 DEF Forgets
  <2> QED
    BY <2>1, <2>7, <2>9 DEF Works
<1> QED
  BY <1>1, <1>2, <1>3, <1>4, <1>5, <1>6, <1>7, <1>8, <1>9 DEF Release

\* The heartbeat, and the steps of attach-retained and remove-retained.
LEMMA RetainedWorks ==
    ASSUME Types, NEW p \in Procs, HeartbeatWrite(p) \/ Retained(p)
    PROVE  Types' /\ proc[p].l \in Leases /\ Works(p, proc[p].l)
<1> DEFINE l == proc[p].l
<1>1. CASE HeartbeatWrite(p)
  <2>1. /\ proc[p].pc = "beat" /\ proc[p].pc \notin {"idle", "next"}
        /\ l \in Leases /\ proc[p].j \in Journals /\ Lease(p) = l
    BY <1>1, WorkOn DEF HeartbeatWrite, Steps
  <2>2. /\ Return(p) /\ WriteLease(l, proc[p].j)
        /\ holder' = [holder EXCEPT ![l] = IF @ = NoClient THEN @ ELSE proc[p].c]
        /\ UNCHANGED <<child, ws, stale, record, live, attaches, children, todo, up, alive,
                       kept, gone, crashes>>
    BY <1>1, <2>1 DEF HeartbeatWrite
  <2>3. ProcTyped' /\ Calm' /\ Others(p) /\ Stopped(p)
    BY <2>2, Stops
  <2>4. proc[p].c \in Clients \cup {NoClient}
    BY DEF Types, Typed, ProcTyped, Frames
  <2>5. /\ holder' \in [Leases -> Clients \cup {NoClient}]
        /\ holder'[l] = IF holder[l] = NoClient THEN NoClient ELSE proc[p].c
        /\ \A m \in Leases \ {l} : holder'[m] = holder[m]
    BY <2>1, <2>2, <2>4 DEF Types, Observed
  <2>6. /\ journal' \in [Leases -> Journals \cup {Absent}] /\ journal'[l] = proc[p].j
        /\ \A m \in Leases \ {l} : journal'[m] = journal[m]
    BY <2>1, <2>2, Writes
  <2>7. Types'
    BY <2>2, <2>3, <2>5, <2>6 DEF Types, Typed, Observed
  <2>8. Beats(p, l)
    BY <2>1, <2>2, <2>3, <2>5, <2>6 DEF Beats, Concerns, Stopped
  <2> QED
    BY <2>1, <2>7, <2>8 DEF Works
<1>2. CASE Reattach(p)
  <2> DEFINE step == IF proc[p].op = "attach" THEN "rewrite" ELSE "native"
  <2>1. /\ proc[p].pc = "reattach" /\ proc[p].pc \notin {"idle", "next"}
        /\ l \in Leases /\ proc[p].j \in Journals /\ Lease(p) = l
    BY <1>2, WorkOn DEF Reattach, Steps
  <2>2. /\ Attachable(l) /\ Attached(l) /\ UNCHANGED journal /\ proc[p].j.ident
        /\ proc' = [proc EXCEPT ![p].pc = step, ![p].s = attaches[l] + 1]
        /\ UNCHANGED <<child, ws, record, children, todo, up, alive, obs, crashes>>
        /\ stale' \in [Leases -> BOOLEAN]
    BY <1>2, <2>1 DEF Reattach, Types, Observed
  <2>3. step \in Steps \ {"next"} /\ step = IF proc[p].op = "attach" THEN "rewrite" ELSE "native"
    BY DEF Steps
  <2> HIDE DEF step
  <2>4. /\ Types' /\ Concerns(p, l) /\ proc'[p].pc = step
        /\ UNCHANGED <<child, record, children, holder, kept, gone>>
        /\ child[l] /\ live[l] = 0
        /\ live'[l] = attaches[l] + 1 /\ attaches'[l] = attaches[l] + 1
        /\ proc'[p].l = l /\ proc'[p].s = attaches[l] + 1 /\ proc'[p].j = proc[p].j
        /\ proc'[p].op = proc[p].op /\ proc'[p].keep = proc[p].keep
        /\ journal'[l] = journal[l]
    BY <2>1, <2>2, <2>3, MountsStep
  <2> QED
    BY <2>1, <2>2, <2>3, <2>4 DEF Works, Mounts
<1>3. CASE ReattachFails(p)
  <2>1. /\ proc[p].pc = "reattach" /\ proc[p].pc \notin {"idle", "next"}
        /\ l \in Leases /\ proc[p].j \in Journals /\ Lease(p) = l
    BY <1>3, WorkOn DEF ReattachFails, Steps
  <2>2. /\ LeaseStays /\ UNCHANGED <<stale, alive, crashes, up, todo>>
        /\ ws' \in [Leases -> {"bare", "marked", "unmarked", "gone"}]
        /\ (Return(p) /\ UNCHANGED journal) \/ Quarantine(p)
    BY <1>3 DEF ReattachFails, LeaseStays, obs, Types, Typed
  <2> QED
    BY <2>1, <2>2, GivesUpStep DEF Works
<1>4. CASE AttachRewrite(p)
  <2> DEFINE j == [proc[p].j EXCEPT !.state = "ready"]
  <2>1. /\ proc[p].pc = "rewrite" /\ proc[p].pc \notin {"idle", "next"}
        /\ l \in Leases /\ proc[p].j \in Journals /\ Lease(p) = l
    BY <1>4, WorkOn DEF AttachRewrite, Steps
  <2>2. /\ UNCHANGED <<stale, record, attaches, children, todo, up, alive, obs, crashes>>
        /\ ws' \in [Leases -> {"bare", "marked", "unmarked", "gone"}]
    BY <1>4 DEF AttachRewrite, Types, Typed
  <2>3. j \in Journals /\ j.retained = proc[p].j.retained /\ j.ident = proc[p].j.ident
    BY <2>1, Restated DEF States
  <2>4. CASE /\ WriteLease(l, j) /\ proc' = [proc EXCEPT ![p].pc = "register", ![p].j = j]
             /\ UNCHANGED <<child, live>>
    <3> HIDE DEF j
    <3>1. LeaseStays
      BY <2>2, <2>4 DEF LeaseStays, obs
    <3>2. /\ Types' /\ Concerns(p, l) /\ Same(p) /\ proc'[p].pc = "register"
          /\ proc'[p].j = j /\ journal'[l] = j
      BY <2>1, <2>2, <2>3, <2>4, <3>1, GoesOnStep DEF Steps
    <3> QED
      BY <2>1, <2>3, <3>1, <3>2 DEF Works, GoesOn
  <2>5. CASE Released(p) /\ Return(p) /\ UNCHANGED journal
    BY <2>1, <2>2, <2>5, UndoesStep DEF Works
  <2> QED
    BY <1>4, <2>1, <2>4, <2>5 DEF AttachRewrite
<1>5. CASE Unrecord(p)
  <2>1. /\ proc[p].pc = "unrecord" /\ proc[p].pc \notin {"idle", "next"}
        /\ l \in Leases /\ proc[p].j \in Journals /\ Lease(p) = l
    BY <1>5, WorkOn DEF Unrecord, Steps
  <2>2. UNCHANGED <<journal, child, ws, stale, live, attaches, children, todo, up, alive, holder,
                    kept, gone, crashes>>
    BY <1>5 DEF Unrecord, obs
  <2>3. CASE record' = [record EXCEPT ![l] = FALSE] /\ Goto(p, "forget")
    BY <2>1, <2>2, <2>3, MarksStep DEF Works
  <2>4. CASE Return(p) /\ UNCHANGED record
    <3>1. LeaseStays /\ ws' \in [Leases -> {"bare", "marked", "unmarked", "gone"}]
      BY <2>2, <2>4 DEF LeaseStays, Types, Typed
    <3> QED
      BY <2>1, <2>2, <2>4, <3>1, GivesUpStep DEF Works
  <2> QED
    BY <1>5, <2>1, <2>3, <2>4 DEF Unrecord
<1> QED
  BY <1>1, <1>2, <1>3, <1>4, <1>5 DEF Retained

\* What a client asks for is noted, and it no longer has the lease.
LEMMA Noted ==
    ASSUME Types, NEW l \in Leases, NEW keep \in BOOLEAN, Asked(l, keep)
    PROVE  /\ holder' \in [Leases -> Clients \cup {NoClient}] /\ holder'[l] = NoClient
           /\ kept' \in [Leases -> {"no", "asked", "yes", "dropped", "discarded"}]
           /\ kept'[l] = AskedFor(kept[l], keep)
           /\ \A m \in Leases \ {l} : holder'[m] = holder[m] /\ kept'[m] = kept[m]
<1>1. kept[l] \in {"no", "asked", "yes", "dropped", "discarded"}
  BY DEF Types, Observed
<1>2. AskedFor(kept[l], keep) \in {"no", "asked", "yes", "dropped", "discarded"}
  BY <1>1 DEF AskedFor
<1> QED
  BY <1>2 DEF Types, Observed, Asked

\* A request comes in: what all of them have in common.
LEMMA Opening ==
    ASSUME Types, NEW p \in Handlers, NEW c \in Clients, NEW l \in Leases, NEW f \in Frames,
           f.l = l, f.j \in Journals, f.pc \notin {"idle", "next"}, f.op # "none",
           Begin(p, c, f),
           journal' \in [Leases -> Journals \cup {Absent}],
           holder' \in [Leases -> Clients \cup {NoClient}],
           kept' \in [Leases -> {"no", "asked", "yes", "dropped", "discarded"}],
           \A m \in Leases \ {l} :
              journal'[m] = journal[m] /\ holder'[m] = holder[m] /\ kept'[m] = kept[m],
           UNCHANGED <<child, ws, stale, record, live, attaches, children, todo, up, alive,
                       gone, crashes>>
    PROVE  Types' /\ Opens(p, l) /\ proc'[p] = f
<1>1. /\ p \in Procs /\ up = "serving" /\ proc[p].pc = "idle"
      /\ proc' = [proc EXCEPT ![p] = f]
  BY DEF Begin, At, Procs
<1>2. ProcTyped' /\ Calm' /\ Others(p) /\ proc'[p] = f
  BY <1>1, TakesUp
<1>3. proc[p].l = NoLease
  BY <1>1, AtWork
<1>4. Types'
  BY <1>2 DEF Types, Typed, Observed
<1>5. Concerns(p, l)
  BY <1>2, <1>3 DEF Concerns
<1> QED
  BY <1>1, <1>2, <1>4, <1>5 DEF Opens

\* A journal that exists is one.
LEMMA Existing ==
    ASSUME Types, NEW l \in Leases, Exists(l)
    PROVE  journal[l] \in Journals
BY DEF Types, Typed, Exists, Absent

\* Every request is of one of these kinds.
LEMMA RequestWorks ==
    ASSUME Types, NEW p \in Handlers, NEW c \in Clients, Requests(p, c)
    PROVE  Types' /\ \E l \in Leases : Asks(p, l)
<1> PICK l \in Leases :
      \/ AcquireBegin(p, c, l) \/ HeartbeatBegin(p, c, l)
      \/ \E keep \in BOOLEAN : ReleaseBegin(p, c, l, keep)
      \/ AttachBegin(p, c, l) \/ RemoveBegin(p, c, l)
  BY DEF Requests
<1>s. /\ children[l] \in Nat /\ attaches[l] \in Nat /\ 0 \in Nat
      /\ TRUE \in BOOLEAN /\ FALSE \in BOOLEAN
      /\ journal \in [Leases -> Journals \cup {Absent}]
      /\ holder \in [Leases -> Clients \cup {NoClient}]
      /\ kept \in [Leases -> {"no", "asked", "yes", "dropped", "discarded"}]
  BY LeaseTypes DEF Types, Typed, Observed
<1>1. CASE AcquireBegin(p, c, l)
  <2> DEFINE j == [state |-> "requested", retained |-> FALSE, client |-> c, ident |-> FALSE]
             f == Call("owner", "acquire", l, j, 0, c, FALSE)
  <2>1. j \in Journals /\ ~j.ident
    BY DEF Journals, States
  <2>2. /\ Begin(p, c, f) /\ WriteLease(l, j) /\ attaches[l] = 0
        /\ \A q \in Handlers : proc[q].l # l
        /\ UNCHANGED <<child, ws, stale, record, live, attaches, children, todo, up, alive,
                       holder, kept, gone, crashes>>
    BY <1>1 DEF AcquireBegin, obs, Lease
  <2> HIDE DEF j
  <2>3. /\ f \in Frames /\ f.l = l /\ f.j = j /\ f.pc = "owner" /\ f.op = "acquire"
        /\ f.s = 0 /\ f.keep = FALSE /\ f.pc \notin {"idle", "next"} /\ f.op # "none"
    BY <1>s, <2>1 DEF Call, Frames, Steps, Ops
  <2> HIDE DEF f
  <2>4. /\ journal' \in [Leases -> Journals \cup {Absent}] /\ journal'[l] = j
        /\ \A m \in Leases \ {l} : journal'[m] = journal[m]
    BY <2>1, <2>2, Writes
  <2>5. Types' /\ Opens(p, l) /\ proc'[p] = f
    BY <1>s, <2>1, <2>2, <2>3, <2>4, Opening
  <2> QED
    BY <2>1, <2>2, <2>3, <2>4, <2>5 DEF Asks, OpensAcquire
<1>2. CASE HeartbeatBegin(p, c, l)
  <2> DEFINE j == [journal[l] EXCEPT !.client = c]
             f == Call("beat", "heartbeat", l, j, 0, c, FALSE)
  <2>1. journal[l] \in Journals
    BY <1>2, Existing DEF HeartbeatBegin, Beatable, Exists
  <2>2. j \in Journals /\ j.retained = journal[l].retained /\ j.ident = journal[l].ident
    BY <2>1 DEF Journals
  <2>3. /\ Begin(p, c, f)
        /\ UNCHANGED <<journal, child, ws, stale, record, live, attaches, children, todo, up,
                       alive, holder, kept, gone, crashes>>
    BY <1>2 DEF HeartbeatBegin, obs, disk
  <2> HIDE DEF j
  <2>4. /\ f \in Frames /\ f.l = l /\ f.j = j /\ f.pc = "beat" /\ f.op = "heartbeat"
        /\ f.s = 0 /\ f.keep = FALSE /\ f.pc \notin {"idle", "next"} /\ f.op # "none"
    BY <1>s, <2>2 DEF Call, Frames, Steps, Ops
  <2> HIDE DEF f
  <2>5. Types' /\ Opens(p, l) /\ proc'[p] = f
    BY <1>s, <2>2, <2>3, <2>4, Opening
  <2> QED
    BY <2>2, <2>3, <2>4, <2>5 DEF Asks, OpensHeartbeat
<1>3. ASSUME NEW keep \in BOOLEAN, ReleaseBegin(p, c, l, keep)
      PROVE  Types' /\ Asks(p, l)
  <2> DEFINE j == [journal[l] EXCEPT !.state = "releasing", !.retained = keep]
             f == Call("mark", "release", l, j, children[l], c, keep)
  <2>1. journal[l] \in Journals
    BY <1>3, Existing DEF ReleaseBegin
  <2>2. j \in Journals /\ j.retained = keep /\ j.ident = journal[l].ident
    BY <2>1 DEF Journals, States
  <2>3. /\ Begin(p, c, f) /\ Asked(l, keep) /\ children[l] # 0
        /\ UNCHANGED <<journal, child, ws, stale, record, live, attaches, children, todo, up,
                       alive, gone, crashes>>
    BY <1>3 DEF ReleaseBegin, disk
  <2> HIDE DEF j
  <2>4. /\ f \in Frames /\ f.l = l /\ f.j = j /\ f.pc = "mark" /\ f.op = "release"
        /\ f.s = children[l] /\ f.keep = keep
        /\ f.pc \notin {"idle", "next"} /\ f.op # "none"
    BY <1>s, <2>2 DEF Call, Frames, Steps, Ops
  <2> HIDE DEF f
  <2>5. /\ holder' \in [Leases -> Clients \cup {NoClient}] /\ holder'[l] = NoClient
        /\ kept' \in [Leases -> {"no", "asked", "yes", "dropped", "discarded"}]
        /\ kept'[l] = AskedFor(kept[l], keep)
        /\ \A m \in Leases \ {l} : holder'[m] = holder[m] /\ kept'[m] = kept[m]
    BY <2>3, Noted
  <2>6. Types' /\ Opens(p, l) /\ proc'[p] = f
    BY <1>s, <2>2, <2>3, <2>4, <2>5, Opening
  <2> QED
    BY <2>2, <2>3, <2>4, <2>5, <2>6 DEF Asks, OpensRelease
<1>4. CASE AttachBegin(p, c, l)
  <2> DEFINE f == Call("reattach", "attach", l, journal[l], 0, c, TRUE)
  <2>1. journal[l] \in Journals /\ record[l] /\ journal[l].retained
    BY <1>4, Existing DEF AttachBegin, RetainedOK
  <2>2. /\ Begin(p, c, f) /\ children[l] = 0 /\ attaches[l] < MaxAttach
        /\ UNCHANGED <<journal, child, ws, stale, record, live, attaches, children, todo, up,
                       alive, holder, kept, gone, crashes>>
    BY <1>4 DEF AttachBegin, obs, disk
  <2>3. /\ f \in Frames /\ f.l = l /\ f.j = journal[l] /\ f.pc = "reattach" /\ f.op = "attach"
        /\ f.s = 0 /\ f.keep = TRUE /\ f.pc \notin {"idle", "next"} /\ f.op # "none"
    BY <1>s, <2>1 DEF Call, Frames, Steps, Ops
  <2> HIDE DEF f
  <2>4. Types' /\ Opens(p, l) /\ proc'[p] = f
    BY <1>s, <2>1, <2>2, <2>3, Opening
  <2> QED
    BY <2>1, <2>2, <2>3, <2>4 DEF Asks, OpensAttach
<1>5. CASE RemoveBegin(p, c, l)
  <2> DEFINE step == IF children[l] = 0 THEN "reattach" ELSE "native"
             f == Call(step, "remove", l, journal[l], children[l], c, FALSE)
  <2>1. journal[l] \in Journals /\ record[l]
    BY <1>5, Existing DEF RemoveBegin, RetainedOK
  <2>2. /\ Begin(p, c, f) /\ Asked(l, FALSE)
        /\ UNCHANGED <<journal, child, ws, stale, record, live, attaches, children, todo, up,
                       alive, gone, crashes>>
    BY <1>5 DEF RemoveBegin, disk
  <2>3. /\ step \in Steps \ {"next"} /\ "remove" \in Ops
        /\ step = IF children[l] = 0 THEN "reattach" ELSE "native"
    BY DEF Steps, Ops
  <2> HIDE DEF step
  <2>4. /\ f \in Frames /\ f.l = l /\ f.j = journal[l] /\ f.pc = step /\ f.op = "remove"
        /\ f.s = children[l] /\ f.keep = FALSE
        /\ f.pc \notin {"idle", "next"} /\ f.op # "none"
    BY <1>s, <2>1, <2>3 DEF Call, Frames, Steps, Ops
  <2> HIDE DEF f
  <2>5. /\ holder' \in [Leases -> Clients \cup {NoClient}] /\ holder'[l] = NoClient
        /\ kept' \in [Leases -> {"no", "asked", "yes", "dropped", "discarded"}]
        /\ kept'[l] = AskedFor(kept[l], FALSE)
        /\ \A m \in Leases \ {l} : holder'[m] = holder[m] /\ kept'[m] = kept[m]
    BY <1>s, <2>2, Noted
  <2>6. Types' /\ Opens(p, l) /\ proc'[p] = f
    BY <1>s, <2>1, <2>2, <2>4, <2>5, Opening
  <2> QED
    BY <2>1, <2>2, <2>3, <2>4, <2>5, <2>6 DEF Asks, OpensRemove
<1> QED
  BY <1>1, <1>2, <1>3, <1>4, <1>5

\* Recover looks at a lease: one more kind.
LEMMA ReapWorks ==
    ASSUME Types, NEW l \in Leases, RecoverReap(l)
    PROVE  Types' /\ Reaps(l)
<1> DEFINE p == Recoverer
<1>1. /\ p \in Procs /\ proc[p].pc = "next"
      /\ UNCHANGED <<child, ws, stale, record, live, attaches, children, up, alive, holder,
                     kept, gone, crashes>>
  BY DEF RecoverReap, At, Procs, obs
<1>2. proc[p].l = NoLease
  BY <1>1, AtWork
<1>3. PICK x \in todo :
         /\ x.l = l /\ ~Preserves(x.j) /\ todo' = todo \ {x}
         /\ \/ ~child[l] /\ Resume("cleanup", l, x.j, 0) /\ UNCHANGED journal
            \/ /\ child[l] /\ IOFaults /\ UNCHANGED proc
               /\ WriteLease(l, [x.j EXCEPT !.state = "quarantined"])
            \/ /\ child[l] /\ children[l] # 0
               /\ Resume("native", l, x.j, children[l]) /\ UNCHANGED journal
            \/ /\ child[l] /\ children[l] = 0
               /\ WriteLease(l, [x.j EXCEPT !.state = "recovering"])
               /\ Resume("reattach", l, [x.j EXCEPT !.state = "recovering"], 0)
  BY DEF RecoverReap
<1>4. x.j \in Journals /\ children[l] \in Nat /\ todo \in SUBSET [l : Leases, j : Journals]
  BY LeaseTypes DEF Types, Typed
<1>5. ASSUME NEW s \in {"quarantined", "recovering"}
      PROVE  /\ [x.j EXCEPT !.state = s] \in Journals
             /\ [x.j EXCEPT !.state = s].ident = x.j.ident
  BY <1>4 DEF Journals, States
<1>6. /\ journal' \in [Leases -> Journals \cup {Absent}]
      /\ journal'[l] = journal[l] \/ journal'[l].ident = x.j.ident
      /\ \A m \in Leases \ {l} : journal'[m] = journal[m]
  <2>1. CASE UNCHANGED journal
    BY <2>1 DEF Types, Typed
  <2>2. ASSUME NEW s \in {"quarantined", "recovering"},
               WriteLease(l, [x.j EXCEPT !.state = s])
        PROVE  /\ journal' \in [Leases -> Journals \cup {Absent}]
               /\ journal'[l].ident = x.j.ident
               /\ \A m \in Leases \ {l} : journal'[m] = journal[m]
    BY <1>5, <2>2 DEF WriteLease, Types, Typed
  <2> QED
    BY <1>3, <2>1, <2>2
<1>7. /\ ProcTyped' /\ Calm' /\ Others(p)
      /\ \/ proc'[p] = proc[p]
         \/ /\ proc'[p].l = l /\ proc'[p].op = "recover"
            /\ proc'[p].j.ident = x.j.ident /\ ~proc'[p].keep
            /\ \/ proc'[p].pc \in {"cleanup", "reattach"} /\ proc'[p].s = 0
               \/ proc'[p].pc = "native" /\ proc'[p].s = children[l]
  <2>1. CASE UNCHANGED proc
    BY <2>1 DEF Types, Typed, ProcTyped, Calm, Others
  <2>2. ASSUME NEW step \in {"cleanup", "reattach", "native"}, NEW j \in Journals,
               NEW s \in Nat, j.ident = x.j.ident, Resume(step, l, j, s),
               s = IF step = "native" THEN children[l] ELSE 0
        PROVE  /\ ProcTyped' /\ Calm' /\ Others(p)
               /\ proc'[p].l = l /\ proc'[p].op = "recover"
               /\ proc'[p].j.ident = x.j.ident /\ ~proc'[p].keep
               /\ \/ proc'[p].pc \in {"cleanup", "reattach"} /\ proc'[p].s = 0
                  \/ proc'[p].pc = "native" /\ proc'[p].s = children[l]
    <3> DEFINE f == Call(step, "recover", l, j, s, NoClient, FALSE)
    <3>1. /\ f \in Frames /\ f.l = l /\ f.j = j /\ f.pc = step /\ f.op = "recover"
          /\ f.s = s /\ f.keep = FALSE /\ f.pc \notin {"idle", "next"} /\ f.op # "none"
      BY DEF Call, Frames, Steps, Ops
    <3>2. proc' = [proc EXCEPT ![p] = f]
      BY <2>2 DEF Resume
    <3> HIDE DEF f
    <3>3. ProcTyped' /\ Calm' /\ Others(p) /\ proc'[p] = f
      BY <1>1, <3>1, <3>2, TakesUp
    <3> QED
      BY <2>2, <3>1, <3>3
  <2>3. CASE Resume("cleanup", l, x.j, 0) \/ Resume("native", l, x.j, children[l])
    <3>1. CASE Resume("cleanup", l, x.j, 0)
      BY <1>4, <2>2, <3>1
    <3>2. CASE Resume("native", l, x.j, children[l])
      BY <1>4, <2>2, <3>2
    <3> QED
      BY <2>3, <3>1, <3>2
  <2>4. CASE Resume("reattach", l, [x.j EXCEPT !.state = "recovering"], 0)
    <3> DEFINE j == [x.j EXCEPT !.state = "recovering"]
    <3>1. j \in Journals /\ j.ident = x.j.ident /\ Resume("reattach", l, j, 0)
      BY <1>5, <2>4
    <3> HIDE DEF j
    <3> QED
      BY <2>2, <3>1
  <2> QED
    BY <1>3, <2>1, <2>3, <2>4
<1>8. Types'
  BY <1>1, <1>3, <1>4, <1>6, <1>7 DEF Types, Typed, Observed
<1>9. Concerns(p, l)
  BY <1>1, <1>2, <1>3, <1>6, <1>7 DEF Concerns
<1> QED
  BY <1>1, <1>3, <1>6, <1>7, <1>8, <1>9 DEF Reaps, LeaseStays
-----------------------------------------------------------------------------
(* The steps that concern no lease                                         *)

\* Recover lists the journals, goes on or ends; the broker starts; a client
\* dies; nothing happens.
Turns ==
    /\ UNCHANGED <<journal, child, record, live, attaches, children, holder, kept, gone, crashes>>
    /\ alive' \subseteq alive
    /\ \A q \in Procs : proc'[q] = proc[q] \/ (proc[q].l = NoLease /\ proc'[q].l = NoLease)
    /\ \/ todo' \subseteq todo
       \/ todo' = {x \in [l : Leases, j : Journals] : x.j = journal[x.l]}
    /\ up' = "starting" => up = "starting" \/ (up = "down" /\ UNCHANGED todo)
    /\ up' # "starting" => up # "starting" \/ proc[Recoverer].l = NoLease

\* Such a step keeps the invariants of every lease.
LEMMA TurnsKeep ==
    ASSUME Types, Turns, NEW l \in Leases
    PROVE  /\ SessionOK(l) => SessionOK(l)'
           /\ HolderOK(l) => HolderOK(l)'
           /\ Serial /\ ConsoleOK(l) => ConsoleOK(l)'
<1>1. /\ UNCHANGED <<journal, child, record, live, attaches, children, holder, kept, gone,
                     crashes>>
      /\ alive' \subseteq alive
  BY DEF Turns
<1>2. \A q \in Procs : /\ proc'[q].l = l <=> proc[q].l = l
                       /\ proc[q].l = l => proc'[q] = proc[q]
  BY SentinelsAssumption DEF Turns, SentinelsAssumption
<1>3. \A x \in todo' : x \in todo \/ x.j = journal[x.l]
  BY DEF Turns
<1>4. ASSUME SessionOK(l) PROVE SessionOK(l)'
  <2>1. attaches[l] = 0 => ~journal[l].ident /\ \A x \in todo' : x.l = l => ~x.j.ident
    BY <1>3, <1>4 DEF SessionOK
  <2>2. ASSUME NEW q \in Procs, proc[q].l = l PROVE SessionOf(q, l)'
    <3>1. SessionOf(q, l) /\ proc'[q] = proc[q]
      BY <1>2, <1>4, <2>2 DEF SessionOK
    <3> QED
      BY <1>1, <1>2, <3>1, <2>2 DEF SessionOf, Procs
  <2> QED
    BY <1>1, <1>2, <1>4, <2>1, <2>2 DEF SessionOK
<1>5. HolderOK(l) => HolderOK(l)'
  BY <1>1, <1>2 DEF HolderOK
<1>6. ASSUME Serial, ConsoleOK(l) PROVE ConsoleOK(l)'
  <2>0. /\ up' = "starting" => up = "starting" \/ todo' = {}
        /\ up' # "starting" => up # "starting" \/ proc[Recoverer].l # l
    BY <1>6, SentinelsAssumption DEF Turns, Serial, SentinelsAssumption
  <2>1. KeptOK(l)'
    BY <1>1, <1>3, <1>6, <2>0 DEF ConsoleOK, KeptOK
  <2>2. AloneOK(l)'
    BY <1>2, <1>6, <2>0 DEF ConsoleOK, AloneOK, Procs
  <2>3. ASSUME NEW q \in Procs, proc[q].l = l PROVE RequestOf(q, l)' /\ StepOf(q, l)'
    <3>1. RequestOf(q, l) /\ StepOf(q, l) /\ proc'[q] = proc[q]
      BY <1>2, <1>6, <2>3 DEF ConsoleOK
    <3>2. RequestOf(q, l)'
      BY <1>1, <3>1 DEF RequestOf
    <3>3. StepOf(q, l)'
      BY <1>1, <3>1 DEF StepOf
    <3> QED
      BY <3>2, <3>3
  <2> QED
    BY <1>2, <2>1, <2>2, <2>3 DEF ConsoleOK
<1> QED
  BY <1>4, <1>5, <1>6

\* Recover begins a pass, goes on with it, or ends it.
LEMMA PassTurns ==
    ASSUME Types, RecoverList \/ RecoverDone \/ RecoverKeep \/ RecoverAborts
    PROVE  Types' /\ Turns /\ Others(Recoverer) /\ proc[Recoverer].pc \in {"idle", "next"}
<1>1. /\ proc[Recoverer].pc \in {"idle", "next"} /\ Recoverer \in Procs
      /\ UNCHANGED <<journal, child, ws, stale, record, live, attaches, children, alive, holder,
                     kept, gone, crashes>>
  BY DEF RecoverList, RecoverDone, RecoverKeep, RecoverAborts, AbortPass, At, disk, obs, Procs
<1>2. proc[Recoverer].l = NoLease
  BY <1>1, AtWork
<1>3. /\ proc \in [Procs -> Frames] /\ Calm /\ ProcTyped
      /\ todo \in SUBSET [l : Leases, j : Journals]
      /\ up \in {"down", "starting", "serving"}
  BY DEF Types, Typed, ProcTyped, Observed
<1>4. /\ Idle \in Frames /\ Idle.l = NoLease /\ Idle.pc = "idle"
      /\ Ended(Recoverer) \in Frames /\ Ended(Recoverer).l = NoLease
      /\ Ended(Recoverer).pc = "next"
  BY DEF Idle, Ended, Frames, Steps, Ops
<1>5. \/ proc' = proc
      \/ proc' = [proc EXCEPT ![Recoverer] = Idle]
      \/ proc' = [proc EXCEPT ![Recoverer] = Ended(Recoverer)]
  BY DEF RecoverList, RecoverDone, RecoverKeep, RecoverAborts, AbortPass
<1>6. /\ ProcTyped' /\ Calm' /\ Others(Recoverer)
      /\ proc'[Recoverer] = proc[Recoverer] \/ proc'[Recoverer].l = NoLease
  <2>1. CASE proc' = proc
    BY <1>3, <2>1 DEF ProcTyped, Calm, Others
  <2>2. CASE proc' = [proc EXCEPT ![Recoverer] = Idle]
    <3>1. /\ proc' \in [Procs -> Frames] /\ proc'[Recoverer] = Idle
          /\ \A q \in Procs \ {Recoverer} : proc'[q] = proc[q]
      BY <1>1, <1>3, <1>4, <2>2
    <3> QED
      BY <1>3, <1>4, <3>1 DEF ProcTyped, Calm, Others
  <2>3. CASE proc' = [proc EXCEPT ![Recoverer] = Ended(Recoverer)]
    <3>1. /\ proc' \in [Procs -> Frames] /\ proc'[Recoverer] = Ended(Recoverer)
          /\ \A q \in Procs \ {Recoverer} : proc'[q] = proc[q]
      BY <1>1, <1>3, <1>4, <2>3
    <3> QED
      BY <1>3, <1>4, <3>1 DEF ProcTyped, Calm, Others
  <2> QED
    BY <1>5, <2>1, <2>2, <2>3
<1>7. /\ up' \in {"down", "starting", "serving"} /\ (up' = "starting" => up = "starting")
      /\ \/ todo' \subseteq todo
         \/ todo' = {x \in [l : Leases, j : Journals] : x.j = journal[x.l]}
  <2>1. CASE RecoverList
    BY <1>3, <2>1 DEF RecoverList
  <2>2. CASE RecoverDone
    BY <1>3, <2>2 DEF RecoverDone
  <2>3. CASE RecoverKeep
    BY <1>3, <2>3 DEF RecoverKeep
  <2>4. CASE RecoverAborts
    BY <1>3, <2>4 DEF RecoverAborts, AbortPass
  <2> QED
    BY <2>1, <2>2, <2>3, <2>4
<1>8. todo' \in SUBSET [l : Leases, j : Journals]
  BY <1>3, <1>7
<1>9. Types'
  BY <1>1, <1>6, <1>7, <1>8 DEF Types, Typed, Observed
<1> QED
  BY <1>1, <1>2, <1>6, <1>7, <1>9 DEF Turns, Others

\* The broker starts, a client dies, or nothing happens.
LEMMA OutsideTurns ==
    ASSUME Types, Start \/ (\E c \in Clients : ClientDies(c)) \/ UNCHANGED vars
    PROVE  /\ Types' /\ Turns /\ UNCHANGED <<proc, todo>>
           /\ up' = up \/ (up = "down" /\ up' = "starting")
<1>1. /\ UNCHANGED <<journal, child, ws, stale, record, live, attaches, children, proc, todo,
                     holder, kept, gone, crashes>>
      /\ alive' \subseteq alive
      /\ up' = up \/ (up = "down" /\ up' = "starting")
  BY DEF Start, ClientDies, vars, disk, obs
<1>2. Types'
  BY <1>1 DEF Types, Typed, Observed, ProcTyped, Calm
<1> QED
  BY <1>1, <1>2 DEF Turns

\* The broker dies, and with it what it had in memory.
LEMMA CrashKeeps ==
    ASSUME Types, Crash
    PROVE  /\ Types' /\ Serial'
           /\ UNCHANGED <<users, disturbed>>
           /\ \A l \in Leases :
                 /\ SessionOK(l) => SessionOK(l)'
                 /\ HolderOK(l)'
                 /\ ConsoleOK(l) => ConsoleOK(l)'
<1>1. /\ crashes \in Nat /\ MaxCrashes \in Nat /\ crashes < MaxCrashes
      /\ crashes' = crashes + 1 /\ up' = "down" /\ todo' = {}
      /\ proc' = [p \in Procs |-> Idle] /\ live' = [l \in Leases |-> 0]
      /\ children' = [l \in Leases |-> 0] /\ holder' = [l \in Leases |-> NoClient]
      /\ stale' \in [Leases -> BOOLEAN]
      /\ UNCHANGED <<journal, child, ws, record, attaches, alive, kept, gone, users, disturbed>>
  BY ConstantsAssumption DEF ConstantsAssumption, Crash, Types, Observed, Procs
<1>2. /\ Idle \in Frames /\ Idle.l = NoLease /\ Idle.pc = "idle"
      /\ NoLease \notin Leases /\ NoClient \notin Clients
  BY SentinelsAssumption DEF SentinelsAssumption, Idle, Frames
<1>3. \A p \in Procs : proc'[p] = Idle
  BY <1>1
<1>4. ProcTyped' /\ Calm'
  BY <1>1, <1>2, <1>3 DEF ProcTyped, Calm
<1>5. Types'
  BY <1>1, <1>4 DEF Types, Typed, Observed
<1>6. Serial'
  BY <1>1, <1>2, <1>3 DEF Serial, RecoverOnly, Procs
<1>7. ASSUME NEW l \in Leases
      PROVE  /\ SessionOK(l) => SessionOK(l)'
             /\ HolderOK(l)'
             /\ ConsoleOK(l) => ConsoleOK(l)'
  <2>1. /\ \A p \in Procs : proc'[p].l # l
        /\ live'[l] = 0 /\ children'[l] = 0 /\ holder'[l] = NoClient
        /\ attaches[l] \in Nat /\ MaxAttach \in Nat
    BY <1>1, <1>2, <1>3, LeaseTypes, ConstantsAssumption DEF ConstantsAssumption
  <2>2. SessionOK(l) => SessionOK(l)'
    BY <1>1, <2>1 DEF SessionOK
  <2>3. HolderOK(l)'
    BY <1>1, <1>2, <2>1 DEF HolderOK, Types, Observed
  <2>4. KeptOK(l) => KeptOK(l)'
    BY <1>1, <2>1 DEF KeptOK
  <2>5. AloneOK(l)'
    BY <2>1 DEF AloneOK, Procs
  <2> QED
    BY <2>1, <2>2, <2>3, <2>4, <2>5 DEF ConsoleOK
<1> QED
  BY <1>1, <1>5, <1>6, <1>7
-----------------------------------------------------------------------------
(* The theorems                                                            *)

\* Every step of the broker is of one of the kinds above.
LEMMA Kinds ==
    ASSUME Types, [Next]_vars
    PROVE  /\ Types'
           /\ \/ \E p \in Procs, l \in Leases : Works(p, l) \/ Asks(p, l)
              \/ \E l \in Leases : Reaps(l)
              \/ RecoverList \/ RecoverDone \/ RecoverKeep \/ RecoverAborts
              \/ Crash
              \/ Start \/ (\E c \in Clients : ClientDies(c)) \/ UNCHANGED vars
<1>1. CASE \E p \in Handlers, c \in Clients : Requests(p, c)
  BY <1>1, RequestWorks DEF Procs
<1>2. CASE \E p \in Procs : Handle(p)
  <2>1. PICK p \in Procs : Handle(p)
    BY <1>2
  <2>2. Types' /\ proc[p].l \in Leases /\ Works(p, proc[p].l)
    BY <2>1, AcquireWorks, ReleaseWorks, RetainedWorks DEF Handle
  <2> QED
    BY <2>2
<1>3. CASE \E l \in Leases : RecoverReap(l)
  BY <1>3, ReapWorks
<1>4. CASE RecoverList \/ RecoverDone \/ RecoverKeep \/ RecoverAborts
  BY <1>4, PassTurns
<1>5. CASE Crash
  BY <1>5, CrashKeeps
<1>6. CASE Start \/ (\E c \in Clients : ClientDies(c)) \/ UNCHANGED vars
  BY <1>6, OutsideTurns
<1> QED
  BY <1>1, <1>2, <1>3, <1>4, <1>5, <1>6 DEF Next, Recover, Procs

\* Steps that work on a lease concern it alone.
LEMMA KindsConcern ==
    ASSUME NEW l \in Leases
    PROVE  /\ \A p \in Procs : Works(p, l) \/ Asks(p, l) => Concerns(p, l)
           /\ Reaps(l) => Concerns(Recoverer, l) /\ Recoverer \in Procs
<1>1. ASSUME NEW p \in Procs, Works(p, l) PROVE Concerns(p, l)
  BY <1>1 DEF Works, GivesUp, GoesOn, Creates, Abandons, Mounts, Undoes, Ejects, Registers,
              Beats, Marks, Forgets
<1>2. ASSUME NEW p \in Procs, Asks(p, l) PROVE Concerns(p, l)
  BY <1>2 DEF Asks, OpensAcquire, OpensHeartbeat, OpensRelease, OpensAttach, OpensRemove, Opens
<1>3. Reaps(l) => Concerns(Recoverer, l) /\ Recoverer \in Procs
  BY DEF Reaps, Procs
<1> QED
  BY <1>1, <1>2, <1>3

\* At the start there is nothing.
LEMMA InitPromises ==
    ASSUME Init
    PROVE  SessionInv /\ UserInv /\ HolderInv /\ ConsoleInv /\ PossessInv /\ GoneInv
<1>1. /\ \A p \in Procs : proc[p] = Idle
      /\ Idle \in Frames /\ Idle.l = NoLease /\ Idle.pc = "idle"
      /\ NoLease \notin Leases /\ NoClient \notin Clients
      /\ MaxAttach \in Nat /\ MaxCrashes \in Nat
  BY SentinelsAssumption, ConstantsAssumption
     DEF SentinelsAssumption, ConstantsAssumption, Init, Procs, Idle, Frames
<1>2. ProcTyped /\ Calm
  BY <1>1 DEF Init, ProcTyped, Calm, Procs
<1>3. Types
  <2>1. Typed
    BY <1>2 DEF Init, Typed
  <2>2. Observed
    BY <1>1 DEF Init, Observed
  <2> QED
    BY <1>2, <2>1, <2>2 DEF Types
<1>4. ASSUME NEW l \in Leases
      PROVE  SessionOK(l) /\ UserOK(l) /\ HolderOK(l) /\ ConsoleOK(l) /\ PossessOK(l) /\ GoneOK(l)
  <2>1. /\ \A p \in Procs : proc[p].l # l
        /\ live[l] = 0 /\ attaches[l] = 0 /\ children[l] = 0 /\ todo = {} /\ crashes = 0
        /\ holder[l] = NoClient /\ alive = Clients /\ child[l] = FALSE /\ gone[l] = FALSE
        /\ record[l] = FALSE /\ kept[l] = "no" /\ journal[l] = Absent
    BY <1>1 DEF Init
  <2>2. SessionOK(l)
    BY <2>1 DEF SessionOK, Absent
  <2>3. HolderOK(l)
    BY <1>1, <2>1 DEF HolderOK
  <2>4. KeptOK(l) /\ AloneOK(l)
    BY <2>1 DEF KeptOK, AloneOK, Procs
  <2>5. PossessOK(l) /\ GoneOK(l)
    BY <2>1 DEF PossessOK, GoneOK
  <2>6. UserOK(l)
    BY <2>1 DEF UserOK, Absent
  <2> QED
    BY <2>1, <2>2, <2>3, <2>4, <2>5, <2>6 DEF ConsoleOK
<1>5. Serial /\ Apart
  BY <1>1 DEF Init, Serial, RecoverOnly, Apart, Procs
<1>6. Noticed
  BY DEF Init, Noticed
<1> QED
  BY <1>3, <1>4, <1>5, <1>6 DEF UserInv, SessionInv, HolderInv, ConsoleInv, PossessInv, GoneInv

\* The sessions are told apart, whatever the clients and the disks do.
LEMMA StepSession ==
    ASSUME SessionInv, [Next]_vars
    PROVE  SessionInv'
<1>1. Types /\ \A l \in Leases : SessionOK(l)
  BY DEF SessionInv
<1>2. Types'
  BY <1>1, Kinds
<1>3. ASSUME NEW p \in Procs, NEW l \in Leases, Concerns(p, l), SessionOK(l)'
      PROVE  SessionInv'
  BY <1>1, <1>2, <1>3, OtherLeases DEF SessionInv
<1>4. CASE \E p \in Procs, l \in Leases : Works(p, l) \/ Asks(p, l)
  <2>1. PICK p \in Procs, l \in Leases : Works(p, l) \/ Asks(p, l)
    BY <1>4
  <2>2. Concerns(p, l) /\ SessionOK(l)'
    BY <2>1, KindsConcern, SessionWorks, SessionAsks
  <2> QED
    BY <1>3, <2>2
<1>5. CASE \E l \in Leases : Reaps(l)
  BY <1>3, <1>5, KindsConcern, SessionReaps
<1>6. CASE RecoverList \/ RecoverDone \/ RecoverKeep \/ RecoverAborts
  BY <1>1, <1>2, <1>6, PassTurns, TurnsKeep DEF SessionInv
<1>7. CASE Crash
  BY <1>1, <1>2, <1>7, CrashKeeps DEF SessionInv
<1>8. CASE Start \/ (\E c \in Clients : ClientDies(c)) \/ UNCHANGED vars
  BY <1>1, <1>2, <1>8, OutsideTurns, TurnsKeep DEF SessionInv
<1> QED
  BY <1>1, <1>4, <1>5, <1>6, <1>7, <1>8, Kinds

\* A step that the observers of the requests take no notice of: the goroutine
\* writes the journal of the client it works for, if any.
Unnoticed(p, l) ==
    /\ UNCHANGED <<users, disturbed>>
    /\ proc'[p].l = l => proc'[p].j.client = proc[p].j.client /\ proc'[p].c = proc[p].c
    /\ journal'[l] \in {journal[l], Absent} \/ journal'[l].client = proc[p].j.client

\* A request: its client is noted, and who was at work on the lease.
Notes(p, l) ==
    \E c \in Clients :
        /\ users' = [users EXCEPT ![l] = @ \cup {c}]
        /\ disturbed' = disturbed \cup {m \in {l} : Busy(m)}
        /\ proc'[p].c = c /\ proc'[p].j.client \in {journal[l].client, c} \ {NoClient}
        /\ journal'[l] = journal[l] \/ journal'[l].client = c

\* Recover takes up the lease for the client of a journal that it has listed.
Notices(l) ==
    /\ UNCHANGED users /\ disturbed' = disturbed \cup {m \in {l} : up = "serving"}
    /\ \E x \in todo :
         /\ x.l = l
         /\ journal'[l] = journal[l] \/ journal'[l].client = x.j.client
         /\ \/ proc'[Recoverer] = proc[Recoverer]
            \/ proc'[Recoverer].j.client = x.j.client /\ proc'[Recoverer].c = NoClient

LEMMA AcquireQuiet ==
    ASSUME Types, NEW p \in Procs, Acquire(p)
    PROVE  Unnoticed(p, proc[p].l)
<1>1. /\ proc \in [Procs -> Frames] /\ proc[p] \in Frames
      /\ journal \in [Leases -> Journals \cup {Absent}]
      /\ Absent.client = NoClient
  BY DEF Types, Typed, ProcTyped, Absent
<1>2. proc[p].pc \notin {"idle", "next"}
  BY DEF Acquire, AcquireOwner, AcquireCreate, AcquireMount, AcquireFails, AcquireReady,
         AcquireReadyFails, Register, At
<1>3. proc[p].l \in Leases /\ proc[p].j \in Journals
  BY <1>2, AtWork
<1>4. Ended(p).l = NoLease /\ NoLease \notin Leases
  BY SentinelsAssumption DEF SentinelsAssumption, Ended, Idle
<1>5. CASE AcquireOwner(p)
  BY <1>1, <1>3, <1>4, <1>5
     DEF AcquireOwner, Unnoticed, Goto, Return, RemoveLease, Lease, obs, Frames
<1>6. CASE AcquireCreate(p)
  BY <1>1, <1>3, <1>6 DEF AcquireCreate, Unnoticed, WriteLease, Lease, obs, Frames, Journals
<1>7. CASE AcquireMount(p)
  BY <1>1, <1>3, <1>7 DEF AcquireMount, Unnoticed, WriteLease, Lease, obs, Frames
<1>8. CASE AcquireFails(p)
  BY <1>1, <1>3, <1>4, <1>8
     DEF AcquireFails, Unnoticed, Quarantine, WriteLease, RemoveLease, Return, Lease, obs, Frames,
         Journals
<1>9. CASE AcquireReady(p)
  BY <1>1, <1>3, <1>9 DEF AcquireReady, Unnoticed, WriteLease, Lease, obs, Frames, Journals
<1>10. CASE AcquireReadyFails(p) \/ Register(p)
  BY <1>1, <1>3, <1>4, <1>10 DEF AcquireReadyFails, Register, Unnoticed, Return, Lease, disk, obs, Frames
<1> QED
  BY <1>5, <1>6, <1>7, <1>8, <1>9, <1>10 DEF Acquire

LEMMA ReleaseQuiet ==
    ASSUME Types, NEW p \in Procs, Release(p)
    PROVE  Unnoticed(p, proc[p].l)
<1>1. /\ proc \in [Procs -> Frames] /\ proc[p] \in Frames
      /\ journal \in [Leases -> Journals \cup {Absent}]
      /\ Absent.client = NoClient
  BY DEF Types, Typed, ProcTyped, Absent
<1>2. proc[p].pc \notin {"idle", "next"}
  BY DEF Release, WriteFails, ReleaseMark, NativeRelease, NativeReleaseFails, ReleaseRetain,
         ReleaseRecord, CleanupWorkspace, Unlist, Forget, At
<1>3. proc[p].l \in Leases /\ proc[p].j \in Journals
  BY <1>2, AtWork
<1>4. Ended(p).l = NoLease /\ Idle.l = NoLease /\ NoLease \notin Leases
  BY SentinelsAssumption DEF SentinelsAssumption, Ended, Idle
<1>5. CASE WriteFails(p)
  BY <1>1, <1>3, <1>4, <1>5 DEF WriteFails, Unnoticed, Return, disk, obs
<1>6. CASE ReleaseMark(p) \/ ReleaseRetain(p)
  BY <1>1, <1>3, <1>6 DEF ReleaseMark, ReleaseRetain, Unnoticed, WriteLease, Goto, Lease, obs, Frames
<1>7. CASE NativeRelease(p)
  BY <1>1, <1>3, <1>7 DEF NativeRelease, Unnoticed, obs, Frames, Journals
<1>8. CASE NativeReleaseFails(p)
  BY <1>1, <1>3, <1>4, <1>8
     DEF NativeReleaseFails, Unnoticed, Quarantine, WriteLease, Return, Lease, obs, Journals
<1>9. CASE ReleaseRecord(p)
  BY <1>1, <1>3, <1>4, <1>9 DEF ReleaseRecord, Unnoticed, Goto, Return, obs, Frames
<1>10. CASE CleanupWorkspace(p)
  BY <1>1, <1>3, <1>4, <1>10
     DEF CleanupWorkspace, Unnoticed, Quarantine, WriteLease, Goto, Return, Lease, obs, Frames, Journals
<1>11. CASE Unlist(p)
  BY <1>1, <1>3, <1>4, <1>11
     DEF Unlist, Unnoticed, RemoveLease, Goto, Return, AbortPass, Lease, obs, Frames
<1>12. CASE Forget(p)
  BY <1>1, <1>3, <1>4, <1>12 DEF Forget, Unnoticed, Return, disk
<1> QED
  BY <1>5, <1>6, <1>7, <1>8, <1>9, <1>10, <1>11, <1>12 DEF Release

LEMMA RetainedQuiet ==
    ASSUME Types, NEW p \in Procs, HeartbeatWrite(p) \/ Retained(p)
    PROVE  Unnoticed(p, proc[p].l)
<1>1. /\ proc \in [Procs -> Frames] /\ proc[p] \in Frames
      /\ journal \in [Leases -> Journals \cup {Absent}]
      /\ Absent.client = NoClient
  BY DEF Types, Typed, ProcTyped, Absent
<1>2. proc[p].pc \notin {"idle", "next"}
  BY DEF HeartbeatWrite, Retained, Reattach, ReattachFails, AttachRewrite, Unrecord, At
<1>3. proc[p].l \in Leases /\ proc[p].j \in Journals
  BY <1>2, AtWork
<1>4. Ended(p).l = NoLease /\ Idle.l = NoLease /\ NoLease \notin Leases
  BY SentinelsAssumption DEF SentinelsAssumption, Ended, Idle
<1>5. CASE HeartbeatWrite(p)
  BY <1>1, <1>3, <1>4, <1>5 DEF HeartbeatWrite, Unnoticed, WriteLease, Return, Lease
<1>6. CASE Reattach(p)
  BY <1>1, <1>3, <1>6 DEF Reattach, Unnoticed, obs, Frames
<1>7. CASE ReattachFails(p)
  BY <1>1, <1>3, <1>4, <1>7
     DEF ReattachFails, Unnoticed, Quarantine, WriteLease, Return, Lease, obs, Journals
<1>8. CASE AttachRewrite(p)
  BY <1>1, <1>3, <1>4, <1>8
     DEF AttachRewrite, Unnoticed, WriteLease, Return, Lease, obs, Frames, Journals
<1>9. CASE Unrecord(p)
  BY <1>1, <1>3, <1>4, <1>9 DEF Unrecord, Unnoticed, Goto, Return, obs, Frames
<1> QED
  BY <1>5, <1>6, <1>7, <1>8, <1>9 DEF Retained

\* The client of a request is noted for the lease that the request is about.
LEMMA RequestNotes ==
    ASSUME Types, NEW p \in Handlers, NEW c \in Clients, Requests(p, c)
    PROVE  \E l \in Leases : Asks(p, l) /\ Notes(p, l)
<1>1. /\ proc \in [Procs -> Frames] /\ p \in Procs
      /\ journal \in [Leases -> Journals \cup {Absent}] /\ NoClient \notin Clients
  BY SentinelsAssumption DEF SentinelsAssumption, Types, Typed, ProcTyped, Procs
<1>2. PICK l \in Leases :
        \/ AcquireBegin(p, c, l) \/ HeartbeatBegin(p, c, l)
        \/ \E keep \in BOOLEAN : ReleaseBegin(p, c, l, keep)
        \/ AttachBegin(p, c, l) \/ RemoveBegin(p, c, l)
  BY DEF Requests
<1>3. PICK m \in Leases : Asks(p, m)
  BY RequestWorks
<1>4. proc'[p].l = m
  BY <1>3 DEF Asks, OpensAcquire, OpensHeartbeat, OpensRelease, OpensAttach, OpensRemove, Opens
<1>5. ASSUME NEW step, NEW op, NEW j, NEW s, NEW keep,
             Begin(p, c, Call(step, op, l, j, s, c, keep))
      PROVE  /\ proc'[p].l = l /\ proc'[p].c = c /\ proc'[p].j = j
             /\ users' = [users EXCEPT ![l] = @ \cup {c}]
             /\ disturbed' = disturbed \cup {k \in {l} : Busy(k)}
  BY <1>1, <1>5 DEF Begin, Call
<1>6. l = m /\ Notes(p, l)
  <2>1. CASE AcquireBegin(p, c, l)
    <3> DEFINE j == [state |-> "requested", retained |-> FALSE, client |-> c, ident |-> FALSE]
    <3>1. /\ Begin(p, c, Call("owner", "acquire", l, j, 0, c, FALSE)) /\ journal'[l] = j
      BY <1>1, <2>1 DEF AcquireBegin, WriteLease
    <3>2. j.client = c
      OBVIOUS
    <3> HIDE DEF j
    <3> QED
      BY <1>1, <1>4, <1>5, <3>1, <3>2 DEF Notes
  <2>2. CASE HeartbeatBegin(p, c, l)
    <3> DEFINE j == [journal[l] EXCEPT !.client = c]
    <3>1. /\ Begin(p, c, Call("beat", "heartbeat", l, j, 0, c, FALSE)) /\ journal' = journal
      BY <2>2 DEF HeartbeatBegin, disk
    <3>2. j.client = c
      BY <1>1 DEF Journals, Absent
    <3> HIDE DEF j
    <3> QED
      BY <1>1, <1>4, <1>5, <3>1, <3>2 DEF Notes
  <2>3. CASE \E keep \in BOOLEAN : ReleaseBegin(p, c, l, keep)
    <3>0. PICK keep \in BOOLEAN : ReleaseBegin(p, c, l, keep)
      BY <2>3
    <3> DEFINE j == [journal[l] EXCEPT !.state = "releasing", !.retained = keep]
    <3>1. /\ Begin(p, c, Call("mark", "release", l, j, children[l], c, keep)) /\ journal' = journal
          /\ journal[l] \in Journals
      BY <3>0, Existing DEF ReleaseBegin, disk
    <3>2. j.client = journal[l].client /\ j.client \in Clients
      BY <3>1 DEF Journals
    <3> HIDE DEF j
    <3> QED
      BY <1>1, <1>4, <1>5, <3>1, <3>2 DEF Notes
  <2>4. CASE AttachBegin(p, c, l)
    <3>1. /\ Begin(p, c, Call("reattach", "attach", l, journal[l], 0, c, TRUE))
          /\ journal' = journal /\ journal[l] \in Journals
      BY <2>4, Existing DEF AttachBegin, RetainedOK, disk
    <3>2. journal[l].client \in Clients
      BY <3>1 DEF Journals
    <3> QED
      BY <1>1, <1>4, <1>5, <3>1, <3>2 DEF Notes
  <2>5. CASE RemoveBegin(p, c, l)
    <3>1. /\ Begin(p, c, Call(IF children[l] = 0 THEN "reattach" ELSE "native", "remove", l,
                              journal[l], children[l], c, FALSE))
          /\ journal' = journal /\ journal[l] \in Journals
      BY <2>5, Existing DEF RemoveBegin, RetainedOK, disk
    <3>2. journal[l].client \in Clients
      BY <3>1 DEF Journals
    <3> QED
      BY <1>1, <1>4, <1>5, <3>1, <3>2 DEF Notes
  <2> QED
    BY <1>2, <2>1, <2>2, <2>3, <2>4, <2>5
<1> QED
  BY <1>3, <1>6

\* Recover acts for the client of the journal as it was listed.
LEMMA ReapNotices ==
    ASSUME Types, NEW l \in Leases, RecoverReap(l)
    PROVE  Notices(l)
<1>1. /\ proc \in [Procs -> Frames] /\ Recoverer \in Procs
      /\ journal \in [Leases -> Journals \cup {Absent}]
      /\ \A x \in todo : x.j \in Journals
  BY DEF Types, Typed, ProcTyped, Procs
<1>2. PICK x \in todo :
         /\ x.l = l /\ ~Preserves(x.j) /\ todo' = todo \ {x}
         /\ \/ ~child[l] /\ Resume("cleanup", l, x.j, 0) /\ UNCHANGED journal
            \/ /\ child[l] /\ IOFaults /\ UNCHANGED proc
               /\ WriteLease(l, [x.j EXCEPT !.state = "quarantined"])
            \/ /\ child[l] /\ children[l] # 0
               /\ Resume("native", l, x.j, children[l]) /\ UNCHANGED journal
            \/ /\ child[l] /\ children[l] = 0
               /\ WriteLease(l, [x.j EXCEPT !.state = "recovering"])
               /\ Resume("reattach", l, [x.j EXCEPT !.state = "recovering"], 0)
  BY DEF RecoverReap
<1>3. /\ [x.j EXCEPT !.state = "quarantined"].client = x.j.client
      /\ [x.j EXCEPT !.state = "recovering"].client = x.j.client
  BY <1>1, <1>2 DEF Journals
<1>4. ASSUME NEW step, NEW j, NEW s, Resume(step, l, j, s)
      PROVE  proc'[Recoverer].j = j /\ proc'[Recoverer].c = NoClient
  BY <1>1, <1>4 DEF Resume, Call
<1>5. /\ journal'[l] = journal[l] \/ journal'[l].client = x.j.client
      /\ \/ proc'[Recoverer] = proc[Recoverer]
         \/ proc'[Recoverer].j.client = x.j.client /\ proc'[Recoverer].c = NoClient
  BY <1>1, <1>2, <1>3, <1>4 DEF WriteLease
<1> QED
  BY <1>2, <1>5 DEF Notices, RecoverReap

\* What the observers of the requests notice of each kind of step.
LEMMA KindsNoticed ==
    ASSUME Types, [Next]_vars
    PROVE  \/ \E p \in Procs, l \in Leases : Works(p, l) /\ Unnoticed(p, l)
           \/ \E p \in Procs, l \in Leases : Asks(p, l) /\ Notes(p, l)
           \/ \E l \in Leases : Reaps(l) /\ Notices(l)
           \/ /\ RecoverList \/ RecoverDone \/ RecoverKeep \/ RecoverAborts
              /\ UNCHANGED <<users, disturbed>>
           \/ Crash /\ UNCHANGED <<users, disturbed>>
           \/ /\ Start \/ (\E c \in Clients : ClientDies(c)) \/ UNCHANGED vars
              /\ UNCHANGED <<users, disturbed>>
<1>1. CASE \E p \in Handlers, c \in Clients : Requests(p, c)
  BY <1>1, RequestNotes DEF Procs
<1>2. CASE \E p \in Procs : Handle(p)
  <2>1. PICK p \in Procs : Handle(p)
    BY <1>2
  <2>2. proc[p].l \in Leases /\ Works(p, proc[p].l)
    BY <2>1, AcquireWorks, ReleaseWorks, RetainedWorks DEF Handle
  <2>3. Unnoticed(p, proc[p].l)
    BY <2>1, AcquireQuiet, ReleaseQuiet, RetainedQuiet DEF Handle
  <2> QED
    BY <2>2, <2>3
<1>3. CASE \E l \in Leases : RecoverReap(l)
  BY <1>3, ReapWorks, ReapNotices
<1>4. CASE RecoverList \/ RecoverDone \/ RecoverKeep \/ RecoverAborts
  BY <1>4 DEF RecoverList, RecoverDone, RecoverKeep, RecoverAborts, obs
<1>5. CASE Crash
  BY <1>5 DEF Crash
<1>6. CASE Start \/ (\E c \in Clients : ClientDies(c)) \/ UNCHANGED vars
  BY <1>6 DEF Start, ClientDies, vars, obs
<1> QED
  BY <1>1, <1>2, <1>3, <1>4, <1>5, <1>6 DEF Next, Recover, Procs

\* Whoever has sent a request about the lease stays noted, and so do the
\* leases that were disturbed.
LEMMA StepUser ==
    ASSUME Types, UserInv, [Next]_vars
    PROVE  /\ UserInv' /\ disturbed \subseteq disturbed'
           /\ \A l \in Leases : users[l] \subseteq users'[l]
<1>1. /\ users \in [Leases -> SUBSET Clients] /\ disturbed \subseteq Leases
      /\ \A l \in Leases : UserOK(l)
      /\ NoLease \notin Leases /\ NoClient \notin Clients
  BY SentinelsAssumption DEF SentinelsAssumption, UserInv, Noticed
<1>c. \A l \in Leases : users[l] \subseteq Clients
  BY <1>1
<1>o. ASSUME NEW p \in Procs, NEW l \in Leases, NEW m \in Leases, m # l, Concerns(p, l),
             users'[m] = users[m]
      PROVE  UserOK(m)'
  <2>1. /\ \A q \in Procs : proc'[q].l = m <=> proc[q].l = m
        /\ \A q \in Procs : proc[q].l = m => proc'[q] = proc[q]
    BY <1>o, OtherWork
  <2>2. journal'[m] = journal[m] /\ holder'[m] = holder[m] /\ todo' \subseteq todo
    BY <1>o DEF Concerns
  <2> QED
    BY <1>1, <1>o, <2>1, <2>2 DEF UserOK
<1>2. ASSUME NEW p \in Procs, NEW l \in Leases, Works(p, l), Unnoticed(p, l) PROVE UserInv'
  <2>1. Concerns(p, l) /\ proc[p].l = l /\ UserOK(l)
    BY <1>1, <1>2 DEF Works, GivesUp, GoesOn, Creates, Abandons, Mounts, Undoes, Ejects, Registers,
                      Beats, Marks, Forgets
  <2>2. /\ \A q \in Procs \ {p} : proc'[q] = proc[q]
        /\ todo' \subseteq todo /\ UNCHANGED <<users, disturbed>>
    BY <1>2, <2>1 DEF Concerns, Others, Unnoticed
  <2>3. holder'[l] \in {holder[l], proc[p].c, NoClient}
    BY <1>2 DEF Works, GivesUp, GoesOn, Creates, Abandons, Mounts, Undoes, Ejects, Registers,
                Beats, Marks, Forgets, LeaseStays, Ends
  <2>4. UserOK(l)'
    BY <1>2, <2>1, <2>2, <2>3 DEF UserOK, Unnoticed, Absent
  <2> QED
    BY <1>1, <1>o, <2>1, <2>2, <2>4 DEF UserInv, Noticed
<1>3. ASSUME NEW p \in Procs, NEW l \in Leases, Asks(p, l), Notes(p, l)
      PROVE  /\ UserInv' /\ disturbed \subseteq disturbed'
             /\ \A m \in Leases : users[m] \subseteq users'[m]
  <2>1. PICK c \in Clients :
        /\ users' = [users EXCEPT ![l] = @ \cup {c}]
        /\ disturbed' = disturbed \cup {m \in {l} : Busy(m)}
        /\ proc'[p].c = c /\ proc'[p].j.client \in {journal[l].client, c} \ {NoClient}
        /\ journal'[l] = journal[l] \/ journal'[l].client = c
    BY <1>3 DEF Notes
  <2>2. /\ users' \in [Leases -> SUBSET Clients] /\ users'[l] = users[l] \cup {c}
        /\ \A m \in Leases \ {l} : users'[m] = users[m]
        /\ disturbed \subseteq disturbed' /\ disturbed' \subseteq Leases
    BY <1>1, <2>1
  <2>3. Concerns(p, l)
    BY <1>3, KindsConcern
  <2>4. /\ \A q \in Procs \ {p} : proc'[q] = proc[q] /\ todo' \subseteq todo
    BY <2>3 DEF Concerns, Others
  <2>5. holder'[l] \in {holder[l], NoClient}
    BY <1>3 DEF Asks, OpensAcquire, OpensHeartbeat, OpensRelease, OpensAttach, OpensRemove
  <2>6. UserOK(l)'
    BY <1>1, <2>1, <2>2, <2>3, <2>4, <2>5 DEF UserOK, Concerns
  <2> QED
    BY <1>o, <2>2, <2>3, <2>6 DEF UserInv, Noticed
<1>4. ASSUME NEW l \in Leases, Reaps(l), Notices(l)
      PROVE  UserInv' /\ disturbed \subseteq disturbed' /\ users' = users
  <2>1. PICK x \in todo :
         /\ x.l = l
         /\ journal'[l] = journal[l] \/ journal'[l].client = x.j.client
         /\ \/ proc'[Recoverer] = proc[Recoverer]
            \/ proc'[Recoverer].j.client = x.j.client /\ proc'[Recoverer].c = NoClient
    BY <1>4 DEF Notices
  <2>2. users' = users /\ disturbed \subseteq disturbed' /\ disturbed' \subseteq Leases
    BY <1>1, <1>4 DEF Notices
  <2>3. Concerns(Recoverer, l) /\ Recoverer \in Procs
    BY <1>4, KindsConcern
  <2>4. /\ \A q \in Procs \ {Recoverer} : proc'[q] = proc[q]
        /\ todo' \subseteq todo /\ holder'[l] = holder[l]
    BY <1>4, <2>3 DEF Concerns, Others, Reaps, LeaseStays
  <2>5. UserOK(l)'
    BY <1>1, <2>1, <2>2, <2>4 DEF UserOK
  <2> QED
    BY <1>1, <1>o, <2>2, <2>3, <2>5 DEF UserInv, Noticed
<1>5. ASSUME Turns, UNCHANGED <<users, disturbed>> PROVE UserInv'
  <2>1. ASSUME NEW l \in Leases PROVE UserOK(l)'
    <3>1. /\ journal' = journal /\ holder' = holder /\ users' = users
          /\ \A q \in Procs : proc'[q].l = l => proc'[q] = proc[q]
      BY <1>1, <1>5 DEF Turns
    <3>2. ASSUME NEW x \in todo', x.l = l PROVE x.j.client \in users[l]
      <4>1. CASE x \in todo
        BY <1>1, <3>2, <4>1 DEF UserOK
      <4>2. CASE x \notin todo
        <5>1. x.j = journal[l] /\ x.j \in Journals
          BY <1>5, <3>2, <4>2 DEF Turns
        <5>2. x.j.client \in Clients
          BY <5>1 DEF Journals
        <5> QED
          BY <1>1, <5>1, <5>2 DEF UserOK
      <4> QED
        BY <4>1, <4>2
    <3> QED
      BY <1>1, <3>1, <3>2 DEF UserOK
  <2> QED
    BY <1>1, <1>5, <2>1 DEF UserInv, Noticed
<1>6. ASSUME Crash, UNCHANGED <<users, disturbed>> PROVE UserInv'
  <2>1. /\ \A p \in Procs : proc'[p].l = NoLease
        /\ todo' = {} /\ journal' = journal /\ \A l \in Leases : holder'[l] = NoClient
    BY <1>6 DEF Crash, Procs, Idle
  <2>2. \A l \in Leases : UserOK(l)'
    BY <1>1, <1>6, <2>1 DEF UserOK
  <2> QED
    BY <1>1, <1>6, <2>2 DEF UserInv, Noticed
<1>7. ASSUME UNCHANGED <<users, disturbed>>
      PROVE  disturbed \subseteq disturbed' /\ \A l \in Leases : users[l] \subseteq users'[l]
  BY <1>7
<1>8. CASE \E p \in Procs, l \in Leases : Works(p, l) /\ Unnoticed(p, l)
  BY <1>2, <1>7, <1>8 DEF Unnoticed
<1>9. CASE \E p \in Procs, l \in Leases : Asks(p, l) /\ Notes(p, l)
  BY <1>3, <1>9
<1>10. CASE \E l \in Leases : Reaps(l) /\ Notices(l)
  BY <1>4, <1>10
<1>11. CASE /\ RecoverList \/ RecoverDone \/ RecoverKeep \/ RecoverAborts
            /\ UNCHANGED <<users, disturbed>>
  BY <1>5, <1>7, <1>11, PassTurns
<1>12. CASE Crash /\ UNCHANGED <<users, disturbed>>
  BY <1>6, <1>7, <1>12
<1>13. CASE /\ Start \/ (\E c \in Clients : ClientDies(c)) \/ UNCHANGED vars
            /\ UNCHANGED <<users, disturbed>>
  BY <1>5, <1>7, <1>13, OutsideTurns
<1> QED
  BY <1>8, <1>9, <1>10, <1>11, <1>12, <1>13, KindsNoticed

\* The client that alone sends requests about its lease keeps the session.
LEMMA StepHolder ==
    ASSUME SessionInv, UserInv, HolderInv, [Next]_vars
    PROVE  HolderInv'
<1>1. /\ Types /\ \A l \in Leases : Sole(l) => HolderOK(l)
      /\ \A l \in Leases : UserOK(l) /\ (Sole(l)' => Sole(l))
  BY StepUser DEF SessionInv, UserInv, HolderInv, Sole
<1>2. ASSUME NEW p \in Procs, NEW l \in Leases, Concerns(p, l), Sole(l) => HolderOK(l)'
      PROVE  HolderInv'
  BY <1>1, <1>2, OtherLeases DEF HolderInv
<1>3. CASE \E p \in Procs, l \in Leases : Works(p, l) \/ Asks(p, l)
  <2>1. PICK p \in Procs, l \in Leases : Works(p, l) \/ Asks(p, l)
    BY <1>3
  <2>2. Concerns(p, l) /\ (Sole(l) => HolderOK(l)')
    BY <1>1, <2>1, KindsConcern, HolderWorks, HolderAsks
  <2> QED
    BY <1>2, <2>2
<1>4. CASE \E l \in Leases : Reaps(l)
  BY <1>1, <1>2, <1>4, KindsConcern, HolderReaps
<1>5. CASE RecoverList \/ RecoverDone \/ RecoverKeep \/ RecoverAborts
  BY <1>1, <1>5, PassTurns, TurnsKeep DEF HolderInv
<1>6. CASE Crash
  BY <1>1, <1>6, CrashKeeps DEF HolderInv
<1>7. CASE Start \/ (\E c \in Clients : ClientDies(c)) \/ UNCHANGED vars
  BY <1>1, <1>7, OutsideTurns, TurnsKeep DEF HolderInv
<1> QED
  BY <1>1, <1>3, <1>4, <1>5, <1>6, <1>7, Kinds

\* The first Recover still comes before the requests.
LEMMA SerialPass ==
    ASSUME Types, Serial,
           RecoverList \/ RecoverDone \/ RecoverKeep \/ RecoverAborts
    PROVE  Serial'
<1>1. /\ Recoverer \in Procs /\ Recoverer \notin Handlers
      /\ proc \in [Procs -> Frames] /\ Idle.pc = "idle" /\ Idle.l = NoLease
      /\ Ended(Recoverer).l = NoLease
  BY SentinelsAssumption DEF SentinelsAssumption, Procs, Types, Typed, ProcTyped, Idle, Ended
<1>2. Others(Recoverer) /\ proc[Recoverer].pc \in {"idle", "next"} /\ UNCHANGED children
  BY PassTurns DEF Turns
<1>3. \A p \in Handlers : proc'[p] = proc[p]
  BY <1>1, <1>2 DEF Others, Procs
<1>4. proc[Recoverer].l = NoLease /\ proc'[Recoverer].l = NoLease /\ NoLease \notin Leases
  BY <1>1, <1>2, AtWork, PassTurns DEF Turns
<1>r. RecoverOnly'
  BY <1>4 DEF RecoverOnly
<1>5. CASE RecoverList
  <2>1. up \in {"starting", "serving"} /\ up' = up
    BY <1>5 DEF RecoverList
  <2> QED
    BY <1>1, <1>2, <1>3, <1>r, <2>1 DEF Serial
<1>6. CASE RecoverDone
  <2>1. up' = "serving"
    BY <1>6 DEF RecoverDone
  <2> QED
    BY <1>r, <2>1 DEF Serial
<1>7. CASE RecoverKeep
  <2>1. up' = up /\ proc' = proc /\ todo' \subseteq todo /\ proc[Recoverer].pc = "next"
    BY <1>7 DEF RecoverKeep, At
  <2> QED
    BY <1>1, <1>2, <1>r, <2>1 DEF Serial
<1>8. CASE RecoverAborts
  <2>1. /\ proc[Recoverer].pc = "next" /\ proc' = [proc EXCEPT ![Recoverer] = Idle]
        /\ todo' = {} /\ up' = IF up = "starting" THEN "down" ELSE up
    BY <1>8 DEF RecoverAborts, AbortPass, At
  <2> QED
    BY <1>1, <1>2, <1>3, <1>r, <2>1 DEF Serial
<1> QED
  BY <1>5, <1>6, <1>7, <1>8

\* On a lease that is not disturbed every goroutine finds what the one before
\* it has left, and what the clients were told stays true.
LEMMA StepConsole ==
    ASSUME SessionInv, UserInv, ConsoleInv, [Next]_vars
    PROVE  ConsoleInv'
<1>1. /\ Types /\ Serial /\ \A l \in Leases \ disturbed : ConsoleOK(l)
      /\ disturbed \subseteq disturbed'
  BY StepUser DEF SessionInv, ConsoleInv
<1>2. ASSUME NEW p \in Procs, NEW l \in Leases, Concerns(p, l), Serial',
             l \notin disturbed' => ConsoleOK(l)'
      PROVE  ConsoleInv'
  BY <1>1, <1>2, OtherLeases DEF ConsoleInv
<1>3. CASE \E p \in Procs, l \in Leases : Works(p, l) /\ Unnoticed(p, l)
  <2>1. PICK p \in Procs, l \in Leases : Works(p, l)
    BY <1>3
  <2>2. Concerns(p, l) /\ Serial' /\ (l \notin disturbed' => ConsoleOK(l)')
    BY <1>1, <2>1, KindsConcern, ConsoleWorks, SerialWorks
  <2> QED
    BY <1>2, <2>2
<1>4. CASE \E p \in Procs, l \in Leases : Asks(p, l) /\ Notes(p, l)
  <2>1. PICK p \in Procs, l \in Leases : Asks(p, l) /\ Notes(p, l)
    BY <1>4
  <2>2. l \notin disturbed' => \A q \in Procs : proc[q].l # l
    BY <2>1 DEF Notes, Busy, Lease, Procs
  <2>3. Concerns(p, l) /\ Serial' /\ (l \notin disturbed' => ConsoleOK(l)')
    BY <1>1, <2>1, <2>2, KindsConcern, ConsoleAsks, SerialAsks
  <2> QED
    BY <1>2, <2>3
<1>5. CASE \E l \in Leases : Reaps(l) /\ Notices(l)
  <2>1. PICK l \in Leases : Reaps(l) /\ Notices(l)
    BY <1>5
  <2>2. l \notin disturbed' => up # "serving"
    BY <2>1 DEF Notices
  <2>3. /\ Concerns(Recoverer, l) /\ Recoverer \in Procs /\ Serial'
        /\ l \notin disturbed' => ConsoleOK(l)'
    BY <1>1, <2>1, <2>2, KindsConcern, ConsoleReaps, SerialReaps
  <2> QED
    BY <1>2, <2>3
<1>6. CASE RecoverList \/ RecoverDone \/ RecoverKeep \/ RecoverAborts
  BY <1>1, <1>6, PassTurns, SerialPass, TurnsKeep DEF ConsoleInv
<1>7. CASE Crash
  BY <1>1, <1>7, CrashKeeps DEF ConsoleInv
<1>8. CASE Start \/ (\E c \in Clients : ClientDies(c)) \/ UNCHANGED vars
  <2>1. /\ Turns /\ UNCHANGED <<proc, todo>>
        /\ up' = up \/ (up = "down" /\ up' = "starting")
    BY <1>1, <1>8, OutsideTurns
  <2>2. Serial'
    BY <1>1, <2>1 DEF Serial, RecoverOnly, Turns
  <2> QED
    BY <1>1, <2>1, <2>2, TurnsKeep DEF ConsoleInv
<1> QED
  BY <1>1, <1>3, <1>4, <1>5, <1>6, <1>7, <1>8, KindsNoticed

\* A child that nobody asked to retain is deleted before that is answered.
LEMMA StepGone ==
    ASSUME SessionInv, GoneInv, [Next]_vars
    PROVE  GoneInv'
<1>1. Types /\ \A l \in Leases : GoneOK(l)
  BY DEF SessionInv, GoneInv
<1>2. ASSUME NEW p \in Procs, NEW l \in Leases, Concerns(p, l), GoneOK(l)'
      PROVE  GoneInv'
  <2>1. ASSUME NEW m \in Leases, m # l PROVE GoneOK(m)'
    <3>1. /\ \A q \in Procs : proc'[q].l = m <=> proc[q].l = m
          /\ \A q \in Procs : proc[q].l = m => proc'[q] = proc[q]
      BY <1>2, <2>1, OtherWork
    <3>2. /\ child'[m] = child[m] /\ record'[m] = record[m] /\ children'[m] = children[m]
          /\ live'[m] = live[m] /\ attaches'[m] = attaches[m] /\ gone'[m] = gone[m]
          /\ Unwanted(m)' <=> Unwanted(m)
      BY <1>2, <2>1 DEF Concerns, Unwanted
    <3>3. GoneOK(m)
      BY <1>1
    <3> QED
      BY <3>1, <3>2, <3>3 DEF GoneOK, GoneOf
  <2> QED
    BY <1>2, <2>1 DEF GoneInv
<1>3. CASE \E p \in Procs, l \in Leases : Works(p, l) \/ Asks(p, l)
  <2>1. PICK p \in Procs, l \in Leases : Works(p, l) \/ Asks(p, l)
    BY <1>3
  <2>2. Concerns(p, l) /\ GoneOK(l)'
    BY <1>1, <2>1, KindsConcern, GoneWorks, GoneAsks
  <2> QED
    BY <1>2, <2>2
<1>4. CASE \E l \in Leases : Reaps(l)
  BY <1>1, <1>2, <1>4, KindsConcern, GoneReaps
<1>5. CASE Turns
  <2>1. /\ UNCHANGED <<child, record, live, attaches, children, gone, kept>>
        /\ \A l \in Leases, q \in Procs : proc'[q].l = l => proc'[q] = proc[q]
    BY <1>5, SentinelsAssumption DEF Turns, SentinelsAssumption
  <2>2. ASSUME NEW l \in Leases PROVE GoneOK(l)'
    <3>1. GoneOK(l) /\ (Unwanted(l)' <=> Unwanted(l))
      BY <1>1, <2>1 DEF Unwanted
    <3> QED
      BY <2>1, <3>1 DEF GoneOK, GoneOf
  <2> QED
    BY <2>2 DEF GoneInv
<1>6. CASE Crash
  <2>1. /\ UNCHANGED <<child, record, attaches, gone, kept>>
        /\ \A l \in Leases : children'[l] = 0 /\ \A q \in Procs : proc'[q].l # l
    BY <1>6, SentinelsAssumption DEF Crash, SentinelsAssumption, Procs, Idle
  <2> QED
    BY <1>1, <2>1 DEF GoneInv, GoneOK, Unwanted
<1> QED
  BY <1>1, <1>3, <1>4, <1>5, <1>6, Kinds, PassTurns, OutsideTurns

\* Recover and the requests take turns when Recover is not repeated.
LEMMA StepApart ==
    ASSUME Periodic = FALSE, Types, Apart, [Next]_vars
    PROVE  Apart'
<1>1. /\ Recoverer \notin Handlers /\ NoLease \notin Leases /\ Recoverer \in Procs
      /\ \A p \in Handlers : p \in Procs /\ p # Recoverer
  BY SentinelsAssumption DEF SentinelsAssumption, Procs
<1>2. ASSUME NEW p \in Procs, NEW l \in Leases, Works(p, l) PROVE Apart'
  <2>1. Concerns(p, l) /\ proc[p].l = l
    BY <1>2 DEF Works, GivesUp, GoesOn, Creates, Abandons, Mounts, Undoes, Ejects, Registers,
                Beats, Marks, Forgets
  <2>2. /\ \A q \in Procs \ {p} : proc'[q] = proc[q]
        /\ up' = up \/ (p = Recoverer /\ up = "starting" /\ up' = "down" /\ proc'[p].pc = "idle")
    BY <2>1 DEF Concerns, Others
  <2>3. CASE p = Recoverer
    <3>1. /\ proc[p].op = "recover" /\ ~proc[p].keep /\ up = "starting"
          /\ proc[p].pc \in {"cleanup", "reattach", "native", "unlist", "forget"}
      BY <2>1, <2>3 DEF Apart
    <3>2. proc'[p].l \in Leases =>
            /\ proc'[p].op = "recover" /\ ~proc'[p].keep
            /\ proc'[p].pc \in {"cleanup", "reattach", "native", "unlist", "forget"}
      BY <1>1, <1>2, <3>1
         DEF Works, GivesUp, GoesOn, Creates, Abandons, Mounts, Undoes, Ejects, Registers,
             Beats, Marks, Forgets, Stopped, Same
    <3> QED
      BY <1>1, <2>2, <2>3, <3>1, <3>2 DEF Apart
  <2>4. CASE p # Recoverer
    <3>1. p \in Handlers /\ up = "serving" /\ up' = up /\ proc'[Recoverer] = proc[Recoverer]
      BY <1>1, <2>1, <2>2, <2>4 DEF Apart, Procs
    <3> QED
      BY <3>1 DEF Apart
  <2> QED
    BY <2>3, <2>4
<1>3. ASSUME NEW p \in Procs, NEW l \in Leases, Asks(p, l) PROVE Apart'
  <2>1. Concerns(p, l) /\ p \in Handlers /\ up = "serving"
    BY <1>3 DEF Asks, OpensAcquire, OpensHeartbeat, OpensRelease, OpensAttach, OpensRemove, Opens
  <2>2. up' = up /\ proc'[Recoverer] = proc[Recoverer]
    BY <1>1, <2>1 DEF Concerns, Others
  <2> QED
    BY <2>1, <2>2 DEF Apart
<1>4. ASSUME NEW l \in Leases, Reaps(l) PROVE Apart'
  <2>1. /\ Concerns(Recoverer, l) /\ proc[Recoverer].pc = "next" /\ proc[Recoverer].l = NoLease
    BY <1>1, <1>4, AtWork DEF Reaps
  <2>2. /\ up = "starting" /\ \A q \in Handlers : proc'[q] = proc[q]
        /\ up' = up \/ (up' = "down" /\ proc'[Recoverer].pc = "idle")
    BY <1>1, <2>1 DEF Apart, Concerns, Others
  <2>3. proc'[Recoverer].l \in Leases =>
          /\ proc'[Recoverer].op = "recover" /\ ~proc'[Recoverer].keep
          /\ proc'[Recoverer].pc \in {"cleanup", "reattach", "native"}
    BY <1>1, <1>4, <2>1 DEF Reaps
  <2> QED
    BY <2>2, <2>3 DEF Apart
<1>5. CASE RecoverList \/ RecoverDone \/ RecoverKeep \/ RecoverAborts
  <2>1. /\ Others(Recoverer) /\ proc[Recoverer].pc \in {"idle", "next"} /\ Turns
    BY <1>5, PassTurns
  <2>2. proc[Recoverer].l = NoLease /\ proc'[Recoverer].l = NoLease
    BY <1>1, <2>1, AtWork DEF Turns
  <2>3. \A q \in Handlers : proc'[q] = proc[q]
    BY <1>1, <2>1 DEF Others
  <2>4. /\ up = "starting"
        /\ up' # "starting" => proc'[Recoverer].pc = "idle"
    <3>1. proc \in [Procs -> Frames] /\ Idle.pc = "idle"
      BY DEF Types, Typed, ProcTyped, Idle
    <3>2. CASE RecoverList
      BY <3>2 DEF RecoverList
    <3>3. CASE RecoverDone
      BY <1>1, <3>1, <3>3 DEF RecoverDone, Apart, At
    <3>4. CASE RecoverKeep
      BY <3>4 DEF RecoverKeep, Apart, At
    <3>5. CASE RecoverAborts
      BY <1>1, <3>1, <3>5 DEF RecoverAborts, AbortPass, Apart, At
    <3> QED
      BY <1>5, <3>2, <3>3, <3>4, <3>5
  <2> QED
    BY <1>1, <2>2, <2>3, <2>4 DEF Apart
<1>6. CASE Crash
  BY <1>1, <1>6 DEF Crash, Apart, Procs, Idle
<1>7. CASE Start \/ (\E c \in Clients : ClientDies(c)) \/ UNCHANGED vars
  BY <1>7, OutsideTurns DEF Apart
<1> QED
  BY <1>2, <1>3, <1>4, <1>5, <1>6, <1>7, Kinds

\* A client loses the session to no other goroutine.
LEMMA PossessWorks ==
    ASSUME SessionInv, Apart, NEW p \in Procs, NEW l \in Leases, PossessOK(l), Works(p, l)
    PROVE  PossessOK(l)'
<1>1. Types /\ SessionOK(l) /\ NoLease \notin Leases /\ Recoverer \notin Handlers
  BY SessionFacts, SentinelsAssumption DEF SentinelsAssumption
<1>2. Concerns(p, l) /\ proc[p].l = l
  BY DEF Works, GivesUp, GoesOn, Creates, Abandons, Mounts, Undoes, Ejects, Registers,
         Beats, Marks, Forgets
<1>3. /\ \A q \in Procs \ {p} : proc'[q] = proc[q]
      /\ SessionOf(p, l) /\ (up = "serving" => up' = "serving")
  BY <1>1, <1>2 DEF Concerns, Others, SessionOK
<1>4. CASE Registers(p, l)
  <2>1. /\ proc[p].s # 0 /\ proc[p].s = live[l] /\ live'[l] = live[l] /\ Stopped(p)
        /\ \A q \in Procs \ {p} : proc[q].l = l => proc[q].s # proc[p].s
    BY <1>2, <1>3, <1>4 DEF Registers, SessionOf, Fresh
  <2>2. up = "serving"
    BY <1>1, <1>2, <1>4 DEF Registers, Apart, Procs
  <2> QED
    BY <1>1, <1>3, <2>1, <2>2 DEF PossessOK, Stopped
<1>5. CASE ~Registers(p, l)
  <2>1. holder[l] = NoClient => holder'[l] = NoClient
    BY <1>5 DEF Works, GivesUp, GoesOn, Creates, Abandons, Mounts, Undoes, Ends, Ejects,
                Beats, Marks, Forgets, LeaseStays
  <2>2. ASSUME holder[l] # NoClient
        PROVE  live'[l] = live[l] /\ (Stopped(p) \/ Same(p))
    <3>1. live[l] # 0 /\ proc[p].s # live[l]
      BY <1>2, <2>2 DEF PossessOK
    <3> QED
      BY <1>5, <3>1 DEF Works, GivesUp, GoesOn, Creates, Abandons, Mounts, Undoes, Ends, Ejects,
                        Beats, Marks, Forgets, LeaseStays
  <2> QED
    BY <1>1, <1>2, <1>3, <2>1, <2>2 DEF PossessOK, Stopped, Same
<1> QED
  BY <1>4, <1>5

\* No request gets hold of the session of a lease that a client keeps, and
\* Recover finds no client that has a lease.
LEMMA PossessOpens ==
    ASSUME SessionInv, Apart, NEW p \in Procs, NEW l \in Leases, PossessOK(l),
           Asks(p, l) \/ Reaps(l)
    PROVE  PossessOK(l)'
<1>1. CASE OpensRelease(p, l) \/ OpensRemove(p, l)
  BY <1>1 DEF OpensRelease, OpensRemove, PossessOK
<1>2. CASE OpensAcquire(p, l) \/ OpensHeartbeat(p, l) \/ OpensAttach(p, l)
  <2>1. /\ UNCHANGED <<holder, live>> /\ Others(p) /\ proc'[p].s = 0 /\ p \in Handlers
        /\ up' = up
    BY <1>2, SentinelsAssumption
       DEF SentinelsAssumption, OpensAcquire, OpensHeartbeat, OpensAttach, Opens, Concerns
  <2> QED
    BY <2>1 DEF PossessOK, Others
<1>3. CASE Reaps(l)
  <2>1. proc[Recoverer].pc = "next" /\ holder'[l] = holder[l]
    BY <1>3 DEF Reaps, LeaseStays
  <2>2. up = "starting"
    BY <2>1 DEF Apart
  <2> QED
    BY <2>1, <2>2 DEF PossessOK
<1> QED
  BY <1>1, <1>2, <1>3 DEF Asks

\* When Recover is not repeated, the clients keep what they were given.
LEMMA StepPossess ==
    ASSUME Periodic = FALSE, SessionInv, PossessInv, [Next]_vars
    PROVE  PossessInv'
<1>1. Types /\ Apart /\ \A l \in Leases : PossessOK(l)
  BY DEF SessionInv, PossessInv
<1>2. Apart'
  BY <1>1, StepApart
<1>3. ASSUME NEW p \in Procs, NEW l \in Leases, Concerns(p, l), PossessOK(l)'
      PROVE  PossessInv'
  <2>1. ASSUME NEW m \in Leases, m # l PROVE PossessOK(m)'
    <3>1. /\ \A q \in Procs : proc'[q].l = m <=> proc[q].l = m
          /\ \A q \in Procs : proc[q].l = m => proc'[q] = proc[q]
      BY <1>3, <2>1, OtherWork
    <3>2. /\ holder'[m] = holder[m] /\ live'[m] = live[m]
          /\ up = "serving" => up' = "serving"
      BY <1>3, <2>1 DEF Concerns
    <3>3. PossessOK(m)
      BY <1>1
    <3> QED
      BY <3>1, <3>2, <3>3 DEF PossessOK
  <2> QED
    BY <1>2, <1>3, <2>1 DEF PossessInv
<1>4. CASE \E p \in Procs, l \in Leases : Works(p, l) \/ Asks(p, l)
  <2>1. PICK p \in Procs, l \in Leases : Works(p, l) \/ Asks(p, l)
    BY <1>4
  <2>2. Concerns(p, l) /\ PossessOK(l)'
    BY <1>1, <2>1, KindsConcern, PossessWorks, PossessOpens
  <2> QED
    BY <1>3, <2>2
<1>5. CASE \E l \in Leases : Reaps(l)
  BY <1>1, <1>3, <1>5, KindsConcern, PossessOpens
<1>6. CASE Turns /\ (up = "serving" => up' = "serving")
  <2>1. /\ UNCHANGED <<holder, live>>
        /\ \A l \in Leases, q \in Procs : proc'[q].l = l => proc'[q] = proc[q]
    BY <1>6, SentinelsAssumption DEF Turns, SentinelsAssumption
  <2> QED
    BY <1>1, <1>2, <1>6, <2>1 DEF PossessInv, PossessOK
<1>7. CASE RecoverList \/ RecoverDone \/ RecoverKeep \/ RecoverAborts
  <2>1. up # "serving"
    BY <1>1, <1>7 DEF RecoverList, RecoverDone, RecoverKeep, RecoverAborts, At, Apart
  <2> QED
    BY <1>1, <1>6, <1>7, <2>1, PassTurns
<1>8. CASE Crash
  BY <1>2, <1>8 DEF Crash, PossessInv, PossessOK
<1>9. CASE Start \/ (\E c \in Clients : ClientDies(c)) \/ UNCHANGED vars
  BY <1>1, <1>6, <1>9, OutsideTurns
<1> QED
  BY <1>1, <1>4, <1>5, <1>7, <1>8, <1>9, Kinds

\* "Live clients are preserved": a client that alone sends requests about its
\* lease keeps its disk while it is running and has not given the lease up,
\* with any number of handlers, beside the repeated Recover, with disks that
\* fail and across crashes.
THEOREM SoleClientsAreServed ==
    Spec => []SoleClientServed
<1>1. Init => SessionInv /\ UserInv /\ HolderInv
  BY InitPromises
<1>2. SessionInv /\ UserInv /\ HolderInv /\ [Next]_vars => SessionInv' /\ UserInv' /\ HolderInv'
  BY StepSession, StepUser, StepHolder DEF SessionInv
<1>3. SessionInv /\ HolderInv => SoleClientServed
  BY DEF SessionInv, SessionOK, HolderInv, HolderOK, Sole, SoleClientServed
<1> QED
  BY <1>1, <1>2, <1>3, PTL DEF Spec

\* Any number of clients that share a lease keep its disk where Recover runs
\* at the start only.
THEOREM LiveClientsAreServed ==
    ASSUME Periodic = FALSE
    PROVE  Spec => []LiveClientPreserved
<1>1. Init => SessionInv /\ PossessInv
  BY InitPromises
<1>2. SessionInv /\ PossessInv /\ [Next]_vars => SessionInv' /\ PossessInv'
  BY StepSession, StepPossess
<1>3. ASSUME SessionInv, PossessInv, NEW l \in Leases, holder[l] \in alive
      PROVE  child[l] /\ live[l] # 0
  <2>1. holder[l] # NoClient
    BY <1>3, SentinelsAssumption DEF SentinelsAssumption, SessionInv, Types, Observed
  <2> QED
    BY <1>3, <2>1 DEF SessionInv, SessionOK, PossessInv, PossessOK
<1>4. SessionInv /\ PossessInv => LiveClientPreserved
  BY <1>3 DEF LiveClientPreserved
<1> QED
  BY <1>1, <1>2, <1>4, PTL DEF Spec

\* A release that was answered has left no virtual disk behind, however many
\* of its attempts failed before, however often the broker was restarted, and
\* whatever other handlers and Recover did with the lease meanwhile.
THEOREM ReleasedAreGone ==
    Spec => []ReleasedMeansGone
<1>1. Init => SessionInv /\ GoneInv
  BY InitPromises
<1>2. SessionInv /\ GoneInv /\ [Next]_vars => SessionInv' /\ GoneInv'
  BY StepSession, StepGone
<1>3. GoneInv => ReleasedMeansGone
  BY DEF GoneInv, GoneOK, Unwanted, ReleasedMeansGone
<1> QED
  BY <1>1, <1>2, <1>3, PTL DEF Spec

\* Every variable has its type, whatever overlaps.
THEOREM TypesAreKept ==
    Spec => []TypeOK
<1>1. ASSUME SessionInv, UserInv PROVE TypeOK
  <2>1. Types /\ Noticed
    BY <1>1 DEF SessionInv, UserInv
  <2>2. ASSUME NEW p \in Procs PROVE proc[p] \in Locals \cup {Idle}
    <3>1. proc[p] \in Frames
      BY <2>1 DEF Types, Typed, ProcTyped
    <3>2. CASE proc[p].pc \in {"idle", "next"}
      <4>1. proc[p] \in {Idle, Ended(Recoverer)}
        BY <2>1, <3>2 DEF Types, Calm
      <4>2. Ended(Recoverer) \in Locals
        BY DEF Ended, Idle, Locals, Steps, Ops
      <4> QED
        BY <4>1, <4>2
    <3>3. CASE proc[p].pc \notin {"idle", "next"}
      <4>1. proc[p].l \in Leases /\ proc[p].op # "none"
        BY <2>1, <3>3, AtWork DEF Types, Calm
      <4> QED
        BY <3>1, <3>3, <4>1 DEF Frames, Locals
    <3> QED
      BY <3>2, <3>3
  <2>3. proc \in [Handlers \cup {Recoverer} -> Locals \cup {Idle}]
    BY <2>1, <2>2 DEF Types, Typed, ProcTyped, Procs
  <2> QED
    BY <2>1, <2>3 DEF Types, Typed, Observed, Noticed, TypeOK
<1>2. Init => SessionInv /\ UserInv
  BY InitPromises
<1>3. SessionInv /\ UserInv /\ [Next]_vars => SessionInv' /\ UserInv'
  BY StepSession, StepUser DEF SessionInv
<1> QED
  BY <1>1, <1>2, <1>3, PTL DEF Spec

\* "Retained leases are preserved": once a client was told that its child is
\* retained, the child, its journal and its record stay until a client asks
\* for their removal, although Recover runs after every crash; this for every
\* lease that no two goroutines worked on at a time and that no repeated
\* Recover took up, whatever happens to other leases meanwhile.
THEOREM RetainedAreKept ==
    Spec => []UndisturbedRetained
<1>1. Init => SessionInv /\ UserInv /\ ConsoleInv
  BY InitPromises
<1>2. SessionInv /\ UserInv /\ ConsoleInv /\ [Next]_vars
        => SessionInv' /\ UserInv' /\ ConsoleInv'
  BY StepSession, StepUser, StepConsole DEF SessionInv
<1>3. ConsoleInv => UndisturbedRetained
  BY DEF ConsoleInv, ConsoleOK, KeptOK, UndisturbedRetained
<1> QED
  BY <1>1, <1>2, <1>3, PTL DEF Spec
=============================================================================
