------------------------ MODULE BrokerLeases_proofs ------------------------
(***************************************************************************)
(* Theorems about the sessions of the Windows broker, for every set of     *)
(* leases, clients and handler goroutines, with or without the periodic    *)
(* Recover, any number of crashes and attaches, as long as no system call  *)
(* fails:                                                                  *)
(*                                                                         *)
(*   SessionsAreKept  ~IOFaults => (Spec => []NoLostSession)               *)
(*                                                                         *)
(* The goroutines work on copies of the session map, so everything rests   *)
(* on what a copied session can be: fresh and known to one goroutine,      *)
(* released already, or still the one in the map.                          *)
(***************************************************************************)
EXTENDS BrokerLeases, TLAPS

Procs == Handlers \cup {Recoverer}

Frames == [pc : Steps \cup {"idle"}, op : Ops \cup {"none"},
           l : Leases \cup {NoLease}, j : Journals \cup {Absent}, s : Nat,
           c : Clients \cup {NoClient}, keep : BOOLEAN]

\* Whoever is at work has a lease and a copy of its journal.
ProcTyped ==
    /\ proc \in [Procs -> Frames]
    /\ \A p \in Procs :
          IF proc[p].pc \in {"idle", "next"} THEN proc[p].l = NoLease
          ELSE proc[p].l \in Leases /\ proc[p].j \in Journals

\* The types of what the sessions depend on.
Typed ==
    /\ journal \in [Leases -> Journals \cup {Absent}]
    /\ ws \in [Leases -> {"bare", "marked", "unmarked", "gone"}]
    /\ record \in [Leases -> BOOLEAN]
    /\ live \in [Leases -> Nat]
    /\ attaches \in [Leases -> Nat]
    /\ children \in [Leases -> Nat]
    /\ todo \in SUBSET [l : Leases, j : Journals]
    /\ ProcTyped

Gone(l) == ws[l] = "gone"

\* Goroutines that have no session, or a fresh one that nobody else knows,
\* or one that they have released.
Sessionless == {"idle", "next", "owner", "create", "mount", "beat", "reattach"}
Fresh == {"ready", "register", "rewrite"}
Spent == {"retain", "record", "cleanup", "unlist", "unrecord", "forget"}

\* Sessions are numbered by the attaches that made them.
Numbered ==
    /\ \A l \in Leases :
          /\ live[l] <= attaches[l] /\ children[l] <= attaches[l]
          /\ record[l] => attaches[l] # 0
          /\ Gone(l) => live[l] = 0
    /\ \A p \in Procs : proc[p].l \in Leases => proc[p].s <= attaches[proc[p].l]

SessionKnown ==
    \A p \in Procs :
        /\ proc[p].pc \in Sessionless => proc[p].s = 0
        /\ proc[p].pc \in Fresh =>
              /\ proc[p].s # 0 /\ proc[p].s = live[proc[p].l]
              /\ children[proc[p].l] # proc[p].s
              /\ \A q \in Procs \ {p} : proc[q].l = proc[p].l => proc[q].s # proc[p].s
        /\ proc[p].pc \in Spent => live[proc[p].l] = 0 \/ proc[p].s # live[proc[p].l]

\* Which handler is at which step.
RightOp ==
    /\ proc[Recoverer].op \in {"none", "recover"}
    /\ \A p \in Procs :
          /\ proc[p].pc \in {"owner", "create", "mount", "ready"} => proc[p].op = "acquire"
          /\ proc[p].op = "acquire" =>
                proc[p].pc \in {"owner", "create", "mount", "ready", "register"}
          /\ proc[p].op = "attach" =>
                proc[p].pc \in {"reattach", "rewrite", "register"}
          /\ proc[p].pc = "register" => proc[p].op \in {"acquire", "attach"}
          /\ proc[p].pc = "rewrite" => proc[p].op = "attach"
          /\ proc[p].pc = "beat" => proc[p].op = "heartbeat"
          /\ proc[p].pc \in {"retain", "record"} => proc[p].keep
          /\ proc[p].pc = "reattach" /\ proc[p].keep => proc[p].op = "attach"

\* A release that retains finds its session in the map until the record of
\* the retained child is there.
RetainSession ==
    \A p \in Procs :
        /\ proc[p].pc \in {"mark", "native", "retain", "record"} /\ proc[p].keep =>
              /\ proc[p].op = "release" /\ proc[p].s # 0
              /\ \/ Gone(proc[p].l) \/ record[proc[p].l]
                 \/ children[proc[p].l] = proc[p].s

\* Whoever is about to delete the entry of the map deletes a session that
\* was released, alone, and nobody is attaching the child.
ForgetsOwn ==
    \A p \in Procs :
        /\ proc[p].pc \in {"unlist", "unrecord"} => Gone(proc[p].l)
        /\ proc[p].pc = "forget" /\ ~Gone(proc[p].l) =>
              /\ proc[p].op = "release" /\ proc[p].s # 0 /\ record[proc[p].l]
              /\ children[proc[p].l] = proc[p].s
              /\ \A q \in Procs \ {p} : proc[q].l = proc[p].l =>
                    proc[q].pc # "forget" /\ proc[q].op # "attach"

\* A child is attached again only while its record is there.
AttachHasRecord ==
    \A p \in Procs :
        proc[p].op = "attach" => record[proc[p].l] \/ Gone(proc[p].l)

\* A lease that is being acquired has no session in the map, and nobody but
\* heartbeats and Recover works on it.
AcquireAlone ==
    \A p \in Procs :
        proc[p].op = "acquire" =>
            /\ children[proc[p].l] = 0 /\ ~record[proc[p].l]
            /\ \A q \in Handlers \ {p} :
                  proc[q].l = proc[p].l => proc[q].op = "heartbeat"

Sessions ==
    /\ Numbered /\ SessionKnown /\ RightOp /\ RetainSession
    /\ ForgetsOwn /\ AttachHasRecord /\ AcquireAlone /\ NoLostSession

IInv == Typed /\ Sessions
-----------------------------------------------------------------------------
(* What steps do to the sessions                                           *)

Others(p) == \A q \in Procs \ {p} : proc'[q] = proc[q]

Same(p) ==
    /\ proc'[p].l = proc[p].l /\ proc'[p].s = proc[p].s
    /\ proc'[p].op = proc[p].op /\ proc'[p].keep = proc[p].keep

Stopped(p) ==
    /\ proc'[p].pc \in {"idle", "next"} /\ proc'[p].l = NoLease /\ proc'[p].s = 0
    /\ proc'[p].op \in {"none", "recover"}

WorkspacesStay == \A l \in Leases : Gone(l)' <=> Gone(l)

Still == UNCHANGED <<record, live, attaches, children>> /\ WorkspacesStay

\* A goroutine stops without an attached session of its own, or goes on with
\* what it has.
Quiet(p) ==
    /\ Still /\ Others(p)
    /\ \/ /\ Stopped(p) /\ proc[p].pc \notin Fresh
          /\ proc[p].l \in Leases => live[proc[p].l] = 0 \/ proc[p].s # live[proc[p].l]
       \/ /\ Same(p)
          /\ \/ proc[p].pc = "owner" /\ proc'[p].pc = "create"
             \/ proc[p].pc = "create" /\ proc'[p].pc = "mount"
             \/ proc[p].pc = "ready" /\ proc'[p].pc = "register"
             \/ proc[p].pc = "rewrite" /\ proc'[p].pc = "register"
             \/ proc[p].pc = "mark" /\ proc'[p].pc = "native"
             \/ proc[p].pc = "retain" /\ proc'[p].pc = "record"
             \/ proc[p].pc = "unlist" /\ proc'[p].pc \in {"unrecord", "forget"}

\* A request comes in, or Recover goes on to a lease.
Begins(p, l) ==
    /\ Still /\ Others(p)
    /\ proc[p].pc \in {"idle", "next"} /\ proc'[p].l = l
    /\ p = Recoverer <=> proc'[p].op = "recover"
    /\ \/ /\ proc'[p].pc = "owner" /\ proc'[p].op = "acquire" /\ proc'[p].s = 0
          /\ attaches[l] = 0 /\ \A q \in Handlers : proc[q].l # l
       \/ proc'[p].pc = "beat" /\ proc'[p].op = "heartbeat" /\ proc'[p].s = 0
       \/ /\ proc'[p].pc = "mark" /\ proc'[p].op = "release"
          /\ proc'[p].s = children[l] /\ children[l] # 0
       \/ /\ proc'[p].pc = "reattach" /\ proc'[p].op = "attach" /\ proc'[p].s = 0
          /\ record[l] /\ children[l] = 0
       \/ /\ proc'[p].op = "recover" \/ (proc'[p].op = "remove" /\ record[l])
          /\ ~proc'[p].keep
          /\ \/ proc'[p].pc \in {"reattach", "cleanup"} /\ proc'[p].s = 0
             \/ proc'[p].pc = "native" /\ proc'[p].s = children[l]

\* The child is attached.
Attaches(p) ==
    LET l == proc[p].l IN
    /\ UNCHANGED <<record, children>> /\ WorkspacesStay /\ Others(p)
    /\ live[l] = 0 /\ ~Gone(l)
    /\ live' = [live EXCEPT ![l] = attaches[l] + 1]
    /\ attaches' = [attaches EXCEPT ![l] = attaches[l] + 1]
    /\ proc'[p].l = l /\ proc'[p].s = attaches[l] + 1
    /\ proc'[p].op = proc[p].op /\ proc'[p].keep = proc[p].keep
    /\ \/ proc[p].pc = "mount" /\ proc'[p].pc = "ready"
       \/ proc[p].pc = "reattach" /\ proc[p].op = "attach" /\ proc'[p].pc = "rewrite"
       \/ proc[p].pc = "reattach" /\ proc[p].op # "attach" /\ proc'[p].pc = "native"

\* The sessions of the goroutines that a step of p leaves alone.
LEMMA OthersThere ==
    ASSUME Typed, NEW p \in Procs, Others(p)
    PROVE  /\ \A q \in Procs \ {p} : proc'[q] = proc[q]
           /\ \A q \in Procs : proc[q].pc \notin {"idle", "next"} => proc[q].l \in Leases
           /\ \A q \in Procs : proc[q].l = NoLease <=> proc[q].pc \in {"idle", "next"}
BY SentinelsAssumption DEF SentinelsAssumption, Others, Typed, ProcTyped

\* No step of this kind loses a session.
LEMMA QuietSessions ==
    ASSUME IInv, NEW p \in Procs, Quiet(p)
    PROVE  Sessions'
<1>1. Typed /\ Still /\ Others(p)
  BY DEF IInv, Quiet
<1>2. /\ Numbered /\ SessionKnown /\ RightOp /\ RetainSession /\ ForgetsOwn
      /\ AttachHasRecord /\ AcquireAlone /\ NoLostSession
  BY DEF IInv, Sessions
<1>3. NoLease \notin Leases
  BY SentinelsAssumption DEF SentinelsAssumption
<1>4. CASE Stopped(p) /\ proc[p].pc \notin Fresh
           /\ (proc[p].l \in Leases => live[proc[p].l] = 0 \/ proc[p].s # live[proc[p].l])
  <2>1. Numbered'
    BY <1>1, <1>2, <1>3, <1>4 DEF Numbered, Still, WorkspacesStay, Others, Stopped
  <2>2. SessionKnown'
    BY <1>1, <1>2, <1>3, <1>4, OthersThere
       DEF SessionKnown, Still, Others, Stopped, Fresh, Spent, Sessionless
  <2>3. RightOp'
    BY <1>1, <1>2, <1>4 DEF RightOp, Others, Stopped, Procs
  <2>4. RetainSession'
    BY <1>1, <1>2, <1>4, OthersThere DEF RetainSession, Still, WorkspacesStay, Others, Stopped
  <2>5. ForgetsOwn'
    BY <1>1, <1>2, <1>4, OthersThere DEF ForgetsOwn, Still, WorkspacesStay, Others, Stopped
  <2>6. AttachHasRecord'
    BY <1>1, <1>2, <1>4, OthersThere
       DEF AttachHasRecord, RightOp, Still, WorkspacesStay, Others, Stopped
  <2>7. AcquireAlone'
    BY <1>1, <1>2, <1>3, <1>4, OthersThere DEF AcquireAlone, RightOp, Still, Others, Stopped, Procs
  <2>8. NoLostSession'
    BY <1>1, <1>2, <1>4 DEF NoLostSession, Still, Others, Procs
  <2> QED
    BY <2>1, <2>2, <2>3, <2>4, <2>5, <2>6, <2>7, <2>8 DEF Sessions
<1>5. CASE ~(Stopped(p) /\ proc[p].pc \notin Fresh
           /\ (proc[p].l \in Leases => live[proc[p].l] = 0 \/ proc[p].s # live[proc[p].l]))
  <2>0. Same(p) /\ \/ proc[p].pc = "owner" /\ proc'[p].pc = "create"
                   \/ proc[p].pc = "create" /\ proc'[p].pc = "mount"
                   \/ proc[p].pc = "ready" /\ proc'[p].pc = "register"
                   \/ proc[p].pc = "rewrite" /\ proc'[p].pc = "register"
                   \/ proc[p].pc = "mark" /\ proc'[p].pc = "native"
                   \/ proc[p].pc = "retain" /\ proc'[p].pc = "record"
                   \/ proc[p].pc = "unlist" /\ proc'[p].pc \in {"unrecord", "forget"}
    BY <1>5 DEF Quiet
  <2>1. Numbered'
    BY <1>1, <1>2, <2>0 DEF Numbered, Still, WorkspacesStay, Others, Same
  <2>2. SessionKnown'
    BY <1>1, <1>2, <2>0, OthersThere
       DEF SessionKnown, Still, Others, Same, Fresh, Spent, Sessionless
  <2>3. RightOp'
    BY <1>1, <1>2, <2>0 DEF RightOp, RetainSession, Others, Same, Procs
  <2>4. RetainSession'
    BY <1>1, <1>2, <2>0, OthersThere DEF RetainSession, Still, WorkspacesStay, Others, Same
  <2>5. ForgetsOwn'
    BY <1>1, <1>2, <2>0, OthersThere DEF ForgetsOwn, Still, WorkspacesStay, Others, Same
  <2>6. AttachHasRecord'
    BY <1>1, <1>2, <2>0, OthersThere
       DEF AttachHasRecord, Still, WorkspacesStay, RightOp, Others, Same
  <2>7. AcquireAlone'
    BY <1>1, <1>2, <2>0, OthersThere DEF AcquireAlone, RightOp, Still, Others, Same, Procs
  <2>8. NoLostSession'
    BY <1>1, <1>2, <2>0 DEF NoLostSession, Still, Others, Same, Procs
  <2> QED
    BY <2>1, <2>2, <2>3, <2>4, <2>5, <2>6, <2>7, <2>8 DEF Sessions
<1> QED
  BY <1>4, <1>5

\* A request takes its session from the map and harms nobody.
LEMMA BeginSessions ==
    ASSUME IInv, NEW p \in Procs, NEW l \in Leases, Begins(p, l)
    PROVE  Sessions'
<1>1. Typed /\ Still /\ Others(p)
  BY DEF IInv, Begins
<1>2. /\ Numbered /\ SessionKnown /\ RightOp /\ RetainSession /\ ForgetsOwn
      /\ AttachHasRecord /\ AcquireAlone /\ NoLostSession
  BY DEF IInv, Sessions
<1>3. NoLease \notin Leases /\ Recoverer \notin Handlers
  BY SentinelsAssumption DEF SentinelsAssumption
<1>4. proc'[p].l = l /\ proc[p].l = NoLease
      /\ (proc'[p].s = 0 \/ proc'[p].s = children[l])
  BY <1>1 DEF Begins, Typed, ProcTyped
<1>5. Numbered'
  BY <1>1, <1>2, <1>4 DEF Numbered, Still, WorkspacesStay, Others, Typed, ProcTyped
<1>6. SessionKnown'
  <2>1. /\ proc'[p].pc \notin Fresh
        /\ proc'[p].pc \in Sessionless \cup Spent => proc'[p].s = 0
    BY DEF Begins, Sessionless, Fresh, Spent
  <2> QED
    BY <1>1, <1>2, <1>4, <2>1, OthersThere
       DEF SessionKnown, Still, Others, Fresh, Spent, Sessionless
<1>7. RightOp'
  BY <1>1, <1>2, <1>3 DEF RightOp, Others, Begins, Procs
<1>8. RetainSession'
  <2>1. proc'[p].pc \in {"mark", "native", "retain", "record"} /\ proc'[p].keep =>
              proc'[p].op = "release" /\ proc'[p].s # 0 /\ children[l] = proc'[p].s
    BY DEF Begins
  <2> QED
    BY <1>1, <1>2, <1>4, <2>1, OthersThere DEF RetainSession, Still, WorkspacesStay, Others
<1>9. ForgetsOwn'
  <2>1. /\ proc'[p].pc \notin {"unlist", "unrecord", "forget"}
        /\ proc'[p].op = "attach" => children[l] = 0
    BY DEF Begins
  <2> QED
    BY <1>1, <1>2, <1>4, <2>1, OthersThere DEF ForgetsOwn, Still, WorkspacesStay, Others
<1>10. AttachHasRecord'
  <2>1. proc'[p].op = "attach" => record[l]
    BY DEF Begins
  <2> QED
    BY <1>1, <1>2, <1>4, <2>1, OthersThere
       DEF AttachHasRecord, RightOp, Still, WorkspacesStay, Others
<1>11. AcquireAlone'
  <2>1. ASSUME proc'[p].op = "acquire"
        PROVE  /\ children[l] = 0 /\ ~record[l] /\ p \in Handlers
               /\ \A q \in Handlers : proc[q].l # l
    BY <1>1, <1>2, <2>1 DEF Begins, Numbered, Typed, ProcTyped, Procs
  <2>2. ASSUME NEW q \in Procs \ {p}, proc[q].op = "acquire", proc[q].l = l, p \in Handlers
        PROVE  proc'[p].op = "heartbeat"
    <3>1. q \in Handlers /\ children[l] = 0 /\ ~record[l]
      BY <1>2, <2>2 DEF AcquireAlone, RightOp, Procs
    <3> QED
      BY <1>3, <2>2, <3>1 DEF Begins
  <2> QED
    BY <1>1, <1>2, <1>4, <2>1, <2>2, OthersThere DEF AcquireAlone, RightOp, Still, Others, Procs
<1>12. NoLostSession'
  BY <1>1, <1>2, <1>3, <1>4 DEF NoLostSession, Still, Others, Procs
<1> QED
  BY <1>5, <1>6, <1>7, <1>8, <1>9, <1>10, <1>11, <1>12 DEF Sessions

\* A new session is known to the goroutine that attached the child, and
\* nobody held an attached one before.
LEMMA AttachSessions ==
    ASSUME IInv, NEW p \in Procs, Attaches(p)
    PROVE  Sessions'
<1> DEFINE l == proc[p].l
<1>1. Typed /\ Others(p) /\ WorkspacesStay /\ UNCHANGED <<record, children>>
  BY DEF IInv, Attaches
<1>2. /\ Numbered /\ SessionKnown /\ RightOp /\ RetainSession /\ ForgetsOwn
      /\ AttachHasRecord /\ AcquireAlone /\ NoLostSession
  BY DEF IInv, Sessions
<1>3. l \in Leases /\ attaches[l] \in Nat /\ live[l] = 0 /\ ~Gone(l)
  BY <1>1 DEF Attaches, Typed, ProcTyped
<1>4. /\ \A m \in Leases : m # l => live'[m] = live[m] /\ attaches'[m] = attaches[m]
      /\ live'[l] = attaches[l] + 1 /\ attaches'[l] = attaches[l] + 1
  BY <1>1, <1>3 DEF Attaches, Typed, ProcTyped
<1>5. proc'[p].l = l /\ proc'[p].s = attaches[l] + 1 /\ proc'[p].op = proc[p].op
      /\ proc'[p].keep = proc[p].keep
  BY DEF Attaches
<1>6. proc[p].pc \in {"mount", "reattach"} /\ proc'[p].pc \in {"ready", "rewrite", "native"}
  BY DEF Attaches
<1>7. \A q \in Procs : proc[q].l = l => proc[q].s \in Nat /\ proc[q].s <= attaches[l]
  BY <1>1, <1>2, <1>3 DEF Numbered, Typed, ProcTyped, Frames
<1>8. Numbered'
  BY <1>1, <1>2, <1>3, <1>4, <1>5, <1>7 DEF Numbered, WorkspacesStay, Others, Typed, ProcTyped, Frames
<1>9. SessionKnown'
  <2>1. children[l] # attaches[l] + 1
    BY <1>1, <1>2, <1>3 DEF Numbered, Typed, ProcTyped
  <2>2. \A q \in Procs : proc[q].l = l => proc[q].s # attaches[l] + 1
    BY <1>3, <1>7
  <2>3. \A q \in Procs : proc[q].pc \in Fresh => proc[q].l # l
    BY <1>2, <1>3 DEF SessionKnown
  <2> QED
    BY <1>1, <1>2, <1>3, <1>4, <1>5, <1>6, <2>1, <2>2, <2>3, OthersThere
       DEF SessionKnown, Others, Fresh, Spent, Sessionless
<1>10. RightOp'
  BY <1>1, <1>2 DEF RightOp, Others, Attaches, Procs
<1>11. RetainSession'
  <2>1. ~(proc'[p].pc \in {"mark", "native", "retain", "record"} /\ proc'[p].keep)
    BY <1>2 DEF Attaches, RightOp
  <2> QED
    BY <1>1, <1>2, <2>1, OthersThere DEF RetainSession, WorkspacesStay, Others
<1>12. ForgetsOwn'
  BY <1>1, <1>2, <1>5, <1>6, OthersThere DEF ForgetsOwn, WorkspacesStay, Others
<1>13. AttachHasRecord'
  BY <1>1, <1>2, <1>3, <1>5, OthersThere DEF AttachHasRecord, RightOp, WorkspacesStay, Others
<1>14. AcquireAlone'
  BY <1>1, <1>2, <1>5, OthersThere DEF AcquireAlone, RightOp, Others, Procs
<1>15. NoLostSession'
  <2>1. ASSUME NEW m \in Leases, m # l, live'[m] # 0
        PROVE  \/ children'[m] = live'[m]
               \/ \E q \in Procs : proc'[q].l = m /\ proc'[q].s = live'[m]
    <3>1. \/ children[m] = live[m]
          \/ \E q \in Procs : proc[q].l = m /\ proc[q].s = live[m]
      BY <1>2, <1>4, <2>1 DEF NoLostSession, Procs
    <3>2. CASE children[m] = live[m]
      BY <1>1, <1>4, <2>1, <3>2
    <3>3. ASSUME NEW q \in Procs, proc[q].l = m, proc[q].s = live[m]
          PROVE  proc'[q].l = m /\ proc'[q].s = live'[m]
      BY <1>1, <1>4, <2>1, <3>3 DEF Others
    <3> QED
      BY <3>1, <3>2, <3>3
  <2> QED
    BY <1>4, <1>5, <2>1 DEF NoLostSession, Procs
<1> QED
  BY <1>8, <1>9, <1>10, <1>11, <1>12, <1>13, <1>14, <1>15 DEF Sessions

\* A release ends the session it holds, and no other.
LEMMA NativeSessions ==
    ASSUME IInv, NEW p \in Procs, NativeRelease(p)
    PROVE  Sessions'
<1> DEFINE l == proc[p].l
<1>1. Typed /\ UNCHANGED <<ws, record, attaches, children>>
  BY DEF IInv, NativeRelease
<1>2. /\ Numbered /\ SessionKnown /\ RightOp /\ RetainSession /\ ForgetsOwn
      /\ AttachHasRecord /\ AcquireAlone /\ NoLostSession
  BY DEF IInv, Sessions
<1>3. l \in Leases /\ proc[p].pc = "native" /\ proc[p] \in Frames
  BY <1>1 DEF NativeRelease, At, Typed, ProcTyped
<1>4. /\ \A m \in Leases : m # l => live'[m] = live[m]
      /\ live'[l] = IF live[l] = proc[p].s THEN 0 ELSE live[l]
  BY <1>1, <1>3 DEF NativeRelease, Released, Lease, Typed, ProcTyped
<1>5. /\ Others(p) /\ Same(p)
      /\ proc'[p].pc = IF proc[p].keep THEN "retain" ELSE "cleanup"
  BY <1>1, <1>3 DEF NativeRelease, Others, Same, Typed, ProcTyped, Frames
<1>6. Numbered'
  BY <1>1, <1>2, <1>3, <1>4, <1>5 DEF Numbered, Gone, Others, Same, Typed, ProcTyped, Frames
<1>7. SessionKnown'
  <2>1. \A q \in Procs : proc[q].pc \in Fresh /\ proc[q].l = l => live'[l] = live[l]
    BY <1>2, <1>3, <1>4 DEF SessionKnown, Fresh
  <2>2. live'[l] = 0 \/ proc[p].s # live'[l]
    BY <1>4
  <2> QED
    BY <1>1, <1>2, <1>3, <1>4, <1>5, <2>1, <2>2, OthersThere
       DEF SessionKnown, Others, Same, Fresh, Spent, Sessionless
<1>8. RightOp'
  BY <1>1, <1>2, <1>3, <1>5 DEF RightOp, RetainSession, Others, Same, Procs
<1>9. RetainSession'
  BY <1>1, <1>2, <1>3, <1>5, OthersThere DEF RetainSession, Gone, Others, Same
<1>10. ForgetsOwn'
  BY <1>1, <1>2, <1>3, <1>5, OthersThere DEF ForgetsOwn, Gone, Others, Same
<1>11. AttachHasRecord' /\ AcquireAlone'
  BY <1>1, <1>2, <1>3, <1>5, OthersThere
     DEF AttachHasRecord, AcquireAlone, RightOp, Gone, Others, Same, Procs
<1>12. NoLostSession'
  BY <1>1, <1>2, <1>3, <1>4, <1>5 DEF NoLostSession, Others, Same, Procs
<1> QED
  BY <1>6, <1>7, <1>8, <1>9, <1>10, <1>11, <1>12 DEF Sessions

\* The entry of the map that Register replaces is not an attached session.
LEMMA RegisterSessions ==
    ASSUME IInv, NEW p \in Procs, Register(p)
    PROVE  Sessions'
<1> DEFINE l == proc[p].l
<1>1. Typed /\ UNCHANGED <<ws, record, attaches, live>>
  BY DEF IInv, Register, disk
<1>2. /\ Numbered /\ SessionKnown /\ RightOp /\ RetainSession /\ ForgetsOwn
      /\ AttachHasRecord /\ AcquireAlone /\ NoLostSession
  BY DEF IInv, Sessions
<1>3. l \in Leases /\ proc[p].pc = "register" /\ proc[p] \in Frames
  BY <1>1 DEF Register, At, Typed, ProcTyped
<1>4. /\ \A m \in Leases : m # l => children'[m] = children[m]
      /\ children'[l] = proc[p].s
  BY <1>1, <1>3 DEF Register, Lease, Typed, ProcTyped
<1>5. Others(p) /\ Stopped(p)
  BY <1>1 DEF Register, Return, Ended, Idle, Others, Stopped, Typed, ProcTyped
<1>6. proc[p].s = live[l] /\ proc[p].s # 0 /\ ~Gone(l)
  BY <1>1, <1>2, <1>3 DEF SessionKnown, Numbered, Fresh
<1>7. NoLease \notin Leases /\ Recoverer \notin Handlers
  BY SentinelsAssumption DEF SentinelsAssumption
<1>8. Numbered'
  BY <1>1, <1>2, <1>3, <1>4, <1>5, <1>6, <1>7 DEF Numbered, Gone, Others, Stopped
<1>9. SessionKnown'
  <2>1. \A q \in Procs \ {p} : proc[q].pc \in Fresh => proc[q].l # l
    BY <1>2, <1>3, <1>6 DEF SessionKnown, Fresh
  <2> QED
    BY <1>1, <1>2, <1>3, <1>4, <1>5, <1>7, <2>1, OthersThere
       DEF SessionKnown, Others, Stopped, Fresh, Spent, Sessionless
<1>10. RightOp'
  BY <1>1, <1>2, <1>5 DEF RightOp, Others, Stopped, Procs
<1>11. ASSUME NEW q \in Procs \ {p}, proc[q].l = l, proc[q].op = "release"
       PROVE  record[l] /\ proc[q].pc # "forget"
  <2>1. proc[p].op # "acquire"
    BY <1>2, <1>7, <1>11 DEF AcquireAlone, RightOp, Procs
  <2>2. proc[p].op = "attach"
    BY <1>2, <1>3, <2>1 DEF RightOp
  <2> QED
    BY <1>2, <1>6, <1>11, <2>2 DEF AttachHasRecord, ForgetsOwn
<1>12. RetainSession'
  BY <1>1, <1>2, <1>3, <1>4, <1>5, <1>11, OthersThere
     DEF RetainSession, Gone, Others, Stopped
<1>13. ForgetsOwn'
  BY <1>1, <1>2, <1>3, <1>4, <1>5, <1>6, <1>7, <1>11, OthersThere
     DEF ForgetsOwn, Gone, Others, Stopped
<1>14. AttachHasRecord'
  BY <1>1, <1>2, <1>5, OthersThere DEF AttachHasRecord, RightOp, Gone, Others, Stopped
<1>15. AcquireAlone'
  <2>1. ASSUME NEW q \in Procs \ {p}, proc[q].op = "acquire" PROVE proc[q].l # l
    <3>1. q \in Handlers /\ (p \in Handlers \/ p = Recoverer)
      BY <1>2, <2>1 DEF RightOp, Procs
    <3>2. proc[p].op \in {"acquire", "attach"}
      BY <1>2, <1>3 DEF RightOp
    <3> QED
      BY <1>2, <2>1, <3>1, <3>2 DEF AcquireAlone, RightOp, Procs
  <2> QED
    BY <1>1, <1>2, <1>3, <1>4, <1>5, <1>7, <2>1, OthersThere
       DEF AcquireAlone, RightOp, Others, Stopped, Procs
<1>16. NoLostSession'
  BY <1>1, <1>2, <1>3, <1>4, <1>5, <1>6 DEF NoLostSession, Others, Procs
<1> QED
  BY <1>8, <1>9, <1>10, <1>12, <1>13, <1>14, <1>15, <1>16 DEF Sessions

\* Only one release of a lease makes its record, and goes on to delete the
\* entry of the map.
LEMMA RecordSessions ==
    ASSUME IInv, NEW p \in Procs, ReleaseRecord(p), ~record[proc[p].l],
           record' = [record EXCEPT ![proc[p].l] = TRUE], Goto(p, "forget")
    PROVE  Sessions'
<1> DEFINE l == proc[p].l
<1>1. Typed /\ UNCHANGED <<ws, attaches, live, children>>
  BY DEF IInv, ReleaseRecord
<1>2. /\ Numbered /\ SessionKnown /\ RightOp /\ RetainSession /\ ForgetsOwn
      /\ AttachHasRecord /\ AcquireAlone /\ NoLostSession
  BY DEF IInv, Sessions
<1>3. l \in Leases /\ proc[p].pc = "record" /\ proc[p] \in Frames
  BY <1>1 DEF ReleaseRecord, At, Typed, ProcTyped
<1>4. /\ \A m \in Leases : m # l => record'[m] = record[m]
      /\ record'[l] = TRUE
  BY <1>1, <1>3 DEF Typed, ProcTyped
<1>5. Others(p) /\ Same(p) /\ proc'[p].pc = "forget"
  BY <1>1, <1>3 DEF Goto, Others, Same, Typed, ProcTyped, Frames
<1>6. /\ proc[p].op = "release" /\ proc[p].s # 0
      /\ Gone(l) \/ children[l] = proc[p].s
  BY <1>2, <1>3 DEF RetainSession, RightOp
<1>7. Recoverer \notin Handlers
  BY SentinelsAssumption DEF SentinelsAssumption
<1>8. Numbered'
  BY <1>1, <1>2, <1>3, <1>4, <1>5, <1>6 DEF Numbered, Gone, Others, Same, Typed, ProcTyped, Frames
<1>9. SessionKnown'
  BY <1>1, <1>2, <1>3, <1>5, OthersThere
     DEF SessionKnown, Others, Same, Fresh, Spent, Sessionless
<1>10. RightOp'
  BY <1>1, <1>2, <1>3, <1>5, <1>6 DEF RightOp, Others, Same, Procs
<1>11. RetainSession'
  BY <1>1, <1>2, <1>4, <1>5, OthersThere DEF RetainSession, Gone, Others
<1>12. ForgetsOwn'
  <2>1. ASSUME ~Gone(l), NEW q \in Procs \ {p}, proc[q].l = l
        PROVE  proc[q].pc # "forget" /\ proc[q].op # "attach"
    BY <1>2, <2>1 DEF ForgetsOwn, AttachHasRecord
  <2> QED
    BY <1>1, <1>2, <1>3, <1>4, <1>5, <1>6, <2>1, OthersThere
       DEF ForgetsOwn, Gone, Others, Same
<1>13. AttachHasRecord'
  BY <1>1, <1>2, <1>4, <1>5, <1>6, OthersThere
     DEF AttachHasRecord, RightOp, Gone, Others, Same
<1>14. AcquireAlone'
  <2>1. ASSUME NEW q \in Procs \ {p}, proc[q].op = "acquire" PROVE proc[q].l # l
    BY <1>2, <1>6, <2>1 DEF AcquireAlone, RightOp, Procs
  <2> QED
    BY <1>1, <1>2, <1>3, <1>4, <1>5, <1>6, <2>1, OthersThere
       DEF AcquireAlone, RightOp, Others, Same, Procs
<1>15. NoLostSession'
  BY <1>1, <1>2, <1>5 DEF NoLostSession, Others, Same, Procs
<1> QED
  BY <1>8, <1>9, <1>10, <1>11, <1>12, <1>13, <1>14, <1>15 DEF Sessions

\* A workspace is removed when its child is detached.
LEMMA CleanupSessions ==
    ASSUME IInv, NEW p \in Procs, CleanupWorkspace(p), Removable(Lease(p)) \/ Gone(Lease(p)),
           ws' = [ws EXCEPT ![Lease(p)] = "gone"], Goto(p, "unlist")
    PROVE  Sessions'
<1> DEFINE l == proc[p].l
<1>1. Typed /\ UNCHANGED <<record, attaches, live, children>>
  BY DEF IInv, CleanupWorkspace
<1>2. /\ Numbered /\ SessionKnown /\ RightOp /\ RetainSession /\ ForgetsOwn
      /\ AttachHasRecord /\ AcquireAlone /\ NoLostSession
  BY DEF IInv, Sessions
<1>3. l \in Leases /\ proc[p].pc = "cleanup" /\ proc[p] \in Frames
  BY <1>1 DEF CleanupWorkspace, At, Typed, ProcTyped
<1>4. live[l] = 0
  BY <1>2, <1>3 DEF Removable, Lease, Numbered
<1>5. \A m \in Leases : m = l \/ Gone(m) => Gone(m)'
  <2>1. ws'[l] = "gone" /\ \A m \in Leases : m # l => ws'[m] = ws[m]
    BY <1>1, <1>3 DEF Lease, Typed, ProcTyped
  <2>2. ASSUME NEW m \in Leases, m = l \/ Gone(m) PROVE ws'[m] = "gone"
    BY <2>1, <2>2 DEF Gone
  <2> QED
    BY <2>2 DEF Gone
<1>6. \A m \in Leases : m # l => (Gone(m)' <=> Gone(m))
  BY <1>1, <1>3 DEF Lease, Gone, Typed, ProcTyped
<1>7. Others(p) /\ Same(p) /\ proc'[p].pc = "unlist"
  BY <1>1, <1>3 DEF Goto, Others, Same, Typed, ProcTyped, Frames
<1>8. Numbered'
  BY <1>1, <1>2, <1>3, <1>4, <1>6, <1>7 DEF Numbered, Others, Same
<1>9. SessionKnown'
  BY <1>1, <1>2, <1>3, <1>7, OthersThere
     DEF SessionKnown, Others, Same, Fresh, Spent, Sessionless
<1>10. RightOp'
  BY <1>1, <1>2, <1>3, <1>7 DEF RightOp, Others, Same, Procs
<1>11. RetainSession'
  BY <1>1, <1>2, <1>5, <1>7, OthersThere DEF RetainSession, Others
<1>12. ForgetsOwn'
  BY <1>1, <1>2, <1>3, <1>5, <1>6, <1>7, OthersThere DEF ForgetsOwn, Others, Same
<1>13. AttachHasRecord'
  BY <1>1, <1>2, <1>3, <1>5, <1>7, OthersThere DEF AttachHasRecord, RightOp, Others, Same
<1>14. AcquireAlone'
  BY <1>1, <1>2, <1>3, <1>7, OthersThere DEF AcquireAlone, RightOp, Others, Same, Procs
<1>15. NoLostSession'
  BY <1>1, <1>2, <1>7 DEF NoLostSession, Others, Same, Procs
<1> QED
  BY <1>8, <1>9, <1>10, <1>11, <1>12, <1>13, <1>14, <1>15 DEF Sessions

\* A record is removed when its workspace is gone.
LEMMA UnrecordSessions ==
    ASSUME IInv, NEW p \in Procs, Unrecord(p),
           record' = [record EXCEPT ![Lease(p)] = FALSE], Goto(p, "forget")
    PROVE  Sessions'
<1> DEFINE l == proc[p].l
<1>1. Typed /\ UNCHANGED <<ws, attaches, live, children>>
  BY DEF IInv, Unrecord
<1>2. /\ Numbered /\ SessionKnown /\ RightOp /\ RetainSession /\ ForgetsOwn
      /\ AttachHasRecord /\ AcquireAlone /\ NoLostSession
  BY DEF IInv, Sessions
<1>3. l \in Leases /\ proc[p].pc = "unrecord" /\ proc[p] \in Frames
  BY <1>1 DEF Unrecord, At, Typed, ProcTyped
<1>4. /\ \A m \in Leases : m # l => record'[m] = record[m]
      /\ record'[l] = FALSE
  BY <1>1, <1>3 DEF Lease, Typed, ProcTyped
<1>5. Others(p) /\ Same(p) /\ proc'[p].pc = "forget"
  BY <1>1, <1>3 DEF Goto, Others, Same, Typed, ProcTyped, Frames
<1>6. Gone(l)
  BY <1>2, <1>3 DEF ForgetsOwn
<1>7. Numbered'
  BY <1>1, <1>2, <1>3, <1>4, <1>5 DEF Numbered, Gone, Others, Same
<1>8. SessionKnown'
  BY <1>1, <1>2, <1>3, <1>5, OthersThere
     DEF SessionKnown, Others, Same, Fresh, Spent, Sessionless
<1>9. RightOp'
  BY <1>1, <1>2, <1>3, <1>5 DEF RightOp, Others, Same, Procs
<1>a. WorkspacesStay
  BY <1>1 DEF WorkspacesStay, Gone
<1>b. \A q \in Procs : proc[q].pc \notin {"idle", "next"} =>
          proc[q].l \in Leases /\ (Gone(proc[q].l) \/ record'[proc[q].l] = record[proc[q].l])
  <2>1. ASSUME NEW q \in Procs, proc[q].pc \notin {"idle", "next"}
        PROVE  proc[q].l \in Leases /\ (Gone(proc[q].l) \/ record'[proc[q].l] = record[proc[q].l])
    <3>1. proc[q].l \in Leases
      BY <1>1, <2>1 DEF Typed, ProcTyped
    <3>2. CASE proc[q].l = l
      BY <1>6, <3>1, <3>2
    <3>3. CASE proc[q].l # l
      BY <1>4, <3>1, <3>3
    <3> QED
      BY <3>1, <3>2, <3>3
  <2> QED
    BY <2>1
<1>10. RetainSession'
  BY <1>1, <1>2, <1>5, <1>a, <1>b DEF RetainSession, WorkspacesStay, Others
<1>11. ForgetsOwn'
  <2>1. ASSUME NEW q \in Procs, proc'[q].pc = "forget", ~Gone(proc[q].l)'
        PROVE  q # p /\ proc'[q] = proc[q] /\ ~Gone(proc[q].l) /\ proc[q].l # l
    <3>1. q # p
      BY <1>1, <1>3, <1>5, <1>6, <1>a, <2>1 DEF WorkspacesStay, Same
    <3> QED
      BY <1>1, <1>5, <1>6, <1>a, <1>b, <2>1, <3>1 DEF WorkspacesStay, Others
  <2>2. \A q \in Procs : proc'[q].pc \in {"unlist", "unrecord"} => Gone(proc[q].l)'
    BY <1>1, <1>2, <1>5, <1>a, <1>b DEF ForgetsOwn, WorkspacesStay, Others
  <2>3. \A q \in Procs : proc'[q].op = proc[q].op /\ proc'[q].l = proc[q].l
    BY <1>5 DEF Others, Same
  <2>4. ASSUME NEW q \in Procs, proc'[q].pc = "forget", ~Gone(proc[q].l)'
        PROVE  /\ proc'[q].op = "release" /\ proc'[q].s # 0 /\ record'[proc'[q].l]
               /\ children'[proc'[q].l] = proc'[q].s
               /\ \A r \in Procs \ {q} : proc'[r].l = proc'[q].l =>
                     proc'[r].pc # "forget" /\ proc'[r].op # "attach"
    <3>1. q # p /\ proc'[q] = proc[q] /\ ~Gone(proc[q].l) /\ proc[q].l # l
      BY <2>1, <2>4
    <3>2. /\ proc[q].op = "release" /\ proc[q].s # 0 /\ record[proc[q].l]
          /\ children[proc[q].l] = proc[q].s
          /\ \A r \in Procs \ {q} : proc[r].l = proc[q].l =>
                proc[r].pc # "forget" /\ proc[r].op # "attach"
      BY <1>2, <2>4, <3>1 DEF ForgetsOwn
    <3>3. record'[proc[q].l] = record[proc[q].l]
      BY <1>b, <2>4, <3>1
    <3>4. ASSUME NEW r \in Procs \ {q}, proc'[r].l = proc'[q].l
          PROVE  proc'[r].pc # "forget" /\ proc'[r].op # "attach"
      <4>1. r # p
        BY <2>3, <3>1, <3>4
      <4> QED
        BY <1>5, <2>3, <3>1, <3>2, <3>4, <4>1 DEF Others
    <3> QED
      BY <1>1, <3>1, <3>2, <3>3, <3>4
  <2> QED
    BY <2>2, <2>4 DEF ForgetsOwn
<1>12. AttachHasRecord'
  BY <1>1, <1>2, <1>3, <1>5, <1>6, <1>a, <1>b
     DEF AttachHasRecord, RightOp, WorkspacesStay, Others, Same
<1>13. AcquireAlone'
  BY <1>1, <1>2, <1>3, <1>4, <1>5, OthersThere
     DEF AcquireAlone, RightOp, Others, Same, Procs
<1>14. NoLostSession'
  BY <1>1, <1>2, <1>5 DEF NoLostSession, Others, Same, Procs
<1> QED
  BY <1>7, <1>8, <1>9, <1>10, <1>11, <1>12, <1>13, <1>14 DEF Sessions

\* What Forget takes out of the map was released.
LEMMA ForgetSessions ==
    ASSUME IInv, NEW p \in Procs, Forget(p)
    PROVE  Sessions'
<1> DEFINE l == proc[p].l
<1>1. Typed /\ UNCHANGED <<ws, record, attaches, live>>
  BY DEF IInv, Forget, disk
<1>2. /\ Numbered /\ SessionKnown /\ RightOp /\ RetainSession /\ ForgetsOwn
      /\ AttachHasRecord /\ AcquireAlone /\ NoLostSession
  BY DEF IInv, Sessions
<1>3. l \in Leases /\ proc[p].pc = "forget" /\ proc[p] \in Frames
  BY <1>1 DEF Forget, At, Typed, ProcTyped
<1>4. /\ \A m \in Leases : m # l => children'[m] = children[m]
      /\ children'[l] \in {0, children[l]}
  BY <1>1, <1>3 DEF Forget, Lease, Typed, ProcTyped
<1>5. Others(p) /\ Stopped(p)
  BY <1>1 DEF Forget, Return, Ended, Idle, Others, Stopped, Typed, ProcTyped
<1>6. live[l] = 0 \/ (proc[p].s # live[l] /\ children[l] = proc[p].s /\ record[l])
  BY <1>2, <1>3 DEF Numbered, SessionKnown, Spent, ForgetsOwn
<1>7. NoLease \notin Leases /\ Recoverer \notin Handlers
  BY SentinelsAssumption DEF SentinelsAssumption
<1>8. Numbered'
  BY <1>1, <1>2, <1>3, <1>4, <1>5, <1>7 DEF Numbered, Gone, Others, Stopped, Typed, ProcTyped
<1>9. SessionKnown'
  BY <1>1, <1>2, <1>3, <1>4, <1>5, <1>7, OthersThere
     DEF SessionKnown, Others, Stopped, Fresh, Spent, Sessionless
<1>10. RightOp'
  BY <1>1, <1>2, <1>5 DEF RightOp, Others, Stopped, Procs
<1>11. RetainSession'
  BY <1>1, <1>2, <1>3, <1>4, <1>5, OthersThere
     DEF RetainSession, ForgetsOwn, Gone, Others, Stopped
<1>12. ForgetsOwn'
  <2>1. ASSUME NEW q \in Procs \ {p}, proc[q].pc = "forget", proc[q].l = l PROVE Gone(l)
    BY <1>2, <1>3, <2>1 DEF ForgetsOwn
  <2> QED
    BY <1>1, <1>2, <1>3, <1>4, <1>5, <1>7, <2>1, OthersThere
       DEF ForgetsOwn, Gone, Others, Stopped
<1>13. AttachHasRecord'
  BY <1>1, <1>2, <1>5, OthersThere DEF AttachHasRecord, RightOp, Gone, Others, Stopped
<1>14. AcquireAlone'
  BY <1>1, <1>2, <1>3, <1>4, <1>5, <1>7, OthersThere
     DEF AcquireAlone, RightOp, Others, Stopped, Procs
<1>15. NoLostSession'
  <2>1. \A m \in Leases : live[m] # 0 =>
            \/ children[m] = live[m] /\ m # l
            \/ \E q \in Procs \ {p} : proc[q].l = m /\ proc[q].s = live[m]
    BY <1>2, <1>3, <1>6 DEF NoLostSession, SessionKnown, Spent, Procs
  <2> QED
    BY <1>1, <1>4, <1>5, <2>1 DEF NoLostSession, Others, Procs
<1> QED
  BY <1>8, <1>9, <1>10, <1>11, <1>12, <1>13, <1>14, <1>15 DEF Sessions

\* A crash detaches everything and forgets everything.
LEMMA CrashSessions ==
    ASSUME IInv, Crash
    PROVE  Sessions'
<1>1. Typed /\ Numbered
  BY DEF IInv, Sessions
<1>2. /\ \A p \in Procs : proc'[p] = Idle
      /\ \A l \in Leases : live'[l] = 0 /\ children'[l] = 0
      /\ UNCHANGED <<ws, record, attaches>>
  BY DEF Crash, Procs
<1>3. NoLease \notin Leases
  BY SentinelsAssumption DEF SentinelsAssumption
<1>4. Numbered'
  BY <1>1, <1>2, <1>3 DEF Numbered, Gone, Typed, ProcTyped, Idle
<1>5. SessionKnown' /\ RightOp'
  BY <1>2 DEF SessionKnown, RightOp, Idle, Sessionless, Fresh, Spent, Procs
<1>6. RetainSession' /\ ForgetsOwn' /\ AttachHasRecord' /\ AcquireAlone'
  BY <1>2 DEF RetainSession, ForgetsOwn, AttachHasRecord, AcquireAlone, Idle, Procs
<1>7. NoLostSession'
  BY <1>2 DEF NoLostSession
<1> QED
  BY <1>4, <1>5, <1>6, <1>7 DEF Sessions
-----------------------------------------------------------------------------
(* Every step is one of these                                              *)

\* A handler answers, or Recover goes on with its list.
LEMMA Returned ==
    ASSUME Typed, NEW p \in Procs, Return(p)
    PROVE  ProcTyped' /\ Others(p) /\ Stopped(p)
<1>1. Ended(p) \in Frames
  BY DEF Ended, Idle, Frames, Steps, Ops
<1>2. /\ Ended(p).pc \in {"idle", "next"} /\ Ended(p).l = NoLease /\ Ended(p).s = 0
      /\ Ended(p).op \in {"none", "recover"}
  BY DEF Ended, Idle
<1>3. proc \in [Procs -> Frames] /\ proc' = [proc EXCEPT ![p] = Ended(p)]
  BY DEF Typed, ProcTyped, Return
<1>4. proc'[p] = Ended(p) /\ Others(p)
  BY <1>3 DEF Others
<1>5. ProcTyped'
  BY <1>1, <1>2, <1>3, <1>4 DEF Typed, ProcTyped, Others
<1> QED
  BY <1>2, <1>4, <1>5 DEF Stopped

\* Recover gives up.
LEMMA Aborted ==
    ASSUME Typed, proc' = [proc EXCEPT ![Recoverer] = Idle]
    PROVE  ProcTyped' /\ Others(Recoverer) /\ Stopped(Recoverer)
<1>1. Idle \in Frames /\ Recoverer \in Procs
  BY DEF Idle, Frames, Procs
<1>2. proc'[Recoverer] = Idle /\ Others(Recoverer)
  BY <1>1 DEF Others, Typed, ProcTyped
<1>3. ProcTyped'
  BY <1>1, <1>2 DEF Typed, ProcTyped, Others, Idle
<1> QED
  BY <1>2, <1>3 DEF Stopped, Idle

\* A goroutine goes on to its next step.
LEMMA Went ==
    ASSUME Typed, NEW p \in Procs, proc[p].pc \notin {"idle", "next"},
           NEW step \in Steps \ {"next"}, NEW j \in Journals,
           Goto(p, step) \/ proc' = [proc EXCEPT ![p].pc = step, ![p].j = j]
    PROVE  ProcTyped' /\ Others(p) /\ Same(p) /\ proc'[p].pc = step
<1>1. proc \in [Procs -> Frames] /\ proc[p].l \in Leases /\ proc[p].j \in Journals
  BY DEF Typed, ProcTyped
<1>2. /\ proc' \in [Procs -> Frames] /\ Others(p) /\ Same(p) /\ proc'[p].pc = step
      /\ proc'[p].j \in Journals
  <2>1. CASE Goto(p, step)
    BY <1>1, <2>1 DEF Goto, Others, Same, Frames
  <2>2. CASE proc' = [proc EXCEPT ![p].pc = step, ![p].j = j]
    BY <1>1, <2>2 DEF Others, Same, Frames
  <2> QED
    BY <2>1, <2>2
<1>3. ProcTyped'
  <2>1. step \notin {"idle", "next"}
    BY DEF Steps
  <2> QED
    BY <1>1, <1>2, <2>1 DEF Typed, ProcTyped, Others, Same
<1> QED
  BY <1>2, <1>3

\* A goroutine goes on with a new session.
LEMMA Mounted ==
    ASSUME Typed, NEW p \in Procs, proc[p].pc \notin {"idle", "next"},
           NEW step \in Steps \ {"next"}, NEW s \in Nat,
           proc' = [proc EXCEPT ![p].pc = step, ![p].s = s]
    PROVE  /\ ProcTyped' /\ Others(p) /\ proc'[p].pc = step /\ proc'[p].s = s
           /\ proc'[p].l = proc[p].l
           /\ proc'[p].op = proc[p].op /\ proc'[p].keep = proc[p].keep
<1>1. proc \in [Procs -> Frames] /\ proc[p].l \in Leases /\ proc[p].j \in Journals
  BY DEF Typed, ProcTyped
<1>2. /\ proc' \in [Procs -> Frames] /\ Others(p)
      /\ proc'[p].pc = step /\ proc'[p].s = s /\ proc'[p].l = proc[p].l
      /\ proc'[p].op = proc[p].op /\ proc'[p].keep = proc[p].keep
      /\ proc'[p].j = proc[p].j
  BY <1>1 DEF Others, Frames
<1>3. ProcTyped'
  <2>1. step \notin {"idle", "next"}
    BY DEF Steps
  <2> QED
    BY <1>1, <1>2, <2>1 DEF Typed, ProcTyped, Others
<1> QED
  BY <1>2, <1>3

\* A goroutine takes up lease l.
LEMMA Started ==
    ASSUME Typed, NEW p \in Procs, NEW f \in Frames, f.l \in Leases, f.j \in Journals,
           f.pc \notin {"idle", "next"}, proc' = [proc EXCEPT ![p] = f]
    PROVE  ProcTyped' /\ Others(p) /\ proc'[p] = f
<1>1. proc'[p] = f /\ Others(p) /\ proc' \in [Procs -> Frames]
  BY DEF Typed, ProcTyped, Others
<1> QED
  BY <1>1 DEF Typed, ProcTyped, Others

\* The journals that are written are journals.
LEMMA Journaled ==
    ASSUME Typed, NEW l \in Leases, NEW j \in Journals \cup {Absent}, WriteLease(l, j)
    PROVE  journal' \in [Leases -> Journals \cup {Absent}]
BY DEF Typed, WriteLease

\* So are the ones with another state.
LEMMA JournalStates ==
    /\ \A j \in Journals, s \in States : [j EXCEPT !.state = s] \in Journals
    /\ \A j \in Journals : [j EXCEPT !.state = "ready", !.ident = TRUE] \in Journals
    /\ Absent.state = "none" /\ "none" \notin States
BY DEF Journals, States, Absent

\* An error path leaves the session alone.
LEMMA Quarantined ==
    ASSUME Typed, NEW p \in Procs, proc[p].pc \notin {"idle", "next"}, Quarantine(p)
    PROVE  /\ journal' \in [Leases -> Journals \cup {Absent}]
           /\ ProcTyped' /\ Others(p) /\ Stopped(p)
<1>1. proc[p].l \in Leases /\ proc[p].j \in Journals
  BY DEF Typed, ProcTyped
<1>2. [proc[p].j EXCEPT !.state = "quarantined"] \in Journals
  BY <1>1, JournalStates DEF States
<1>3. WriteLease(proc[p].l, [proc[p].j EXCEPT !.state = "quarantined"]) /\ Return(p)
  BY DEF Quarantine, Lease
<1> QED
  BY <1>1, <1>2, <1>3, Journaled, Returned

\* A goroutine without an attached session may stop.
LEMMA MayStop ==
    ASSUME IInv, NEW p \in Procs, proc[p].pc \in (Sessionless \cup Spent)
    PROVE  /\ proc[p].pc \notin Fresh
           /\ proc[p].l \in Leases => live[proc[p].l] = 0 \/ proc[p].s # live[proc[p].l]
BY DEF IInv, Sessions, SessionKnown, Sessionless, Spent, Fresh

\* A goroutine without a session of its own stops.
LEMMA StopSessions ==
    ASSUME IInv, NEW p \in Procs, proc[p].pc \in (Sessionless \cup Spent),
           Still, Others(p), Stopped(p)
    PROVE  Sessions'
BY MayStop, QuietSessions DEF Quiet

\* The requests that come in.
LEMMA RequestStep ==
    ASSUME IInv, NEW p \in Handlers, NEW c \in Clients, Requests(p, c)
    PROVE  IInv'
<1>1. Typed /\ p \in Procs /\ p # Recoverer
  BY SentinelsAssumption DEF SentinelsAssumption, IInv, Procs
<1>2. PICK l \in Leases :
        \/ AcquireBegin(p, c, l) \/ HeartbeatBegin(p, c, l)
        \/ \E keep \in BOOLEAN : ReleaseBegin(p, c, l, keep)
        \/ AttachBegin(p, c, l) \/ RemoveBegin(p, c, l)
  BY DEF Requests
<1>3. Exists(l) => journal[l] \in Journals
  BY <1>1, JournalStates DEF Typed, Exists
<1>4. /\ UNCHANGED <<ws, record, live, attaches, children, todo>> /\ At(p, "idle")
  BY <1>2 DEF AcquireBegin, HeartbeatBegin, ReleaseBegin, AttachBegin, RemoveBegin, Begin, disk
<1>5. Still
  BY <1>4 DEF Still, WorkspacesStay, Gone
<1>6. CASE AcquireBegin(p, c, l)
  <2> DEFINE j == [state |-> "requested", retained |-> FALSE, client |-> c, ident |-> FALSE]
             f == Call("owner", "acquire", l, j, 0, c, FALSE)
  <2>1. j \in Journals
    BY DEF Journals, States
  <2>2. /\ f \in Frames /\ f.l = l /\ f.j \in Journals /\ f.pc = "owner" /\ f.s = 0
        /\ f.op = "acquire"
    BY <2>1 DEF Call, Frames, Steps, Ops
  <2>3. /\ proc' = [proc EXCEPT ![p] = f] /\ WriteLease(l, j) /\ attaches[l] = 0
        /\ \A q \in Handlers : proc[q].l # l
    BY <1>6 DEF AcquireBegin, Begin, Lease
  <2> HIDE DEF f
  <2>4. ProcTyped' /\ Others(p) /\ proc'[p] = f
    BY <1>1, <2>2, <2>3, Started
  <2>5. Typed'
    BY <1>1, <1>4, <2>1, <2>3, <2>4, Journaled DEF Typed
  <2>6. Begins(p, l)
    BY <1>1, <1>4, <1>5, <2>2, <2>3, <2>4 DEF Begins, At
  <2> QED
    BY <1>1, <2>5, <2>6, BeginSessions DEF IInv
<1>7. CASE HeartbeatBegin(p, c, l)
  <2> DEFINE j == [journal[l] EXCEPT !.client = c]
             f == Call("beat", "heartbeat", l, j, 0, c, FALSE)
  <2>1. j \in Journals
    BY <1>3, <1>7 DEF HeartbeatBegin, Beatable, Exists, Journals
  <2>2. /\ f \in Frames /\ f.l = l /\ f.j \in Journals /\ f.pc = "beat" /\ f.s = 0
        /\ f.op = "heartbeat"
    BY <2>1 DEF Call, Frames, Steps, Ops
  <2>3. proc' = [proc EXCEPT ![p] = f] /\ UNCHANGED journal
    BY <1>7 DEF HeartbeatBegin, Begin, disk
  <2> HIDE DEF f
  <2>4. ProcTyped' /\ Others(p) /\ proc'[p] = f
    BY <1>1, <2>2, <2>3, Started
  <2>5. Typed'
    BY <1>1, <1>4, <2>3, <2>4 DEF Typed
  <2>6. Begins(p, l)
    BY <1>1, <1>4, <1>5, <2>2, <2>4 DEF Begins, At
  <2> QED
    BY <1>1, <2>5, <2>6, BeginSessions DEF IInv
<1>8. ASSUME NEW keep \in BOOLEAN, ReleaseBegin(p, c, l, keep)
      PROVE  IInv'
  <2> DEFINE j == [journal[l] EXCEPT !.state = "releasing", !.retained = keep]
             f == Call("mark", "release", l, j, children[l], c, keep)
  <2>1. j \in Journals
    BY <1>3, <1>8 DEF ReleaseBegin, Journals, States
  <2>2. /\ f \in Frames /\ f.l = l /\ f.j \in Journals /\ f.pc = "mark"
        /\ f.s = children[l] /\ f.op = "release"
    BY <1>1, <2>1 DEF Call, Frames, Steps, Ops, Typed
  <2>3. proc' = [proc EXCEPT ![p] = f] /\ UNCHANGED journal /\ children[l] # 0
    BY <1>8 DEF ReleaseBegin, Begin, disk
  <2> HIDE DEF f
  <2>4. ProcTyped' /\ Others(p) /\ proc'[p] = f
    BY <1>1, <2>2, <2>3, Started
  <2>5. Typed'
    BY <1>1, <1>4, <2>3, <2>4 DEF Typed
  <2>6. Begins(p, l)
    BY <1>1, <1>4, <1>5, <2>2, <2>3, <2>4 DEF Begins, At
  <2> QED
    BY <1>1, <2>5, <2>6, BeginSessions DEF IInv
<1>9. CASE AttachBegin(p, c, l)
  <2> DEFINE f == Call("reattach", "attach", l, journal[l], 0, c, TRUE)
  <2>1. journal[l] \in Journals
    BY <1>3, <1>9 DEF AttachBegin, RetainedOK
  <2>2. /\ f \in Frames /\ f.l = l /\ f.j \in Journals /\ f.pc = "reattach" /\ f.s = 0
        /\ f.op = "attach"
    BY <2>1 DEF Call, Frames, Steps, Ops
  <2>3. /\ proc' = [proc EXCEPT ![p] = f] /\ UNCHANGED journal
        /\ record[l] /\ children[l] = 0
    BY <1>9 DEF AttachBegin, RetainedOK, Begin, disk
  <2> HIDE DEF f
  <2>4. ProcTyped' /\ Others(p) /\ proc'[p] = f
    BY <1>1, <2>2, <2>3, Started
  <2>5. Typed'
    BY <1>1, <1>4, <2>3, <2>4 DEF Typed
  <2>6. Begins(p, l)
    BY <1>1, <1>4, <1>5, <2>2, <2>3, <2>4 DEF Begins, At
  <2> QED
    BY <1>1, <2>5, <2>6, BeginSessions DEF IInv
<1>10. CASE RemoveBegin(p, c, l)
  <2> DEFINE f == Call(IF children[l] = 0 THEN "reattach" ELSE "native", "remove", l,
                       journal[l], children[l], c, FALSE)
  <2>1. journal[l] \in Journals
    BY <1>3, <1>10 DEF RemoveBegin, RetainedOK
  <2>2. /\ f \in Frames /\ f.l = l /\ f.j \in Journals /\ f.s = children[l]
        /\ f.pc = IF children[l] = 0 THEN "reattach" ELSE "native"
        /\ f.op = "remove" /\ ~f.keep
    BY <1>1, <2>1 DEF Call, Frames, Steps, Ops, Typed
  <2>3. proc' = [proc EXCEPT ![p] = f] /\ UNCHANGED journal /\ record[l]
    BY <1>10 DEF RemoveBegin, RetainedOK, Begin, disk
  <2> HIDE DEF f
  <2>4. ProcTyped' /\ Others(p) /\ proc'[p] = f
    BY <1>1, <2>2, <2>3, Started
  <2>5. Typed'
    BY <1>1, <1>4, <2>3, <2>4 DEF Typed
  <2>6. Begins(p, l)
    BY <1>1, <1>4, <1>5, <2>2, <2>3, <2>4 DEF Begins, At
  <2> QED
    BY <1>1, <2>5, <2>6, BeginSessions DEF IInv
<1> QED
  BY <1>2, <1>6, <1>7, <1>8, <1>9, <1>10

\* The steps of acquire.
LEMMA AcquireStep ==
    ASSUME IInv, NEW p \in Procs, IOFaults = FALSE, Acquire(p)
    PROVE  IInv'
<1> DEFINE l == proc[p].l
<1>1. Typed /\ (proc[p].pc \notin {"idle", "next"} => l \in Leases /\ proc[p].j \in Journals)
  BY DEF IInv, Typed, ProcTyped
<1>2. CASE AcquireOwner(p)
  <2>1. /\ At(p, "owner") /\ UNCHANGED <<record, live, attaches, children, todo>>
        /\ l \in Leases /\ proc[p].j \in Journals /\ proc[p].pc = "owner"
    BY <1>1, <1>2 DEF AcquireOwner, At
  <2>2. ws' \in [Leases -> {"bare", "marked", "unmarked", "gone"}] /\ WorkspacesStay
    BY <1>1, <1>2, <2>1 DEF AcquireOwner, Typed, WorkspacesStay, Gone, Lease
  <2>3. Still
    BY <2>1, <2>2 DEF Still
  <2>4. CASE Goto(p, "create") /\ UNCHANGED journal
    <3>1. ProcTyped' /\ Others(p) /\ Same(p) /\ proc'[p].pc = "create"
      BY <1>1, <2>1, <2>4, Went DEF Steps
    <3>2. Quiet(p)
      BY <2>1, <2>3, <3>1 DEF Quiet
    <3>3. Typed'
      BY <1>1, <2>1, <2>2, <2>4, <3>1 DEF Typed
    <3> QED
      BY <3>2, <3>3, QuietSessions DEF IInv
  <2>5. CASE RemoveLease(l) /\ Return(p)
    <3>1. ProcTyped' /\ Others(p) /\ Stopped(p)
      BY <1>1, <2>5, Returned
    <3>2. Sessions'
      BY <2>1, <2>3, <3>1, StopSessions DEF Sessionless
    <3>3. Typed'
      BY <1>1, <2>1, <2>2, <2>5, <3>1 DEF Typed, RemoveLease
    <3> QED
      BY <3>2, <3>3 DEF IInv
  <2> QED
    BY <1>2, <2>4, <2>5 DEF AcquireOwner, Lease
<1>3. CASE AcquireCreate(p)
  <2> DEFINE j == [proc[p].j EXCEPT !.state = "acquiring"]
  <2>1. /\ UNCHANGED <<ws, record, live, attaches, children, todo>>
        /\ l \in Leases /\ proc[p].j \in Journals /\ proc[p].pc = "create"
        /\ WriteLease(l, j) /\ proc' = [proc EXCEPT ![p].pc = "mount", ![p].j = j]
    BY <1>1, <1>3 DEF AcquireCreate, At, Lease
  <2>2. j \in Journals
    BY <2>1, JournalStates DEF States
  <2> HIDE DEF j
  <2>3. ProcTyped' /\ Others(p) /\ Same(p) /\ proc'[p].pc = "mount"
    BY <1>1, <2>1, <2>2, Went DEF Steps
  <2>4. Quiet(p)
    BY <2>1, <2>3 DEF Quiet, Still, WorkspacesStay, Gone
  <2>5. Typed'
    BY <1>1, <2>1, <2>2, <2>3, Journaled DEF Typed
  <2> QED
    BY <2>4, <2>5, QuietSessions DEF IInv
<1>4. CASE AcquireMount(p)
  <2>1. /\ UNCHANGED <<ws, record, children, todo>>
        /\ l \in Leases /\ proc[p].j \in Journals /\ proc[p].pc = "mount"
        /\ WriteLease(l, proc[p].j) /\ Attachable(l) /\ Attached(l)
        /\ proc' = [proc EXCEPT ![p].pc = "ready", ![p].s = attaches[l] + 1]
    BY <1>1, <1>4 DEF AcquireMount, At, Lease
  <2>2. attaches[l] + 1 \in Nat
    BY <1>1, <2>1 DEF Typed
  <2>3. /\ ProcTyped' /\ Others(p) /\ proc'[p].pc = "ready"
        /\ proc'[p].s = attaches[l] + 1 /\ proc'[p].l = proc[p].l
        /\ proc'[p].op = proc[p].op /\ proc'[p].keep = proc[p].keep
    BY <1>1, <2>1, <2>2, Mounted DEF Steps
  <2>4. Attaches(p)
    BY <1>1, <2>1, <2>3 DEF Attaches, Attachable, Attached, WorkspacesStay, Gone, Typed
  <2>5. Typed'
    BY <1>1, <2>1, <2>2, <2>3, Journaled DEF Typed, Attached
  <2> QED
    BY <2>4, <2>5, AttachSessions DEF IInv
<1>5. CASE AcquireFails(p)
  <2>1. /\ UNCHANGED <<record, live, attaches, children, todo>>
        /\ l \in Leases /\ proc[p].j \in Journals /\ proc[p].pc \in {"create", "mount"}
    BY <1>1, <1>5 DEF AcquireFails, At
  <2>2. ws' \in [Leases -> {"bare", "marked", "unmarked", "gone"}] /\ WorkspacesStay
    BY <1>1, <1>5, <2>1 DEF AcquireFails, Typed, WorkspacesStay, Gone, Lease
  <2>3. /\ journal' \in [Leases -> Journals \cup {Absent}]
        /\ ProcTyped' /\ Others(p) /\ Stopped(p)
    <3>1. CASE RemoveLease(l) /\ Return(p)
      BY <1>1, <3>1, Returned DEF RemoveLease, Typed
    <3>2. CASE Quarantine(p)
      BY <1>1, <2>1, <3>2, Quarantined
    <3> QED
      BY <1>5, <3>1, <3>2 DEF AcquireFails, Lease
  <2>4. Sessions'
    BY <2>1, <2>2, <2>3, StopSessions DEF Sessionless, Still
  <2>5. Typed'
    BY <1>1, <2>1, <2>2, <2>3 DEF Typed
  <2> QED
    BY <2>4, <2>5 DEF IInv
<1>6. CASE AcquireReady(p)
  <2> DEFINE j == [proc[p].j EXCEPT !.state = "ready", !.ident = TRUE]
  <2>1. /\ UNCHANGED <<ws, record, live, attaches, children, todo>>
        /\ l \in Leases /\ proc[p].j \in Journals /\ proc[p].pc = "ready"
        /\ WriteLease(l, j) /\ proc' = [proc EXCEPT ![p].pc = "register", ![p].j = j]
    BY <1>1, <1>6 DEF AcquireReady, At, Lease
  <2>2. j \in Journals
    BY <2>1, JournalStates
  <2> HIDE DEF j
  <2>3. ProcTyped' /\ Others(p) /\ Same(p) /\ proc'[p].pc = "register"
    BY <1>1, <2>1, <2>2, Went DEF Steps
  <2>4. Quiet(p)
    BY <2>1, <2>3 DEF Quiet, Still, WorkspacesStay, Gone
  <2>5. Typed'
    BY <1>1, <2>1, <2>2, <2>3, Journaled DEF Typed
  <2> QED
    BY <2>4, <2>5, QuietSessions DEF IInv
<1>7. CASE AcquireReadyFails(p)
  BY <1>7 DEF AcquireReadyFails
<1>8. CASE Register(p)
  <2>1. /\ UNCHANGED <<journal, ws, record, live, attaches, todo>> /\ Return(p)
        /\ l \in Leases /\ children' = [children EXCEPT ![l] = proc[p].s]
    BY <1>1, <1>8 DEF Register, At, Lease, disk
  <2>2. proc[p].s \in Nat
    BY <1>1 DEF Typed, ProcTyped, Frames
  <2>3. Typed'
    BY <1>1, <2>1, <2>2, Returned DEF Typed
  <2> QED
    BY <1>8, <2>3, RegisterSessions DEF IInv
<1> QED
  BY <1>2, <1>3, <1>4, <1>5, <1>6, <1>7, <1>8 DEF Acquire

\* The steps of release, which remove-retained and Recover share.
LEMMA ReleaseStep ==
    ASSUME IInv, NEW p \in Procs, IOFaults = FALSE, Release(p)
    PROVE  IInv'
<1> DEFINE l == proc[p].l
<1>1. Typed /\ (proc[p].pc \notin {"idle", "next"} => l \in Leases /\ proc[p].j \in Journals)
  BY DEF IInv, Typed, ProcTyped
<1>2. CASE WriteFails(p) \/ NativeReleaseFails(p)
  BY <1>2 DEF WriteFails, NativeReleaseFails
<1>3. CASE ReleaseMark(p)
  <2>1. /\ UNCHANGED <<ws, record, live, attaches, children, todo>>
        /\ l \in Leases /\ proc[p].j \in Journals /\ proc[p].pc = "mark"
        /\ WriteLease(l, proc[p].j) /\ Goto(p, "native")
    BY <1>1, <1>3 DEF ReleaseMark, At, Lease
  <2>2. ProcTyped' /\ Others(p) /\ Same(p) /\ proc'[p].pc = "native"
    BY <1>1, <2>1, Went DEF Steps
  <2>3. Quiet(p)
    BY <2>1, <2>2 DEF Quiet, Still, WorkspacesStay, Gone
  <2>4. Typed'
    BY <1>1, <2>1, <2>2, Journaled DEF Typed
  <2> QED
    BY <2>3, <2>4, QuietSessions DEF IInv
<1>4. CASE NativeRelease(p)
  <2> DEFINE step == IF proc[p].keep THEN "retain" ELSE "cleanup"
             j == [proc[p].j EXCEPT !.state = IF proc[p].op = "release"
                                              THEN "released" ELSE @]
  <2>1. /\ UNCHANGED <<journal, ws, record, attaches, children, todo>>
        /\ l \in Leases /\ proc[p].j \in Journals /\ proc[p].pc = "native"
    BY <1>1, <1>4 DEF NativeRelease, At
  <2>2. j \in Journals /\ step \in Steps \ {"next"}
    BY <2>1 DEF Journals, States, Steps
  <2>3. proc' = [proc EXCEPT ![p].pc = step, ![p].j = j]
    BY <1>4 DEF NativeRelease
  <2> HIDE DEF step, j
  <2>4. ProcTyped'
    BY <1>1, <2>1, <2>2, <2>3, Went
  <2>5. live' \in [Leases -> Nat]
    BY <1>1, <1>4, <2>1 DEF NativeRelease, Released, Lease, Typed
  <2>6. Typed'
    BY <1>1, <2>1, <2>4, <2>5 DEF Typed
  <2> QED
    BY <1>4, <2>6, NativeSessions DEF IInv
<1>5. CASE ReleaseRetain(p)
  <2>1. /\ UNCHANGED <<ws, record, live, attaches, children, todo>>
        /\ l \in Leases /\ proc[p].j \in Journals /\ proc[p].pc = "retain"
        /\ WriteLease(l, proc[p].j) /\ Goto(p, "record")
    BY <1>1, <1>5 DEF ReleaseRetain, At, Lease
  <2>2. ProcTyped' /\ Others(p) /\ Same(p) /\ proc'[p].pc = "record"
    BY <1>1, <2>1, Went DEF Steps
  <2>3. Quiet(p)
    BY <2>1, <2>2 DEF Quiet, Still, WorkspacesStay, Gone
  <2>4. Typed'
    BY <1>1, <2>1, <2>2, Journaled DEF Typed
  <2> QED
    BY <2>3, <2>4, QuietSessions DEF IInv
<1>6. CASE ReleaseRecord(p)
  <2>1. /\ UNCHANGED <<journal, ws, live, attaches, children, todo>>
        /\ l \in Leases /\ proc[p].j \in Journals /\ proc[p].pc = "record"
    BY <1>1, <1>6 DEF ReleaseRecord, At
  <2>2. CASE ~record[l] /\ record' = [record EXCEPT ![l] = TRUE] /\ Goto(p, "forget")
    <3>1. ProcTyped'
      BY <1>1, <2>1, <2>2, Went DEF Steps
    <3>2. Typed'
      BY <1>1, <2>1, <2>2, <3>1 DEF Typed
    <3> QED
      BY <1>6, <2>2, <3>2, RecordSessions DEF IInv
  <2>3. CASE Return(p) /\ UNCHANGED record
    <3>1. ProcTyped' /\ Others(p) /\ Stopped(p)
      BY <1>1, <2>3, Returned
    <3>2. Sessions'
      BY <2>1, <2>3, <3>1, StopSessions DEF Spent, Still, WorkspacesStay, Gone
    <3>3. Typed'
      BY <1>1, <2>1, <2>3, <3>1 DEF Typed
    <3> QED
      BY <3>2, <3>3 DEF IInv
  <2> QED
    BY <1>6, <2>2, <2>3 DEF ReleaseRecord, Lease
<1>7. CASE CleanupWorkspace(p)
  <2>1. /\ UNCHANGED <<record, live, attaches, children, todo>>
        /\ l \in Leases /\ proc[p].j \in Journals /\ proc[p].pc = "cleanup"
    BY <1>1, <1>7 DEF CleanupWorkspace, At
  <2>2. CASE /\ Removable(l) \/ Gone(l)
             /\ ws' = [ws EXCEPT ![l] = "gone"] /\ Goto(p, "unlist") /\ UNCHANGED journal
    <3>1. ProcTyped'
      BY <1>1, <2>1, <2>2, Went DEF Steps
    <3>2. Typed'
      BY <1>1, <2>1, <2>2, <3>1 DEF Typed
    <3> QED
      BY <1>7, <2>2, <3>2, CleanupSessions DEF IInv, Lease
  <2>3. CASE Quarantine(p) /\ UNCHANGED ws
    <3>1. /\ journal' \in [Leases -> Journals \cup {Absent}]
          /\ ProcTyped' /\ Others(p) /\ Stopped(p)
      BY <1>1, <2>1, <2>3, Quarantined
    <3>2. Sessions'
      BY <2>1, <2>3, <3>1, StopSessions DEF Spent, Still, WorkspacesStay, Gone
    <3>3. Typed'
      BY <1>1, <2>1, <2>3, <3>1 DEF Typed
    <3> QED
      BY <3>2, <3>3 DEF IInv
  <2> QED
    BY <1>7, <2>2, <2>3 DEF CleanupWorkspace, Lease, Gone
<1>8. CASE Unlist(p)
  <2>1. /\ UNCHANGED <<ws, record, live, attaches, children>>
        /\ l \in Leases /\ proc[p].j \in Journals /\ proc[p].pc = "unlist"
    BY <1>1, <1>8 DEF Unlist, At
  <2>2. Still
    BY <2>1 DEF Still, WorkspacesStay, Gone
  <2>3. CASE /\ RemoveLease(l) /\ UNCHANGED todo
             /\ Goto(p, IF proc[p].op = "remove" THEN "unrecord" ELSE "forget")
    <3> DEFINE step == IF proc[p].op = "remove" THEN "unrecord" ELSE "forget"
    <3>1. step \in Steps \ {"next"} /\ step \in {"unrecord", "forget"} /\ Goto(p, step)
      BY <2>3 DEF Steps
    <3> HIDE DEF step
    <3>2. ProcTyped' /\ Others(p) /\ Same(p) /\ proc'[p].pc = step
      BY <1>1, <2>1, <3>1, Went
    <3>3. Quiet(p)
      BY <2>1, <2>2, <3>1, <3>2 DEF Quiet
    <3>4. Typed'
      BY <1>1, <2>1, <2>3, <3>2 DEF Typed, RemoveLease
    <3> QED
      BY <3>3, <3>4, QuietSessions DEF IInv
  <2>4. CASE /\ UNCHANGED journal
             /\ IF p = Recoverer THEN AbortPass ELSE Return(p) /\ UNCHANGED <<todo, up>>
    <3>1. ProcTyped' /\ Others(p) /\ Stopped(p) /\ todo' \subseteq todo
      <4>1. CASE p = Recoverer
        BY <1>1, <2>4, <4>1, Aborted DEF AbortPass
      <4>2. CASE p # Recoverer
        BY <1>1, <2>4, <4>2, Returned
      <4> QED
        BY <4>1, <4>2
    <3>2. Sessions'
      BY <2>1, <2>2, <3>1, StopSessions DEF Spent
    <3>3. Typed'
      BY <1>1, <2>1, <2>4, <3>1 DEF Typed
    <3> QED
      BY <3>2, <3>3 DEF IInv
  <2> QED
    BY <1>8, <2>3, <2>4 DEF Unlist, Lease
<1>9. CASE Forget(p)
  <2>1. /\ UNCHANGED <<journal, ws, record, live, attaches, todo>> /\ Return(p)
        /\ l \in Leases
        /\ children' = IF proc[p].s = 0 THEN children ELSE [children EXCEPT ![l] = 0]
    BY <1>1, <1>9 DEF Forget, At, Lease, disk
  <2>2. Typed'
    BY <1>1, <2>1, Returned DEF Typed
  <2> QED
    BY <1>9, <2>2, ForgetSessions DEF IInv
<1> QED
  BY <1>2, <1>3, <1>4, <1>5, <1>6, <1>7, <1>8, <1>9 DEF Release

\* The heartbeat, and the steps of attach-retained and remove-retained.
LEMMA RetainedStep ==
    ASSUME IInv, NEW p \in Procs, IOFaults = FALSE, HeartbeatWrite(p) \/ Retained(p)
    PROVE  IInv'
<1> DEFINE l == proc[p].l
<1>1. Typed /\ (proc[p].pc \notin {"idle", "next"} => l \in Leases /\ proc[p].j \in Journals)
  BY DEF IInv, Typed, ProcTyped
<1>2. CASE HeartbeatWrite(p)
  <2>1. /\ UNCHANGED <<ws, record, live, attaches, children, todo>>
        /\ l \in Leases /\ proc[p].j \in Journals /\ proc[p].pc = "beat"
        /\ WriteLease(l, proc[p].j) /\ Return(p)
    BY <1>1, <1>2 DEF HeartbeatWrite, At, Lease
  <2>2. ProcTyped' /\ Others(p) /\ Stopped(p)
    BY <1>1, <2>1, Returned
  <2>3. Sessions'
    BY <2>1, <2>2, StopSessions DEF Sessionless, Still, WorkspacesStay, Gone
  <2>4. Typed'
    BY <1>1, <2>1, <2>2, Journaled DEF Typed
  <2> QED
    BY <2>3, <2>4 DEF IInv
<1>3. CASE Reattach(p)
  <2> DEFINE step == IF proc[p].op = "attach" THEN "rewrite" ELSE "native"
  <2>1. /\ UNCHANGED <<journal, ws, record, children, todo>>
        /\ l \in Leases /\ proc[p].j \in Journals /\ proc[p].pc = "reattach"
        /\ Attachable(l) /\ Attached(l)
        /\ proc' = [proc EXCEPT ![p].pc = step, ![p].s = attaches[l] + 1]
    BY <1>1, <1>3 DEF Reattach, At, Lease
  <2>2. attaches[l] + 1 \in Nat /\ step \in Steps \ {"next"}
    BY <1>1, <2>1 DEF Typed, Steps
  <2>3. /\ proc[p].op = "attach" => step = "rewrite"
        /\ proc[p].op # "attach" => step = "native"
    OBVIOUS
  <2> HIDE DEF step
  <2>4. /\ ProcTyped' /\ Others(p) /\ proc'[p].pc = step
        /\ proc'[p].s = attaches[l] + 1 /\ proc'[p].l = proc[p].l
        /\ proc'[p].op = proc[p].op /\ proc'[p].keep = proc[p].keep
    <3>1. proc[p].pc \notin {"idle", "next"}
      BY <2>1
    <3> QED
      BY <1>1, <2>1, <2>2, <3>1, Mounted
  <2>5. Attaches(p)
    BY <1>1, <2>1, <2>3, <2>4 DEF Attaches, Attachable, Attached, WorkspacesStay, Gone, Typed
  <2>6. Typed'
    BY <1>1, <2>1, <2>2, <2>4 DEF Typed, Attached
  <2> QED
    BY <2>5, <2>6, AttachSessions DEF IInv
<1>4. CASE ReattachFails(p)
  <2>1. /\ UNCHANGED <<ws, record, live, attaches, children, todo>>
        /\ l \in Leases /\ proc[p].j \in Journals /\ proc[p].pc = "reattach"
        /\ Quarantine(p) \/ (Return(p) /\ UNCHANGED journal)
    BY <1>1, <1>4 DEF ReattachFails, At
  <2>2. /\ journal' \in [Leases -> Journals \cup {Absent}]
        /\ ProcTyped' /\ Others(p) /\ Stopped(p)
    <3>1. CASE Quarantine(p)
      BY <1>1, <2>1, <3>1, Quarantined
    <3>2. CASE Return(p) /\ UNCHANGED journal
      BY <1>1, <3>2, Returned DEF Typed
    <3> QED
      BY <2>1, <3>1, <3>2
  <2>3. Sessions'
    BY <2>1, <2>2, StopSessions DEF Sessionless, Still, WorkspacesStay, Gone
  <2>4. Typed'
    BY <1>1, <2>1, <2>2 DEF Typed
  <2> QED
    BY <2>3, <2>4 DEF IInv
<1>5. CASE AttachRewrite(p)
  <2> DEFINE j == [proc[p].j EXCEPT !.state = "ready"]
  <2>1. /\ UNCHANGED <<ws, record, live, attaches, children, todo>>
        /\ l \in Leases /\ proc[p].j \in Journals /\ proc[p].pc = "rewrite"
        /\ WriteLease(l, j) /\ proc' = [proc EXCEPT ![p].pc = "register", ![p].j = j]
    BY <1>1, <1>5 DEF AttachRewrite, At, Lease
  <2>2. j \in Journals
    BY <2>1, JournalStates DEF States
  <2> HIDE DEF j
  <2>3. ProcTyped' /\ Others(p) /\ Same(p) /\ proc'[p].pc = "register"
    BY <1>1, <2>1, <2>2, Went DEF Steps
  <2>4. Quiet(p)
    BY <2>1, <2>3 DEF Quiet, Still, WorkspacesStay, Gone
  <2>5. Typed'
    BY <1>1, <2>1, <2>2, <2>3, Journaled DEF Typed
  <2> QED
    BY <2>4, <2>5, QuietSessions DEF IInv
<1>6. CASE Unrecord(p)
  <2>1. /\ UNCHANGED <<journal, ws, live, attaches, children, todo>>
        /\ l \in Leases /\ proc[p].j \in Journals /\ proc[p].pc = "unrecord"
    BY <1>1, <1>6 DEF Unrecord, At
  <2>2. CASE record' = [record EXCEPT ![l] = FALSE] /\ Goto(p, "forget")
    <3>1. ProcTyped'
      BY <1>1, <2>1, <2>2, Went DEF Steps
    <3>2. Typed'
      BY <1>1, <2>1, <2>2, <3>1 DEF Typed
    <3> QED
      BY <1>6, <2>2, <3>2, UnrecordSessions DEF IInv, Lease
  <2>3. CASE Return(p) /\ UNCHANGED record
    <3>1. ProcTyped' /\ Others(p) /\ Stopped(p)
      BY <1>1, <2>3, Returned
    <3>2. Sessions'
      BY <2>1, <2>3, <3>1, StopSessions DEF Spent, Still, WorkspacesStay, Gone
    <3>3. Typed'
      BY <1>1, <2>1, <2>3, <3>1 DEF Typed
    <3> QED
      BY <3>2, <3>3 DEF IInv
  <2> QED
    BY <1>6, <2>2, <2>3 DEF Unrecord, Lease
<1> QED
  BY <1>2, <1>3, <1>4, <1>5, <1>6 DEF Retained

\* Nothing that the invariant is about changes.
LEMMA NothingChanges ==
    ASSUME IInv, todo' \subseteq todo,
           UNCHANGED <<journal, ws, record, live, attaches, children, proc>>
    PROVE  IInv'
<1>1. Typed'
  BY DEF IInv, Typed, ProcTyped
<1>2. Numbered' /\ SessionKnown' /\ RightOp'
  BY DEF IInv, Sessions, Numbered, SessionKnown, RightOp, Gone
<1>3. RetainSession' /\ ForgetsOwn' /\ AttachHasRecord' /\ AcquireAlone' /\ NoLostSession'
  BY DEF IInv, Sessions, RetainSession, ForgetsOwn, AttachHasRecord, AcquireAlone,
         NoLostSession, Gone
<1> QED
  BY <1>1, <1>2, <1>3 DEF IInv, Sessions

\* The Recover pass itself.
LEMMA RecoverStep ==
    ASSUME IInv, IOFaults = FALSE, Recover
    PROVE  IInv'
<1>1. Typed /\ Recoverer \in Procs
  BY DEF IInv, Procs
<1>2. CASE RecoverList \/ RecoverDone
  <2>1. /\ UNCHANGED <<journal, ws, record, live, attaches, children>>
        /\ proc[Recoverer].pc \in Sessionless /\ todo' \in SUBSET [l : Leases, j : Journals]
    BY <1>1, <1>2 DEF RecoverList, RecoverDone, disk, At, Sessionless, Typed
  <2>2. ProcTyped' /\ Others(Recoverer) /\ Stopped(Recoverer)
    <3>1. CASE RecoverList
      BY <1>1, <3>1, Returned DEF RecoverList, Return
    <3>2. CASE RecoverDone
      BY <1>1, <3>2, Aborted DEF RecoverDone
    <3> QED
      BY <1>2, <3>1, <3>2
  <2>3. Sessions'
    BY <1>1, <2>1, <2>2, StopSessions DEF Still, WorkspacesStay, Gone
  <2>4. Typed'
    BY <1>1, <2>1, <2>2 DEF Typed
  <2> QED
    BY <2>3, <2>4 DEF IInv
<1>3. CASE RecoverKeep
  BY <1>3, NothingChanges DEF RecoverKeep, disk
<1>4. CASE RecoverAborts
  BY <1>4 DEF RecoverAborts
<1>5. ASSUME NEW l \in Leases, RecoverReap(l)
      PROVE  IInv'
  <2>1. /\ UNCHANGED <<ws, record, live, attaches, children>>
        /\ proc[Recoverer].pc = "next"
    BY <1>5 DEF RecoverReap, At
  <2>2. PICK x \in todo :
         /\ x.l = l /\ todo' = todo \ {x}
         /\ \/ Resume("cleanup", l, x.j, 0) /\ UNCHANGED journal
            \/ Resume("native", l, x.j, children[l]) /\ UNCHANGED journal
            \/ /\ WriteLease(l, [x.j EXCEPT !.state = "recovering"])
               /\ Resume("reattach", l, [x.j EXCEPT !.state = "recovering"], 0)
    BY <1>5 DEF RecoverReap
  <2>3. x.j \in Journals /\ [x.j EXCEPT !.state = "recovering"] \in Journals
    BY <1>1, <2>2, JournalStates DEF Typed, States
  <2>4. PICK step \in {"cleanup", "native", "reattach"}, j \in Journals, s \in Nat :
          /\ Resume(step, l, j, s)
          /\ s = IF step = "native" THEN children[l] ELSE 0
    <3>1. children[l] \in Nat /\ 0 \in Nat
      BY <1>1 DEF Typed
    <3>2. CASE Resume("cleanup", l, x.j, 0)
      BY <2>3, <3>1, <3>2
    <3>3. CASE Resume("native", l, x.j, children[l])
      BY <2>3, <3>1, <3>3
    <3>4. CASE Resume("reattach", l, [x.j EXCEPT !.state = "recovering"], 0)
      BY <2>3, <3>1, <3>4
    <3> QED
      BY <2>2, <3>2, <3>3, <3>4
  <2> DEFINE f == Call(step, "recover", l, j, s, NoClient, FALSE)
  <2>5. /\ f \in Frames /\ f.l = l /\ f.j \in Journals /\ f.pc = step /\ f.s = s
        /\ f.op = "recover" /\ ~f.keep
    BY DEF Call, Frames, Steps, Ops
  <2>6. proc' = [proc EXCEPT ![Recoverer] = f]
    BY <2>4 DEF Resume
  <2> HIDE DEF f
  <2>7. ProcTyped' /\ Others(Recoverer) /\ proc'[Recoverer] = f
    BY <1>1, <2>5, <2>6, Started
  <2>8. Begins(Recoverer, l)
    BY <2>1, <2>4, <2>5, <2>7 DEF Begins, Still, WorkspacesStay, Gone
  <2>9. journal' \in [Leases -> Journals \cup {Absent}]
    BY <1>1, <2>2, <2>3, Journaled DEF Typed
  <2>10. Typed'
    BY <1>1, <2>1, <2>2, <2>7, <2>9 DEF Typed
  <2> QED
    BY <1>1, <2>8, <2>10, BeginSessions DEF IInv
<1> QED
  BY <1>2, <1>3, <1>4, <1>5 DEF Recover
-----------------------------------------------------------------------------
(* The theorem                                                             *)

\* The broker starts without leases.
LEMMA InitIInv ==
    ASSUME Init
    PROVE  IInv
<1>1. \A p \in Procs : proc[p] = Idle
  BY DEF Init, Procs
<1>2. NoLease \notin Leases
  BY SentinelsAssumption DEF SentinelsAssumption
<1>3. ProcTyped
  BY <1>1 DEF Init, ProcTyped, Procs, Idle, Frames
<1>4. Typed
  BY <1>3 DEF Init, Typed
<1>5. Numbered
  <2>1. \A l \in Leases :
          live[l] = 0 /\ attaches[l] = 0 /\ children[l] = 0 /\ record[l] = FALSE
    BY DEF Init
  <2> QED
    BY <1>1, <1>2, <2>1 DEF Numbered, Idle
<1>6. SessionKnown /\ RightOp
  BY <1>1 DEF SessionKnown, RightOp, Idle, Sessionless, Fresh, Spent, Procs
<1>7. RetainSession /\ ForgetsOwn /\ AttachHasRecord /\ AcquireAlone
  BY <1>1 DEF RetainSession, ForgetsOwn, AttachHasRecord, AcquireAlone, Idle, Procs
<1>8. NoLostSession
  BY DEF Init, NoLostSession
<1> QED
  BY <1>4, <1>5, <1>6, <1>7, <1>8 DEF IInv, Sessions

\* Every step keeps the invariant.
LEMMA StepIInv ==
    ASSUME IInv, IOFaults = FALSE, [Next]_vars
    PROVE  IInv'
<1>1. ASSUME NEW p \in Handlers, NEW c \in Clients, Requests(p, c)
      PROVE  IInv'
  BY <1>1, RequestStep
<1>2. ASSUME NEW p \in Procs, Handle(p)
      PROVE  IInv'
  BY <1>2, AcquireStep, ReleaseStep, RetainedStep DEF Handle
<1>3. CASE Recover
  BY <1>3, RecoverStep
<1>4. CASE Crash
  <2>1. Typed'
    <3>1. \A p \in Procs : proc'[p] = Idle
      BY <1>4 DEF Crash, Procs
    <3>2. ProcTyped'
      BY <1>4, <3>1 DEF Crash, ProcTyped, Procs, Idle, Frames
    <3> QED
      BY <1>4, <3>2 DEF Crash, IInv, Typed
  <2> QED
    BY <1>4, <2>1, CrashSessions DEF IInv
<1>5. CASE Start
  BY <1>5, NothingChanges DEF Start, disk
<1>6. ASSUME NEW c \in Clients, ClientDies(c)
      PROVE  IInv'
  BY <1>6, NothingChanges DEF ClientDies, disk
<1>7. CASE UNCHANGED vars
  BY <1>7, NothingChanges DEF vars, disk
<1> QED
  BY <1>1, <1>2, <1>3, <1>4, <1>5, <1>6, <1>7 DEF Next, Procs

\* Whatever the handlers, Recover passes and crashes do, and in whatever
\* order, the session of an attached disk is in the broker's map or in the
\* hands of a goroutine that will register or release it, as long as no
\* system call fails (broker.go).
THEOREM SessionsAreKept ==
    ASSUME IOFaults = FALSE
    PROVE  Spec => []NoLostSession
<1>1. Init => IInv
  BY InitIInv
<1>2. IInv /\ [Next]_vars => IInv'
  BY StepIInv
<1>3. IInv => NoLostSession
  BY DEF IInv, Sessions
<1> QED
  BY <1>1, <1>2, <1>3, PTL DEF Spec
=============================================================================
