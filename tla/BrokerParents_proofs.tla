------------------------ MODULE BrokerParents_proofs ------------------------
(***************************************************************************)
(* Theorems about the parents of the Windows broker, for every set of      *)
(* keys, builds, leases and handler goroutines and any number of failing   *)
(* calls and crashes:                                                      *)
(*                                                                         *)
(*   TypeCorrect      Spec => []TypeOK                                     *)
(*   NeverWrecked     Spec => []NoWreck                                    *)
(*   ParentsKept      Spec => []ReferencedParentKept                       *)
(*   CommitsStay      Spec => []CommittedStays                             *)
(*                                                                         *)
(* Nothing but file names keeps the handlers apart.  Control says that the *)
(* parent directory, which only one Mkdir can create, belongs to one       *)
(* commit until COMPLETE is written.  Orderly says, as long as no client   *)
(* has died and no build had two handlers, that the same holds for the     *)
(* pending directory: whoever finds his own transaction in it is the only  *)
(* one to touch what lies beside it.  Leased says what acquire and the     *)
(* collector know of each other.                                           *)
(*                                                                         *)
(* There is one lemma ...Step for each kind of step the actions take: what *)
(* it changes, then the conjuncts of IInv one by one, then those of        *)
(* Orderly for the undisputed case.  The lemmas ...Keeps take the actions  *)
(* apart into such steps.                                                  *)
(***************************************************************************)
EXTENDS BrokerParents, TLAPS

\* Handlers that work on a build, on a lease, on a collection.
Building == {"write", "native", "detach", "verify", "read", "publish", "move",
             "metadata", "complete", "close", "check", "unlist", "rmdir"}
Committing == {"detach", "verify", "read", "publish", "move", "metadata", "complete"}
Publishing == {"move", "metadata", "complete"}
Leasing == {"touch", "admit", "journal", "child"}
Collecting == {"protect", "list", "collect"}

\* What the local variables of a handler are at its steps.
HasKey ==
    \A h \in Handlers :
        /\ proc[h].pc = "idle" => proc[h] = Idle
        /\ proc[h].pc \in {"recheck", "mkdir"} =>
              proc[h].k \in Keys /\ proc[h].b = Nothing /\ proc[h].l = Nothing
                /\ proc[h].then = "answer"
        /\ proc[h].pc \in Building =>
              /\ proc[h].b \in Builds /\ proc[h].k \in Keys /\ proc[h].l = Nothing
              /\ key[proc[h].b] = proc[h].k
        /\ proc[h].pc \in Leasing =>
              proc[h].l \in Leases /\ proc[h].k \in Keys /\ proc[h].b = Nothing
        /\ proc[h].pc \in Collecting =>
              /\ proc[h].b = Nothing
              /\ proc[h].then = "journal" => proc[h].l \in Leases
              /\ proc[h].l \in Leases => proc[h].k \in Keys
        /\ proc[h].then = "commit" => proc[h].pc \in Committing \cup {"unlist", "rmdir"}

\* A lease has one handler at a time, and a build as long as nothing is
\* contested; a build with a session has a key; Recover knows what it reaps.
OneHandler ==
    /\ contested = {} =>
          \A g, h \in Handlers : proc[g].b = proc[h].b /\ proc[h].b # Nothing => g = h
    /\ \A g, h \in Handlers : proc[g].l = proc[h].l /\ proc[h].l # Nothing => g = h
    /\ \A b \in Builds : session[b] # "none" => key[b] \in Keys
    /\ reaper.pc # "idle" => reaper.k \in Keys /\ reaper.b \in Builds

\* A parent directory belongs to the commit that made it.
OnePublisher ==
    \A h \in Handlers : proc[h].pc \in Publishing =>
        /\ parent[proc[h].k].dir /\ ~parent[proc[h].k].complete
        /\ \A g \in Handlers \ {h} :
              proc[g].k = proc[h].k => proc[g].pc \notin Publishing

Control == HasKey /\ OneHandler /\ OnePublisher

\* The pending directory of a key holds the image of its own transaction,
\* and a session is that of the transaction its key's directory names, or is
\* closed and the directory stranded.
PendingKnown ==
    /\ \A k \in Keys : pending[k] \in Builds => key[pending[k]] = k
    /\ \A k \in Keys : staging[k] # Nothing => staging[k] = pending[k]
    /\ \A b \in Builds : session[b] # "none" =>
          \/ pending[key[b]] = b
          \/ \E h \in Handlers : proc[h].b = b /\ proc[h].pc = "rmdir"
          \/ key[b] \in stranded /\ session[b] # "open"
    /\ \A k \in stranded : pending[k] = Bare

\* Whoever works on a build finds it in the pending directory, until he has
\* removed its pending.json.
BuildKnown ==
    \A h \in Handlers :
        /\ proc[h].pc = "write" => pending[proc[h].k] = Bare
        /\ proc[h].pc = "rmdir" => pending[proc[h].k] \in {Bare, proc[h].b}
        /\ proc[h].pc \in {"write", "rmdir"} =>
              /\ proc[h].k \notin stranded
              /\ \A g \in Handlers \ {h} :
                    proc[g].k = proc[h].k => proc[g].pc \notin {"write", "rmdir"}
        /\ proc[h].pc \in {"close", "check"} =>
              \/ pending[proc[h].k] = proc[h].b
              \/ proc[h].k \in stranded /\ session[proc[h].b] # "open"
        /\ proc[h].pc \in Building \ {"write", "rmdir", "close", "check"} =>
              pending[proc[h].k] = proc[h].b
        /\ proc[h].pc \in {"metadata", "complete", "unlist"} =>
              staging[proc[h].k] = Nothing

\* What a commit knows of its disk and its image.
ImageKnown ==
    \A h \in Handlers :
        /\ proc[h].pc \in Building \ {"detach", "close"} => session[proc[h].b] # "open"
        /\ proc[h].pc \in {"read", "publish", "move"} =>
              staging[proc[h].k] = proc[h].b
        /\ proc[h].pc = "move" => parent[proc[h].k].vhdx = Nothing
        /\ proc[h].pc \in {"metadata", "complete"} =>
              parent[proc[h].k].vhdx = proc[h].b
        /\ proc[h].pc = "complete" => parent[proc[h].k].metadata = proc[h].b

\* The parent of build b is there, or was collected.
Published(b) ==
    b \in collected \/ (Verified(key[b]) /\ parent[key[b]].vhdx = b)

CommitKnown ==
    /\ \A h \in Handlers :
          proc[h].then = "commit" /\ proc[h].pc \in {"unlist", "rmdir"} =>
              Published(proc[h].b)
    /\ \A b \in answered : key[b] \in Keys /\ Published(b)

Orderly ==
    Undisputed =>
        /\ reaper.pc = "idle"
        /\ PendingKnown /\ BuildKnown /\ ImageKnown /\ CommitKnown

\* A child has a journal and no handler; a journal is written before the
\* child is made.
JournalKnown ==
    /\ \A l \in Leases : child[l] # Nothing =>
          journal[l] # Nothing /\ \A h \in Handlers : proc[h].l # l
    /\ \A h \in Handlers : proc[h].l \in Leases =>
          journal[proc[h].l] = IF proc[h].pc = "child" THEN proc[h].k ELSE Nothing

\* No collection has k on its list.
Spared(h, k) ==
    /\ proc[h].pc = "list" => k \in proc[h].active
    /\ proc[h].pc = "collect" => k \notin proc[h].listed

\* A journal protects the parent it names, if no collection overtook it.
JournalProtects ==
    \A l \in Leases \ overtaken : journal[l] # Nothing =>
        /\ Verified(journal[l])
        /\ child[l] # Nothing => parent[journal[l]].vhdx = child[l]
        /\ \A h \in Handlers : Spared(h, journal[l])

\* Before it is written, only the acquire itself collects, and it has made
\* its parent fresh.
TouchProtects ==
    \A h \in Handlers :
        proc[h].l \in Leases \ overtaken /\ proc[h].pc # "child" =>
            /\ Verified(proc[h].k)
            /\ proc[h].pc # "touch" => proc[h].k \in fresh
            /\ proc[h].pc = "collect" => proc[h].k \notin proc[h].listed
            /\ \A g \in Handlers \ {h} : proc[g].pc \notin {"list", "collect"}

Leased == JournalKnown /\ JournalProtects /\ TouchProtects

IInv == TypeOK /\ Control /\ Orderly /\ NoWreck /\ Leased
-----------------------------------------------------------------------------
(* What steps do                                                           *)

\* The other handlers stay where they are.
Others(h) == \A g \in Handlers \ {h} : proc'[g] = proc[g]

\* The handler goes on with the same request.
Same(h) ==
    /\ proc'[h].k = proc[h].k /\ proc'[h].b = proc[h].b /\ proc'[h].l = proc[h].l
    /\ proc'[h].active = proc[h].active /\ proc'[h].listed = proc[h].listed
    /\ proc'[h].then = proc[h].then

\* A call may have failed.
Ticks == faults' \in 0..MaxFaults /\ (faults' = 0 => faults = 0) /\ UNCHANGED crashes

\* No key, build or lease is called "nothing", and no build "bare".
LEMMA Sentinels ==
    /\ Nothing \notin Builds /\ Nothing \notin Keys /\ Nothing \notin Leases
    /\ Bare \notin Builds /\ Bare # Nothing
BY SentinelsAssumption DEF SentinelsAssumption, Nothing, Bare

\* Records of parent directories and handlers.
LEMMA Records ==
    /\ NoDir \in ParentDirs /\ EmptyDir \in ParentDirs /\ Idle \in Locals
    /\ ~NoDir.dir /\ ~NoDir.complete /\ NoDir.vhdx = Nothing /\ NoDir.metadata = Nothing
    /\ EmptyDir.dir /\ ~EmptyDir.complete /\ EmptyDir.vhdx = Nothing
    /\ EmptyDir.metadata = Nothing
    /\ Idle.pc = "idle" /\ Idle.b = Nothing /\ Idle.l = Nothing /\ Idle.k = Nothing
    /\ Idle.then = "answer"
BY DEF NoDir, EmptyDir, ParentDirs, Image, Idle, Locals, Steps

\* A failing call is counted, and ends the calm.
LEMMA Counted ==
    ASSUME TypeOK
    PROVE  Fault \/ UNCHANGED bounds => Ticks
BY ConstantsAssumption DEF ConstantsAssumption, TypeOK, Fault, bounds, Ticks

\* A handler answers.
LEMMA Returned ==
    ASSUME TypeOK, NEW h \in Handlers, Return(h)
    PROVE  proc' \in [Handlers -> Locals] /\ Others(h) /\ proc'[h] = Idle
<1>1. proc \in [Handlers -> Locals] /\ proc' = [proc EXCEPT ![h] = Idle]
  BY DEF TypeOK, Return
<1> QED
  BY <1>1, Records DEF Others

\* A handler goes on to its next step.
LEMMA Went ==
    ASSUME TypeOK, NEW h \in Handlers, NEW step \in Steps, Goto(h, step)
    PROVE  /\ proc' \in [Handlers -> Locals] /\ Others(h) /\ Same(h)
           /\ proc'[h].pc = step
<1>1. proc \in [Handlers -> Locals] /\ proc' = [proc EXCEPT ![h].pc = step]
  BY DEF TypeOK, Goto
<1>2. proc'[h] = [proc[h] EXCEPT !.pc = step] /\ proc[h] \in Locals /\ Others(h)
  BY <1>1 DEF Others
<1>3. proc'[h] \in Locals /\ Same(h) /\ proc'[h].pc = step
  BY <1>2 DEF Locals, Same
<1>4. proc' \in [Handlers -> Locals]
  BY <1>1, <1>3 DEF Locals
<1> QED
  BY <1>2, <1>3, <1>4

\* Where a handler is says what it has.
LEMMA Has ==
    ASSUME TypeOK, HasKey, NEW h \in Handlers
    PROVE  /\ proc[h] \in Locals
           /\ proc[h].pc \in Building =>
                 /\ proc[h].b \in Builds /\ proc[h].k \in Keys /\ proc[h].l = Nothing
                 /\ key[proc[h].b] = proc[h].k
           /\ proc[h].pc \in Leasing =>
                 proc[h].l \in Leases /\ proc[h].k \in Keys /\ proc[h].b = Nothing
BY DEF TypeOK, HasKey

\* As long as nothing is disputed, a key has one handler that builds, except
\* for the aborts that come too late to remove a stranded directory.
LEMMA Alone ==
    ASSUME TypeOK, HasKey, OneHandler, PendingKnown, BuildKnown, Undisputed,
           NEW h \in Handlers, proc[h].pc \in Building
    PROVE  \/ /\ proc[h].k \notin stranded
              /\ \A g \in Handlers \ {h} : proc[g].pc \in Building => proc[g].k # proc[h].k
           \/ /\ proc[h].k \in stranded /\ proc[h].pc \in {"close", "check"}
              /\ pending[proc[h].k] = Bare /\ staging[proc[h].k] = Nothing
              /\ session[proc[h].b] # "open"
<1>1. proc[h].b \in Builds /\ proc[h].k \in Keys
  BY DEF HasKey
<1>2. CASE proc[h].k \in stranded
  <2>1. pending[proc[h].k] = Bare /\ pending[proc[h].k] # proc[h].b
    BY <1>1, <1>2, Sentinels DEF PendingKnown
  <2>2. proc[h].pc \in {"close", "check"} /\ session[proc[h].b] # "open"
    BY <1>2, <2>1 DEF BuildKnown
  <2>3. staging[proc[h].k] = Nothing
    BY <1>1, <2>1, Sentinels DEF PendingKnown, TypeOK, Image
  <2> QED
    BY <1>2, <2>1, <2>2, <2>3
<1>3. CASE proc[h].k \notin stranded
  <2> SUFFICES ASSUME NEW g \in Handlers, g # h, proc[g].pc \in Building,
                      proc[g].k = proc[h].k
               PROVE  FALSE
    BY <1>3
  <2>1. proc[g].b \in Builds /\ proc[g].b # proc[h].b
    BY <1>1, Sentinels DEF HasKey, OneHandler, Undisputed
  <2>2. CASE proc[h].pc \in {"write", "rmdir"}
    BY <1>1, <1>3, <2>1, <2>2, Sentinels DEF BuildKnown
  <2>3. CASE proc[h].pc \notin {"write", "rmdir"}
    BY <1>1, <1>3, <2>1, <2>3, Sentinels DEF BuildKnown
  <2> QED
    BY <2>2, <2>3
<1> QED
  BY <1>2, <1>3

\* A request ends without having changed anything.
LEMMA StopStep ==
    ASSUME IInv, NEW h \in Handlers, Return(h), Ticks,
           UNCHANGED <<pending, staging, quarantine, parent, fresh, journal, child, key, session,
                       reaper, alive, answered, collected, overtaken, contested, stranded>>,
           proc[h].pc # "rmdir", proc[h].pc \in Publishing => ~Calm'
    PROVE  IInv'
<1>1. /\ TypeOK /\ HasKey /\ OneHandler /\ OnePublisher /\ NoWreck
      /\ JournalKnown /\ JournalProtects /\ TouchProtects
  BY DEF IInv, Control, Leased
<1>2. Undisputed => /\ reaper.pc = "idle"
                    /\ PendingKnown /\ BuildKnown /\ ImageKnown /\ CommitKnown
  BY DEF IInv, Orderly
<1>3. proc' \in [Handlers -> Locals] /\ Others(h) /\ proc'[h] = Idle
  BY <1>1, Returned
<1>4. TypeOK'
  BY <1>1, <1>3, Sentinels, Records
     DEF TypeOK, Others, Ticks
<1>5. HasKey'
  BY <1>1, <1>3, Sentinels, Records
     DEF HasKey, Others, Same, Building, Committing, Publishing, Leasing, Collecting
<1>6. OneHandler'
  BY <1>1, <1>3, Sentinels, Records
     DEF OneHandler, Others, Same
<1>7. OnePublisher'
  BY <1>1, <1>3, Sentinels, Records
     DEF OnePublisher, Others, Same, Publishing
<1>8. NoWreck'
  BY <1>1, <1>3, Sentinels, Records
     DEF NoWreck, Calm, Undisputed, Ticks, Missing, Verified, Valid, Key, Others,
         Same, Publishing
<1>9. JournalKnown'
  BY <1>1, <1>3, Sentinels, Records
     DEF JournalKnown, Others, Same
<1>10. JournalProtects'
  BY <1>1, <1>3, Sentinels, Records
     DEF JournalProtects, Spared, Verified, Valid, Others, Same
<1>11. TouchProtects'
  BY <1>1, <1>3, Sentinels, Records
     DEF TouchProtects, Verified, Valid, Others, Same
<1>12. ASSUME Undisputed
      PROVE  PendingKnown' /\ BuildKnown' /\ ImageKnown' /\ CommitKnown'
  <2>1. PendingKnown'
    BY <1>1, <1>2, <1>3, <1>12, Sentinels, Records
       DEF PendingKnown, TypeOK, Others, Same
  <2>2. BuildKnown'
    BY <1>1, <1>2, <1>3, <1>12, Sentinels, Records
       DEF BuildKnown, Others, Same, Building
  <2>3. ImageKnown'
    BY <1>1, <1>2, <1>3, <1>12, Sentinels, Records
       DEF ImageKnown, Others, Same, Building
  <2>4. CommitKnown'
    BY <1>1, <1>2, <1>3, <1>12, Sentinels, Records
       DEF CommitKnown, Published, Verified, Valid, Others, Same
  <2> QED
    BY <2>1, <2>2, <2>3, <2>4
<1> QED
  BY <1>2, <1>3, <1>4, <1>5, <1>6, <1>7, <1>8, <1>9, <1>10, <1>11, <1>12
     DEF IInv, Control, Orderly, Undisputed, Leased

\* A request goes on without having changed anything; what it has looked at
\* before is what the next step needs.
LEMMA GoStep ==
    ASSUME IInv, NEW h \in Handlers, NEW step \in Steps, Goto(h, step), Ticks,
           UNCHANGED <<pending, staging, quarantine, parent, fresh, journal, child, key, session,
                       reaper, alive, answered, collected, overtaken, contested, stranded>>,
           \/ proc[h].pc = "recheck" /\ step = "mkdir"
           \/ proc[h].pc = "verify" /\ step = "read" /\ staging[proc[h].k] = proc[h].b
           \/ proc[h].pc = "read" /\ step = "publish"
           \/ proc[h].pc = "check" /\ step = "unlist" /\ staging[proc[h].k] = Nothing
              /\ pending[proc[h].k] = proc[h].b /\ proc[h].then # "commit"
           \/ proc[h].pc = "admit" /\ step = "journal"
    PROVE  IInv'
<1>1. /\ TypeOK /\ HasKey /\ OneHandler /\ OnePublisher /\ NoWreck
      /\ JournalKnown /\ JournalProtects /\ TouchProtects
  BY DEF IInv, Control, Leased
<1>2. Undisputed => /\ reaper.pc = "idle"
                    /\ PendingKnown /\ BuildKnown /\ ImageKnown /\ CommitKnown
  BY DEF IInv, Orderly
<1>3. proc' \in [Handlers -> Locals] /\ Others(h) /\ Same(h) /\ proc'[h].pc = step
  BY <1>1, Went
<1>4. TypeOK'
  BY <1>1, <1>3, Sentinels, Records
     DEF TypeOK, Others, Ticks
<1>5. HasKey'
  BY <1>1, <1>3, Sentinels, Records
     DEF HasKey, Others, Same, Building, Committing, Publishing, Leasing, Collecting
<1>6. OneHandler'
  BY <1>1, <1>3, Sentinels, Records
     DEF OneHandler, Others, Same
<1>7. OnePublisher'
  BY <1>1, <1>3, Sentinels, Records
     DEF OnePublisher, Others, Same, Publishing
<1>8. NoWreck'
  BY <1>1, <1>3, Sentinels, Records
     DEF NoWreck, Calm, Undisputed, Ticks, Missing, Verified, Valid, Key, Others, Same
<1>9. JournalKnown'
  BY <1>1, <1>3, Sentinels, Records
     DEF JournalKnown, Others, Same
<1>10. JournalProtects'
  BY <1>1, <1>3, Sentinels, Records
     DEF JournalProtects, Spared, Verified, Valid, Others, Same
<1>11. TouchProtects'
  BY <1>1, <1>3, Sentinels, Records
     DEF TouchProtects, Verified, Valid, Others, Same
<1>12. ASSUME Undisputed
      PROVE  PendingKnown' /\ BuildKnown' /\ ImageKnown' /\ CommitKnown'
  <2>1. PendingKnown'
    BY <1>1, <1>2, <1>3, <1>12, Sentinels, Records
       DEF PendingKnown, TypeOK, Others, Same
  <2>2. BuildKnown'
    BY <1>1, <1>2, <1>3, <1>12, Sentinels, Records
       DEF BuildKnown, Others, Same, Building
  <2>3. ImageKnown'
    BY <1>1, <1>2, <1>3, <1>12, Sentinels, Records
       DEF ImageKnown, Others, Same, Building
  <2>4. CommitKnown'
    BY <1>1, <1>2, <1>3, <1>12, Sentinels, Records
       DEF CommitKnown, Published, Verified, Valid, Others, Same
  <2> QED
    BY <2>1, <2>2, <2>3, <2>4
<1> QED
  BY <1>2, <1>3, <1>4, <1>5, <1>6, <1>7, <1>8, <1>9, <1>10, <1>11, <1>12
     DEF IInv, Control, Orderly, Undisputed, Leased

\* A request about a key or a build comes in, or the collector starts.
LEMMA StartStep ==
    ASSUME IInv, NEW h \in Handlers, At(h, "idle"), NEW f \in Locals, Ticks,
           proc' = [proc EXCEPT ![h] = f], f.l = Nothing,
           UNCHANGED <<pending, staging, quarantine, parent, fresh, journal, child,
                       key, session, reaper, alive, answered, collected, overtaken,
                       stranded>>,
           \/ /\ f.pc = "recheck" /\ f.k \in Keys /\ f.b = Nothing /\ f.then = "answer"
              /\ UNCHANGED contested
           \/ /\ f.pc = "protect" /\ f.b = Nothing /\ f.then = "answer"
              /\ UNCHANGED contested
           \/ /\ f.b \in Builds /\ session[f.b] # "none" /\ f.k = key[f.b]
              /\ \/ f.pc = "detach" /\ session[f.b] = "open"
                 \/ f.pc = "close" /\ f.then # "commit"
              /\ contested' = contested \cup {b \in {f.b} : ~Free(b)}
    PROVE  IInv'
<1>1. /\ TypeOK /\ HasKey /\ OneHandler /\ OnePublisher /\ NoWreck
      /\ JournalKnown /\ JournalProtects /\ TouchProtects
  BY DEF IInv, Control, Leased
<1>2. Undisputed => /\ reaper.pc = "idle"
                    /\ PendingKnown /\ BuildKnown /\ ImageKnown /\ CommitKnown
  BY DEF IInv, Orderly
<1>3. proc' \in [Handlers -> Locals] /\ Others(h) /\ proc'[h] = f
  BY <1>1 DEF TypeOK, Others
<1>4. f.b \in Builds => f.k \in Keys
  BY <1>1, Sentinels DEF OneHandler
<1>5. proc[h] = Idle
  BY <1>1 DEF HasKey, At
<1>6. contested' \subseteq Builds /\ contested \subseteq contested'
  BY <1>1, Sentinels DEF TypeOK
<1>7. contested' = {} => contested = {} /\ (f.b \in Builds => \A g \in Handlers : proc[g].b # f.b)
  BY Sentinels DEF Free
<1>8. Undisputed' => Undisputed /\ (f.b \in Builds => \A g \in Handlers : proc[g].b # f.b)
  BY <1>7 DEF Undisputed
<1>9. TypeOK'
  BY <1>1, <1>3, <1>4, <1>5, <1>6, <1>7, <1>8, Sentinels, Records
     DEF TypeOK, Others, Ticks
<1>10. HasKey'
  BY <1>1, <1>3, <1>4, <1>5, <1>6, <1>7, <1>8, Sentinels, Records
     DEF HasKey, Others, Same, Building, Committing, Publishing, Leasing, Collecting
<1>11. OneHandler'
  BY <1>1, <1>3, <1>4, <1>5, <1>6, <1>7, <1>8, Sentinels, Records
     DEF OneHandler, Others, Same
<1>12. OnePublisher'
  BY <1>1, <1>3, <1>4, <1>5, <1>6, <1>7, <1>8, Sentinels, Records
     DEF OnePublisher, Others, Same, Publishing
<1>13. NoWreck'
  BY <1>1, <1>3, <1>4, <1>5, <1>6, <1>7, <1>8, Sentinels, Records
     DEF NoWreck, Calm, Undisputed, Ticks, Missing, Verified, Valid, Key, Others, Same
<1>14. JournalKnown'
  BY <1>1, <1>3, <1>4, <1>5, <1>6, <1>7, <1>8, Sentinels, Records
     DEF JournalKnown, Others, Same
<1>15. JournalProtects'
  BY <1>1, <1>3, <1>4, <1>5, <1>6, <1>7, <1>8, Sentinels, Records
     DEF JournalProtects, Spared, Verified, Valid, Others, Same
<1>16. TouchProtects'
  BY <1>1, <1>3, <1>4, <1>5, <1>6, <1>7, <1>8, Sentinels, Records
     DEF TouchProtects, Verified, Valid, Others, Same
<1>17. ASSUME Undisputed'
      PROVE  PendingKnown' /\ BuildKnown' /\ ImageKnown' /\ CommitKnown'
  <2>1. PendingKnown'
    BY <1>1, <1>2, <1>3, <1>4, <1>5, <1>6, <1>7, <1>8, <1>17, Sentinels, Records
       DEF PendingKnown, TypeOK, Others, Same
  <2>2. BuildKnown'
    <3>1. f.b \in Builds =>
             \/ pending[f.k] = f.b
             \/ f.pc = "close" /\ f.k \in stranded /\ session[f.b] # "open"
      BY <1>1, <1>2, <1>3, <1>4, <1>5, <1>6, <1>7, <1>8, <1>17, Sentinels
         DEF PendingKnown
    <3>2. f.pc \notin {"write", "rmdir", "metadata", "complete", "unlist"}
      OBVIOUS
    <3> QED
      BY <1>1, <1>2, <1>3, <1>4, <1>5, <1>6, <1>7, <1>8, <1>17, <3>1, <3>2,
         Sentinels
         DEF BuildKnown, Others, Building
  <2>3. ImageKnown'
    BY <1>1, <1>2, <1>3, <1>4, <1>5, <1>6, <1>7, <1>8, <1>17, Sentinels, Records
       DEF ImageKnown, Others, Same, Building
  <2>4. CommitKnown'
    BY <1>1, <1>2, <1>3, <1>4, <1>5, <1>6, <1>7, <1>8, <1>17, Sentinels, Records
       DEF CommitKnown, Published, Verified, Valid, Others, Same
  <2> QED
    BY <2>1, <2>2, <2>3, <2>4
<1> QED
  BY <1>2, <1>3, <1>4, <1>5, <1>6, <1>7, <1>8, <1>9, <1>10, <1>11, <1>12, <1>13,
     <1>14, <1>15, <1>16, <1>17
     DEF IInv, Control, Orderly, Undisputed, Leased

\* A parent in use becomes fresh again.
LEMMA FreshStep ==
    ASSUME IInv, NEW k \in Keys, fresh' = fresh \cup {k},
           UNCHANGED <<pending, staging, quarantine, parent, journal, child, key, session,
                     proc, reaper, alive, answered, collected, overtaken, contested, stranded, bounds>>
    PROVE  IInv'
<1>1. /\ TypeOK /\ HasKey /\ OneHandler /\ OnePublisher /\ NoWreck
      /\ JournalKnown /\ JournalProtects /\ TouchProtects
  BY DEF IInv, Control, Leased
<1>2. Undisputed => /\ reaper.pc = "idle"
                    /\ PendingKnown /\ BuildKnown /\ ImageKnown /\ CommitKnown
  BY DEF IInv, Orderly
<1>3. UNCHANGED <<faults, crashes>>
  BY DEF bounds
<1>4. TypeOK'
  BY <1>1, <1>3, Sentinels, Records
     DEF TypeOK, Others
<1>5. HasKey'
  BY <1>1, <1>3, Sentinels, Records
     DEF HasKey, Others, Same, Building, Committing, Publishing, Leasing, Collecting
<1>6. OneHandler'
  BY <1>1, <1>3, Sentinels, Records
     DEF OneHandler, Others, Same
<1>7. OnePublisher'
  BY <1>1, <1>3, Sentinels, Records
     DEF OnePublisher, Others, Same, Publishing
<1>8. NoWreck'
  BY <1>1, <1>3, Sentinels, Records
     DEF NoWreck, Calm, Undisputed, Ticks, Missing, Verified, Valid, Key, Others, Same
<1>9. JournalKnown'
  BY <1>1, <1>3, Sentinels, Records
     DEF JournalKnown, Others, Same
<1>10. JournalProtects'
  BY <1>1, <1>3, Sentinels, Records
     DEF JournalProtects, Spared, Verified, Valid, Others, Same
<1>11. TouchProtects'
  BY <1>1, <1>3, Sentinels, Records
     DEF TouchProtects, Verified, Valid, Others, Same
<1>12. ASSUME Undisputed
      PROVE  PendingKnown' /\ BuildKnown' /\ ImageKnown' /\ CommitKnown'
  <2>1. PendingKnown'
    BY <1>1, <1>2, <1>3, <1>12, Sentinels, Records
       DEF PendingKnown, TypeOK, Others, Same
  <2>2. BuildKnown'
    BY <1>1, <1>2, <1>3, <1>12, Sentinels, Records
       DEF BuildKnown, Others, Same, Building
  <2>3. ImageKnown'
    BY <1>1, <1>2, <1>3, <1>12, Sentinels, Records
       DEF ImageKnown, Others, Same, Building
  <2>4. CommitKnown'
    BY <1>1, <1>2, <1>3, <1>12, Sentinels, Records
       DEF CommitKnown, Published, Verified, Valid, Others, Same
  <2> QED
    BY <2>1, <2>2, <2>3, <2>4
<1> QED
  BY <1>2, <1>3, <1>4, <1>5, <1>6, <1>7, <1>8, <1>9, <1>10, <1>11, <1>12
     DEF IInv, Control, Orderly, Undisputed, Leased

\* The pending directory is made for a new build.
LEMMA MkdirStep ==
    ASSUME IInv, NEW h \in Handlers, BeginMkdir(h), CanBegin(Key(h))
    PROVE  IInv'
<1>1. /\ TypeOK /\ HasKey /\ OneHandler /\ OnePublisher /\ NoWreck
      /\ JournalKnown /\ JournalProtects /\ TouchProtects
  BY DEF IInv, Control, Leased
<1>2. Undisputed => /\ reaper.pc = "idle"
                    /\ PendingKnown /\ BuildKnown /\ ImageKnown /\ CommitKnown
  BY DEF IInv, Orderly
<1>3. proc[h].pc = "mkdir" /\ proc[h].k \in Keys /\ proc[h].l = Nothing /\ proc[h].then = "answer"
      /\ pending[proc[h].k] = Nothing
  BY <1>1 DEF BeginMkdir, At, HasKey, CanBegin, Key
<1>4. PICK b \in Builds :
        /\ key[b] = Nothing /\ key' = [key EXCEPT ![b] = proc[h].k]
        /\ proc' = [proc EXCEPT ![h].pc = "write", ![h].b = b]
  BY DEF BeginMkdir, Key
<1>5. /\ proc \in [Handlers -> Locals] /\ Others(h)
      /\ proc'[h] = [proc[h] EXCEPT !.pc = "write", !.b = b]
  BY <1>1, <1>4 DEF TypeOK, Others
<1>6. /\ Others(h) /\ proc'[h] \in Locals /\ proc'[h].pc = "write" /\ proc'[h].b = b
      /\ proc'[h].k = proc[h].k /\ proc'[h].l = Nothing /\ proc'[h].then = "answer"
  BY <1>3, <1>5 DEF Locals, Image, Steps
<1>7. proc' \in [Handlers -> Locals]
  BY <1>4, <1>5, <1>6 DEF Locals
<1>8. pending' = [pending EXCEPT ![proc[h].k] = Bare]
  BY <1>3 DEF BeginMkdir, Key, CanBegin
<1>9. /\ key'[b] = proc[h].k /\ \A c \in Builds : c # b => key'[c] = key[c]
      /\ pending'[proc[h].k] = Bare /\ \A k \in Keys : k # proc[h].k => pending'[k] = pending[k]
  BY <1>1, <1>3, <1>4, <1>8 DEF TypeOK
<1>10. /\ b \in Builds /\ key[b] = Nothing /\ session[b] = "none" /\ (\A g \in Handlers : proc[g].b # b)
       /\ b \in answered => ~Undisputed
  BY <1>1, <1>2, <1>4, Sentinels
     DEF OneHandler, HasKey, CommitKnown, TypeOK, Locals, Image, Steps, Idle,
         Building, Leasing, Collecting
<1>11. UNCHANGED <<staging, quarantine, parent, fresh, journal, child, session,
                    reaper, alive, answered, collected, overtaken, contested, stranded, faults, crashes>>
  BY DEF BeginMkdir, observers, bounds
<1>12. TypeOK'
  BY <1>1, <1>3, <1>4, <1>7, <1>8, <1>9, <1>11, Sentinels DEF TypeOK
<1>13. HasKey'
  <2>1. ASSUME NEW g \in Handlers, g # h, proc[g].b \in Builds
        PROVE  key'[proc[g].b] = key[proc[g].b]
    BY <1>9, <1>10, <2>1
  <2> QED
    BY <1>1, <1>3, <1>6, <1>9, <1>10, <2>1
       DEF HasKey, Others, Building, Leasing, Collecting
<1>14. OneHandler'
  <2>1. \A c \in Builds : session'[c] # "none" => key'[c] \in Keys
    BY <1>1, <1>9, <1>10, <1>11 DEF OneHandler
  <2> QED
    BY <1>1, <1>3, <1>6, <1>10, <1>11, <2>1 DEF OneHandler, Others
<1>15. OnePublisher'
  BY <1>1, <1>3, <1>6, <1>7, <1>9, <1>10, <1>11, Sentinels, Records
     DEF OnePublisher, Others, Same, Publishing
<1>16. NoWreck'
  BY <1>1, <1>3, <1>6, <1>7, <1>9, <1>10, <1>11, Sentinels, Records
     DEF NoWreck, Calm, Undisputed, Ticks, Missing, Verified, Valid, Key, Others, Same
<1>17. JournalKnown'
  BY <1>1, <1>3, <1>6, <1>7, <1>9, <1>10, <1>11, Sentinels, Records
     DEF JournalKnown, Others, Same
<1>18. JournalProtects'
  BY <1>1, <1>3, <1>6, <1>7, <1>9, <1>10, <1>11, Sentinels, Records
     DEF JournalProtects, Spared, Verified, Valid, Others, Same
<1>19. TouchProtects'
  BY <1>1, <1>3, <1>6, <1>7, <1>9, <1>10, <1>11, Sentinels, Records
     DEF TouchProtects, Verified, Valid, Others, Same
<1>20. ASSUME Undisputed
      PROVE  PendingKnown' /\ BuildKnown' /\ ImageKnown' /\ CommitKnown'
  <2>1. PendingKnown'
    <3>1. \A k \in Keys : pending'[k] \in Builds => k # proc[h].k /\ pending[k] # b
      BY <1>1, <1>2, <1>9, <1>10, <1>20, Sentinels DEF PendingKnown
    <3>2. \A k \in Keys : pending'[k] \in Builds => key'[pending'[k]] = k
      BY <1>2, <1>9, <1>20, <3>1 DEF PendingKnown
    <3>3. staging[proc[h].k] = Nothing
      BY <1>1, <1>3 DEF TypeOK
    <3>4. ASSUME NEW c \in Builds, session[c] # "none"
          PROVE  \/ pending'[key'[c]] = c
                 \/ \E g \in Handlers : proc'[g].b = c /\ proc'[g].pc = "rmdir"
                 \/ key'[c] \in stranded /\ session[c] # "open"
      <4>1. c # b /\ key'[c] = key[c] /\ key[c] \in Keys
        BY <1>1, <1>9, <1>10, <3>4 DEF OneHandler
      <4>2. CASE pending[key[c]] = c
        BY <1>3, <1>9, <4>1, <4>2, Sentinels
      <4>3. CASE \E g \in Handlers : proc[g].b = c /\ proc[g].pc = "rmdir"
        BY <1>3, <1>6, <4>3 DEF Others
      <4> QED
        BY <1>2, <1>20, <3>4, <4>1, <4>2, <4>3 DEF PendingKnown
    <3>5. \A k \in stranded : pending'[k] = Bare
      BY <1>1, <1>2, <1>3, <1>9, <1>20, Sentinels DEF PendingKnown, TypeOK
    <3>6. \A k \in Keys : staging[k] # Nothing => staging[k] = pending'[k]
      BY <1>2, <1>9, <1>20, <3>3 DEF PendingKnown
    <3> QED
      BY <1>11, <3>2, <3>4, <3>5, <3>6 DEF PendingKnown
  <2>2. BuildKnown'
    <3>1. \A g \in Handlers \ {h} : proc[g].pc \in Building => proc[g].k # proc[h].k
      BY <1>1, <1>2, <1>3, <1>20, Sentinels
         DEF PendingKnown, BuildKnown, HasKey, Building, TypeOK
    <3>2. proc[h].k \notin stranded
      BY <1>2, <1>3, <1>20, Sentinels DEF PendingKnown
    <3> QED
      BY <1>1, <1>2, <1>3, <1>6, <1>9, <1>11, <1>20, <3>1, <3>2
         DEF BuildKnown, HasKey, Others, Building
  <2>3. ImageKnown'
    BY <1>1, <1>2, <1>3, <1>6, <1>7, <1>9, <1>10, <1>11, <1>20, Sentinels, Records
       DEF ImageKnown, Others, Same, Building
  <2>4. CommitKnown'
    <3>1. ASSUME NEW c \in Builds, c # b, Published(c) PROVE Published(c)'
      BY <1>9, <1>11, <3>1 DEF Published, Verified, Valid
    <3>2. answered \subseteq Builds /\ b \notin answered
      BY <1>1, <1>10, <1>20 DEF TypeOK
    <3>3. \A c \in answered : key'[c] \in Keys /\ Published(c)'
      BY <1>2, <1>9, <1>20, <3>1, <3>2 DEF CommitKnown
    <3>4. ASSUME NEW g \in Handlers, proc'[g].then = "commit", proc'[g].pc \in {"unlist", "rmdir"}
          PROVE  Published(proc[g].b)'
      <4>1. g # h /\ proc'[g] = proc[g] /\ proc[g].b \in Builds /\ proc[g].b # b
        BY <1>1, <1>6, <1>10, <3>4 DEF Others, HasKey, Building
      <4>2. Published(proc[g].b)
        BY <1>2, <1>20, <3>4, <4>1 DEF CommitKnown
      <4> QED
        BY <1>9, <1>11, <4>1, <4>2 DEF Published, Verified, Valid
    <3> QED
      BY <1>11, <3>3, <3>4 DEF CommitKnown
  <2> QED
    BY <2>1, <2>2, <2>3, <2>4
<1> QED
  BY <1>2, <1>3, <1>6, <1>7, <1>9, <1>10, <1>11, <1>12, <1>13, <1>14, <1>15, <1>16,
     <1>17, <1>18, <1>19, <1>20
     DEF IInv, Control, Orderly, Undisputed, Leased

\* pending.json is written.
LEMMA WriteStep ==
    ASSUME IInv, NEW h \in Handlers, At(h, "write"), Goto(h, "native"), Ticks,
           pending[proc[h].k] = Bare, pending' = [pending EXCEPT ![proc[h].k] = proc[h].b],
           UNCHANGED <<staging, quarantine, parent, fresh, journal, child, key,
                       session, reaper, alive, answered, collected, overtaken,
                       contested, stranded>>
    PROVE  IInv'
<1>1. /\ TypeOK /\ HasKey /\ OneHandler /\ OnePublisher /\ NoWreck
      /\ JournalKnown /\ JournalProtects /\ TouchProtects
  BY DEF IInv, Control, Leased
<1>2. Undisputed => /\ reaper.pc = "idle"
                    /\ PendingKnown /\ BuildKnown /\ ImageKnown /\ CommitKnown
  BY DEF IInv, Orderly
<1>3. proc[h].pc = "write" /\ proc[h] \in Locals /\ proc[h].b \in Builds /\ proc[h].k \in Keys
      /\ proc[h].l = Nothing /\ key[proc[h].b] = proc[h].k
  BY <1>1, Has DEF At, Building
<1>4. proc' \in [Handlers -> Locals] /\ Others(h) /\ Same(h) /\ proc'[h].pc = "native"
  BY <1>1, Went DEF Steps
<1>5. pending' \in [Keys -> Image \cup {Bare}] /\ pending'[proc[h].k] = proc[h].b
      /\ \A k \in Keys : k # proc[h].k => pending'[k] = pending[k]
  BY <1>1, <1>3 DEF TypeOK, Key, Build, Image, WithoutDir
<1>6. pending[proc[h].k] = Bare
  BY DEF Key
<1>7. TypeOK'
  BY <1>1, <1>3, <1>4, <1>5, <1>6, Sentinels, Records
     DEF TypeOK, Others, Ticks
<1>8. HasKey'
  BY <1>1, <1>3, <1>4, <1>5, <1>6, Sentinels, Records
     DEF HasKey, Others, Same, Building, Committing, Publishing, Leasing, Collecting
<1>9. OneHandler'
  BY <1>1, <1>3, <1>4, <1>5, <1>6, Sentinels, Records
     DEF OneHandler, Others, Same
<1>10. OnePublisher'
  BY <1>1, <1>3, <1>4, <1>5, <1>6, Sentinels, Records
     DEF OnePublisher, Others, Same, Publishing
<1>11. NoWreck'
  BY <1>1, <1>3, <1>4, <1>5, <1>6, Sentinels, Records
     DEF NoWreck, Calm, Undisputed, Ticks, Missing, Verified, Valid, Key, Others, Same
<1>12. JournalKnown'
  BY <1>1, <1>3, <1>4, <1>5, <1>6, Sentinels, Records
     DEF JournalKnown, Others, Same
<1>13. JournalProtects'
  BY <1>1, <1>3, <1>4, <1>5, <1>6, Sentinels, Records
     DEF JournalProtects, Spared, Verified, Valid, Others, Same
<1>14. TouchProtects'
  BY <1>1, <1>3, <1>4, <1>5, <1>6, Sentinels, Records
     DEF TouchProtects, Verified, Valid, Others, Same
<1>15. ASSUME Undisputed
      PROVE  PendingKnown' /\ BuildKnown' /\ ImageKnown' /\ CommitKnown'
  <2>1. /\ proc[h].k \notin stranded
        /\ \A g \in Handlers \ {h} : proc[g].pc \in Building => proc[g].k # proc[h].k
    BY <1>1, <1>2, <1>3, <1>15, Alone DEF Building
  <2>2. PendingKnown'
    <3>1. \A k \in Keys : pending'[k] \in Builds => key'[pending'[k]] = k
      BY <1>1, <1>2, <1>3, <1>4, <1>5, <1>6, <1>15, <2>1, Sentinels DEF PendingKnown
    <3>2. \A k \in Keys : staging'[k] # Nothing => staging'[k] = pending'[k]
      BY <1>1, <1>2, <1>3, <1>4, <1>5, <1>6, <1>15, <2>1, Sentinels
         DEF PendingKnown, TypeOK, Image
    <3>3. ASSUME NEW c \in Builds, session'[c] # "none"
          PROVE  \/ pending'[key[c]] = c
                 \/ \E g \in Handlers : proc'[g].b = c /\ proc'[g].pc = "rmdir"
                 \/ key[c] \in stranded' /\ session'[c] # "open"
      <4>1. session[c] # "none" /\ key[c] \in Keys
        BY <1>1, <1>3, <1>4, <1>5, <1>6, <3>3 DEF OneHandler
      <4>2. CASE pending[key[c]] = c
        BY <1>1, <1>3, <1>4, <1>5, <1>6, <4>1, <4>2, <2>1, Sentinels
      <4>3. CASE \E g \in Handlers : proc[g].b = c /\ proc[g].pc = "rmdir"
        BY <1>3, <1>4, <1>5, <1>6, <4>3 DEF Others
      <4> QED
        BY <1>2, <1>3, <1>4, <1>5, <1>6, <1>15, <3>3, <4>1, <4>2, <4>3 DEF PendingKnown
    <3>4. \A k \in stranded' : pending'[k] = Bare
      BY <1>1, <1>2, <1>3, <1>4, <1>5, <1>6, <1>15, <2>1, Sentinels
         DEF PendingKnown, BuildKnown, Building, TypeOK
    <3> QED
      BY <1>3, <1>4, <1>5, <1>6, <3>1, <3>2, <3>3, <3>4 DEF PendingKnown
  <2>3. BuildKnown'
    BY <1>1, <1>2, <1>3, <1>4, <1>5, <1>6, <1>15, <2>1, Sentinels, Records
       DEF BuildKnown, Others, Same, Building
  <2>4. ImageKnown'
    BY <1>1, <1>2, <1>3, <1>4, <1>5, <1>6, <1>15, <2>1, Sentinels, Records
       DEF ImageKnown, Others, Same, Building
  <2>5. CommitKnown'
    BY <1>1, <1>2, <1>3, <1>4, <1>5, <1>6, <1>15, <2>1, Sentinels, Records
       DEF CommitKnown, Published, Verified, Valid, Others, Same
  <2> QED
    BY <2>2, <2>3, <2>4, <2>5
<1> QED
  BY <1>2, <1>3, <1>4, <1>5, <1>6, <1>7, <1>8, <1>9, <1>10, <1>11, <1>12, <1>13,
     <1>14, <1>15
     DEF IInv, Control, Orderly, Undisputed, Leased

\* pending.json is not written, and the new directory is removed again.
LEMMA UnwriteStep ==
    ASSUME IInv, NEW h \in Handlers, At(h, "write"), Return(h), Ticks,
           pending' = [pending EXCEPT ![proc[h].k] = WithoutDir(proc[h].k)],
           UNCHANGED <<staging, quarantine, parent, fresh, journal, child, key,
                       session, reaper, alive, answered, collected, overtaken,
                       contested, stranded>>
    PROVE  IInv'
<1>1. /\ TypeOK /\ HasKey /\ OneHandler /\ OnePublisher /\ NoWreck
      /\ JournalKnown /\ JournalProtects /\ TouchProtects
  BY DEF IInv, Control, Leased
<1>2. Undisputed => /\ reaper.pc = "idle"
                    /\ PendingKnown /\ BuildKnown /\ ImageKnown /\ CommitKnown
  BY DEF IInv, Orderly
<1>3. proc[h].pc = "write" /\ proc[h] \in Locals /\ proc[h].b \in Builds /\ proc[h].k \in Keys
      /\ proc[h].l = Nothing /\ key[proc[h].b] = proc[h].k
  BY <1>1, Has DEF At, Building
<1>4. proc' \in [Handlers -> Locals] /\ Others(h) /\ proc'[h] = Idle
  BY <1>1, Returned
<1>5. pending' \in [Keys -> Image \cup {Bare}] /\ pending'[proc[h].k] = WithoutDir(proc[h].k)
      /\ \A k \in Keys : k # proc[h].k => pending'[k] = pending[k]
  BY <1>1, <1>3 DEF TypeOK, Key, Build, Image, WithoutDir
<1>6. IF pending[proc[h].k] = Bare /\ staging[proc[h].k] = Nothing
         THEN pending'[proc[h].k] = Nothing ELSE pending'[proc[h].k] = pending[proc[h].k]
  BY <1>5 DEF WithoutDir
<1>7. TypeOK'
  BY <1>1, <1>3, <1>4, <1>5, <1>6, Sentinels, Records
     DEF TypeOK, Others, Ticks
<1>8. HasKey'
  BY <1>1, <1>3, <1>4, <1>5, <1>6, Sentinels, Records
     DEF HasKey, Others, Same, Building, Committing, Publishing, Leasing, Collecting
<1>9. OneHandler'
  BY <1>1, <1>3, <1>4, <1>5, <1>6, Sentinels, Records
     DEF OneHandler, Others, Same
<1>10. OnePublisher'
  BY <1>1, <1>3, <1>4, <1>5, <1>6, Sentinels, Records
     DEF OnePublisher, Others, Same, Publishing
<1>11. NoWreck'
  BY <1>1, <1>3, <1>4, <1>5, <1>6, Sentinels, Records
     DEF NoWreck, Calm, Undisputed, Ticks, Missing, Verified, Valid, Key, Others, Same
<1>12. JournalKnown'
  BY <1>1, <1>3, <1>4, <1>5, <1>6, Sentinels, Records
     DEF JournalKnown, Others, Same
<1>13. JournalProtects'
  BY <1>1, <1>3, <1>4, <1>5, <1>6, Sentinels, Records
     DEF JournalProtects, Spared, Verified, Valid, Others, Same
<1>14. TouchProtects'
  BY <1>1, <1>3, <1>4, <1>5, <1>6, Sentinels, Records
     DEF TouchProtects, Verified, Valid, Others, Same
<1>15. ASSUME Undisputed
      PROVE  PendingKnown' /\ BuildKnown' /\ ImageKnown' /\ CommitKnown'
  <2>1. /\ proc[h].k \notin stranded
        /\ \A g \in Handlers \ {h} : proc[g].pc \in Building => proc[g].k # proc[h].k
    BY <1>1, <1>2, <1>3, <1>15, Alone DEF Building
  <2>2. PendingKnown'
    BY <1>1, <1>2, <1>3, <1>4, <1>5, <1>6, <1>15, <2>1, Sentinels, Records
       DEF PendingKnown, TypeOK, Others, Same
  <2>3. BuildKnown'
    BY <1>1, <1>2, <1>3, <1>4, <1>5, <1>6, <1>15, <2>1, Sentinels, Records
       DEF BuildKnown, Others, Same, Building
  <2>4. ImageKnown'
    BY <1>1, <1>2, <1>3, <1>4, <1>5, <1>6, <1>15, <2>1, Sentinels, Records
       DEF ImageKnown, Others, Same, Building
  <2>5. CommitKnown'
    BY <1>1, <1>2, <1>3, <1>4, <1>5, <1>6, <1>15, <2>1, Sentinels, Records
       DEF CommitKnown, Published, Verified, Valid, Others, Same
  <2> QED
    BY <2>2, <2>3, <2>4, <2>5
<1> QED
  BY <1>2, <1>3, <1>4, <1>5, <1>6, <1>7, <1>8, <1>9, <1>10, <1>11, <1>12, <1>13,
     <1>14, <1>15
     DEF IInv, Control, Orderly, Undisputed, Leased

\* The disk of a build is created and attached.
LEMMA NativeStep ==
    ASSUME IInv, NEW h \in Handlers, At(h, "native"), Return(h), Ticks, staging[proc[h].k] = Nothing,
           pending' = [pending EXCEPT ![proc[h].k] = IF @ = Nothing THEN Bare ELSE @],
           staging' = [staging EXCEPT ![proc[h].k] = proc[h].b],
           session' = [session EXCEPT ![proc[h].b] = "open"],
           UNCHANGED <<quarantine, parent, fresh, journal, child, key, reaper,
                       alive, answered, collected, overtaken, contested, stranded>>
    PROVE  IInv'
<1>1. /\ TypeOK /\ HasKey /\ OneHandler /\ OnePublisher /\ NoWreck
      /\ JournalKnown /\ JournalProtects /\ TouchProtects
  BY DEF IInv, Control, Leased
<1>2. Undisputed => /\ reaper.pc = "idle"
                    /\ PendingKnown /\ BuildKnown /\ ImageKnown /\ CommitKnown
  BY DEF IInv, Orderly
<1>3. proc[h].pc = "native" /\ proc[h] \in Locals /\ proc[h].b \in Builds /\ proc[h].k \in Keys
      /\ proc[h].l = Nothing /\ key[proc[h].b] = proc[h].k
  BY <1>1, Has DEF At, Building
<1>4. proc' \in [Handlers -> Locals] /\ Others(h) /\ proc'[h] = Idle
  BY <1>1, Returned
<1>5. pending' \in [Keys -> Image \cup {Bare}] /\ pending'[proc[h].k] = (IF pending[proc[h].k] = Nothing THEN Bare ELSE pending[proc[h].k])
      /\ \A k \in Keys : k # proc[h].k => pending'[k] = pending[k]
  BY <1>1, <1>3 DEF TypeOK, Key, Build, Image, WithoutDir
<1>6. staging' \in [Keys -> Image] /\ staging'[proc[h].k] = proc[h].b
      /\ \A k \in Keys : k # proc[h].k => staging'[k] = staging[k]
  BY <1>1, <1>3 DEF TypeOK, Key, Build, Image
<1>7. session' \in [Builds -> {"none", "open", "closed"}] /\ session'[proc[h].b] = "open"
      /\ \A c \in Builds : c # proc[h].b => session'[c] = session[c]
  BY <1>1, <1>3 DEF TypeOK, Key, Build
<1>8. TypeOK'
  BY <1>1, <1>3, <1>4, <1>5, <1>6, <1>7, Sentinels, Records
     DEF TypeOK, Others, Ticks
<1>9. HasKey'
  BY <1>1, <1>3, <1>4, <1>5, <1>6, <1>7, Sentinels, Records
     DEF HasKey, Others, Same, Building, Committing, Publishing, Leasing, Collecting
<1>10. OneHandler'
  BY <1>1, <1>3, <1>4, <1>5, <1>6, <1>7, Sentinels, Records
     DEF OneHandler, Others, Same
<1>11. OnePublisher'
  BY <1>1, <1>3, <1>4, <1>5, <1>6, <1>7, Sentinels, Records
     DEF OnePublisher, Others, Same, Publishing
<1>12. NoWreck'
  BY <1>1, <1>3, <1>4, <1>5, <1>6, <1>7, Sentinels, Records
     DEF NoWreck, Calm, Undisputed, Ticks, Missing, Verified, Valid, Key, Others, Same
<1>13. JournalKnown'
  BY <1>1, <1>3, <1>4, <1>5, <1>6, <1>7, Sentinels, Records
     DEF JournalKnown, Others, Same
<1>14. JournalProtects'
  BY <1>1, <1>3, <1>4, <1>5, <1>6, <1>7, Sentinels, Records
     DEF JournalProtects, Spared, Verified, Valid, Others, Same
<1>15. TouchProtects'
  BY <1>1, <1>3, <1>4, <1>5, <1>6, <1>7, Sentinels, Records
     DEF TouchProtects, Verified, Valid, Others, Same
<1>16. ASSUME Undisputed
      PROVE  PendingKnown' /\ BuildKnown' /\ ImageKnown' /\ CommitKnown'
  <2>1. /\ proc[h].k \notin stranded
        /\ \A g \in Handlers \ {h} : proc[g].pc \in Building => proc[g].k # proc[h].k
    BY <1>1, <1>2, <1>3, <1>16, Alone DEF Building
  <2>2. PendingKnown'
    <3>1. \A k \in Keys : pending'[k] \in Builds => key'[pending'[k]] = k
      BY <1>1, <1>2, <1>3, <1>4, <1>5, <1>6, <1>7, <1>16, <2>1, Sentinels
         DEF PendingKnown
    <3>2. \A k \in Keys : staging'[k] # Nothing => staging'[k] = pending'[k]
      BY <1>1, <1>2, <1>3, <1>4, <1>5, <1>6, <1>7, <1>16, <2>1, Sentinels
         DEF PendingKnown, BuildKnown, Building, TypeOK, Image
    <3>3. ASSUME NEW c \in Builds, session'[c] # "none"
          PROVE  \/ pending'[key[c]] = c
                 \/ \E g \in Handlers : proc'[g].b = c /\ proc'[g].pc = "rmdir"
                 \/ key[c] \in stranded' /\ session'[c] # "open"
      <4>1. CASE c = proc[h].b
        BY <1>2, <1>3, <1>4, <1>5, <1>6, <1>7, <1>16, <2>1, <4>1, Sentinels
           DEF BuildKnown, Building
      <4>2. CASE c # proc[h].b
        <5>1. session[c] # "none" /\ key[c] \in Keys
          BY <1>1, <1>3, <1>4, <1>5, <1>6, <1>7, <3>3, <4>2 DEF OneHandler
        <5>2. CASE pending[key[c]] = c
          BY <1>1, <1>2, <1>3, <1>4, <1>5, <1>6, <1>7, <1>16, <2>1, <4>2, <5>1,
             <5>2, Sentinels
             DEF BuildKnown, Building
        <5>3. CASE \E g \in Handlers : proc[g].b = c /\ proc[g].pc = "rmdir"
          BY <1>3, <1>4, <1>5, <1>6, <1>7, <4>2, <5>3 DEF Others
        <5> QED
          BY <1>2, <1>3, <1>4, <1>5, <1>6, <1>7, <1>16, <3>3, <4>2, <5>1, <5>2, <5>3
             DEF PendingKnown
      <4> QED
        BY <4>1, <4>2
    <3>4. \A k \in stranded' : pending'[k] = Bare
      BY <1>1, <1>2, <1>3, <1>4, <1>5, <1>6, <1>7, <1>16, <2>1, Sentinels
         DEF PendingKnown, BuildKnown, Building, TypeOK
    <3> QED
      BY <1>3, <1>4, <1>5, <1>6, <1>7, <3>1, <3>2, <3>3, <3>4 DEF PendingKnown
  <2>3. BuildKnown'
    <3>1. \A g \in Handlers \ {h} : proc[g].pc \in {"close", "check"} /\ proc[g].k \in stranded
                                      => session'[proc[g].b] = session[proc[g].b]
      BY <1>1, <1>3, <1>4, <1>5, <1>6, <1>7, <2>1 DEF HasKey, Building
    <3> QED
      BY <1>1, <1>2, <1>3, <1>4, <1>5, <1>6, <1>7, <1>16, <2>1, <3>1, Sentinels,
         Records
         DEF BuildKnown, Others, Building
  <2>4. ImageKnown'
    BY <1>1, <1>2, <1>3, <1>4, <1>5, <1>6, <1>7, <1>16, <2>1, Sentinels, Records
       DEF ImageKnown, Others, Same, Building, HasKey, OneHandler, Undisputed
  <2>5. CommitKnown'
    BY <1>1, <1>2, <1>3, <1>4, <1>5, <1>6, <1>7, <1>16, <2>1, Sentinels, Records
       DEF CommitKnown, Published, Verified, Valid, Others, Same
  <2> QED
    BY <2>2, <2>3, <2>4, <2>5
<1> QED
  BY <1>2, <1>3, <1>4, <1>5, <1>6, <1>7, <1>8, <1>9, <1>10, <1>11, <1>12, <1>13,
     <1>14, <1>15, <1>16
     DEF IInv, Control, Orderly, Undisputed, Leased

\* The disk of a build is not made, or only its file.
LEMMA NonativeStep ==
    ASSUME IInv, NEW h \in Handlers, At(h, "native"), Goto(h, "check"), Ticks,
           pending' = [pending EXCEPT ![proc[h].k] = IF @ = Nothing THEN Bare ELSE @],
           NEW left \in {staging[proc[h].k], proc[h].b}, staging[proc[h].k] \in {Nothing, left},
           staging' = [staging EXCEPT ![proc[h].k] = left],
           UNCHANGED <<quarantine, parent, fresh, journal, child, key, session,
                       reaper, alive, answered, collected, overtaken, contested,
                       stranded>>
    PROVE  IInv'
<1>1. /\ TypeOK /\ HasKey /\ OneHandler /\ OnePublisher /\ NoWreck
      /\ JournalKnown /\ JournalProtects /\ TouchProtects
  BY DEF IInv, Control, Leased
<1>2. Undisputed => /\ reaper.pc = "idle"
                    /\ PendingKnown /\ BuildKnown /\ ImageKnown /\ CommitKnown
  BY DEF IInv, Orderly
<1>3. proc[h].pc = "native" /\ proc[h] \in Locals /\ proc[h].b \in Builds /\ proc[h].k \in Keys
      /\ proc[h].l = Nothing /\ key[proc[h].b] = proc[h].k
  BY <1>1, Has DEF At, Building
<1>4. proc' \in [Handlers -> Locals] /\ Others(h) /\ Same(h) /\ proc'[h].pc = "check"
  BY <1>1, Went DEF Steps
<1>5. pending' \in [Keys -> Image \cup {Bare}] /\ pending'[proc[h].k] = (IF pending[proc[h].k] = Nothing THEN Bare ELSE pending[proc[h].k])
      /\ \A k \in Keys : k # proc[h].k => pending'[k] = pending[k]
  BY <1>1, <1>3 DEF TypeOK, Key, Build, Image, WithoutDir
<1>6. left = staging[proc[h].k] \/ left = proc[h].b
  BY DEF Key, Build
<1>7. staging' \in [Keys -> Image] /\ staging'[proc[h].k] = left
      /\ \A k \in Keys : k # proc[h].k => staging'[k] = staging[k]
  BY <1>1, <1>3 DEF TypeOK, Key, Build, Image
<1>8. TypeOK'
  BY <1>1, <1>3, <1>4, <1>5, <1>6, <1>7, Sentinels, Records
     DEF TypeOK, Others, Ticks
<1>9. HasKey'
  BY <1>1, <1>3, <1>4, <1>5, <1>6, <1>7, Sentinels, Records
     DEF HasKey, Others, Same, Building, Committing, Publishing, Leasing, Collecting
<1>10. OneHandler'
  BY <1>1, <1>3, <1>4, <1>5, <1>6, <1>7, Sentinels, Records
     DEF OneHandler, Others, Same
<1>11. OnePublisher'
  BY <1>1, <1>3, <1>4, <1>5, <1>6, <1>7, Sentinels, Records
     DEF OnePublisher, Others, Same, Publishing
<1>12. NoWreck'
  BY <1>1, <1>3, <1>4, <1>5, <1>6, <1>7, Sentinels, Records
     DEF NoWreck, Calm, Undisputed, Ticks, Missing, Verified, Valid, Key, Others, Same
<1>13. JournalKnown'
  BY <1>1, <1>3, <1>4, <1>5, <1>6, <1>7, Sentinels, Records
     DEF JournalKnown, Others, Same
<1>14. JournalProtects'
  BY <1>1, <1>3, <1>4, <1>5, <1>6, <1>7, Sentinels, Records
     DEF JournalProtects, Spared, Verified, Valid, Others, Same
<1>15. TouchProtects'
  BY <1>1, <1>3, <1>4, <1>5, <1>6, <1>7, Sentinels, Records
     DEF TouchProtects, Verified, Valid, Others, Same
<1>16. ASSUME Undisputed
      PROVE  PendingKnown' /\ BuildKnown' /\ ImageKnown' /\ CommitKnown'
  <2>1. /\ proc[h].k \notin stranded
        /\ \A g \in Handlers \ {h} : proc[g].pc \in Building => proc[g].k # proc[h].k
    BY <1>1, <1>2, <1>3, <1>16, Alone DEF Building
  <2>2. PendingKnown'
    <3>1. \A k \in Keys : pending'[k] \in Builds => key'[pending'[k]] = k
      BY <1>1, <1>2, <1>3, <1>4, <1>5, <1>6, <1>7, <1>16, <2>1, Sentinels
         DEF PendingKnown, BuildKnown, Building
    <3>2. \A k \in Keys : staging'[k] # Nothing => staging'[k] = pending'[k]
      BY <1>1, <1>2, <1>3, <1>4, <1>5, <1>6, <1>7, <1>16, <2>1, Sentinels
         DEF PendingKnown, TypeOK, Image, BuildKnown, Building
    <3>3. ASSUME NEW c \in Builds, session'[c] # "none"
          PROVE  \/ pending'[key[c]] = c
                 \/ \E g \in Handlers : proc'[g].b = c /\ proc'[g].pc = "rmdir"
                 \/ key[c] \in stranded' /\ session'[c] # "open"
      <4>1. session[c] # "none" /\ key[c] \in Keys
        BY <1>1, <1>3, <1>4, <1>5, <1>6, <1>7, <3>3 DEF OneHandler
      <4>2. CASE pending[key[c]] = c
        BY <1>1, <1>3, <1>4, <1>5, <1>6, <1>7, <4>1, <4>2, <2>1, Sentinels, <1>2,
           <1>16
           DEF BuildKnown, Building
      <4>3. CASE \E g \in Handlers : proc[g].b = c /\ proc[g].pc = "rmdir"
        BY <1>3, <1>4, <1>5, <1>6, <1>7, <4>3 DEF Others
      <4> QED
        BY <1>2, <1>3, <1>4, <1>5, <1>6, <1>7, <1>16, <3>3, <4>1, <4>2, <4>3
           DEF PendingKnown
    <3>4. \A k \in stranded' : pending'[k] = Bare
      BY <1>1, <1>2, <1>3, <1>4, <1>5, <1>6, <1>7, <1>16, <2>1, Sentinels
         DEF PendingKnown, BuildKnown, Building, TypeOK
    <3> QED
      BY <1>3, <1>4, <1>5, <1>6, <1>7, <3>1, <3>2, <3>3, <3>4 DEF PendingKnown
  <2>3. BuildKnown'
    BY <1>1, <1>2, <1>3, <1>4, <1>5, <1>6, <1>7, <1>16, <2>1, Sentinels, Records
       DEF BuildKnown, Others, Same, Building
  <2>4. ImageKnown'
    BY <1>1, <1>2, <1>3, <1>4, <1>5, <1>6, <1>7, <1>16, <2>1, Sentinels, Records
       DEF ImageKnown, Others, Same, Building
  <2>5. CommitKnown'
    BY <1>1, <1>2, <1>3, <1>4, <1>5, <1>6, <1>7, <1>16, <2>1, Sentinels, Records
       DEF CommitKnown, Published, Verified, Valid, Others, Same
  <2> QED
    BY <2>2, <2>3, <2>4, <2>5
<1> QED
  BY <1>2, <1>3, <1>4, <1>5, <1>6, <1>7, <1>8, <1>9, <1>10, <1>11, <1>12, <1>13,
     <1>14, <1>15, <1>16
     DEF IInv, Control, Orderly, Undisputed, Leased

\* Finalize closes the disk of the build, unless another handler has done so.
LEMMA DetachStep ==
    ASSUME IInv, NEW h \in Handlers, At(h, "detach"), Goto(h, "verify"), Ticks,
           NEW s \in {"closed", session[proc[h].b]}, s # "open",
           session' = [session EXCEPT ![proc[h].b] = s],
           UNCHANGED <<pending, staging, quarantine, parent, fresh, journal, child,
                       key, reaper, alive, answered, collected, overtaken,
                       contested, stranded>>
    PROVE  IInv'
<1>1. /\ TypeOK /\ HasKey /\ OneHandler /\ OnePublisher /\ NoWreck
      /\ JournalKnown /\ JournalProtects /\ TouchProtects
  BY DEF IInv, Control, Leased
<1>2. Undisputed => /\ reaper.pc = "idle"
                    /\ PendingKnown /\ BuildKnown /\ ImageKnown /\ CommitKnown
  BY DEF IInv, Orderly
<1>3. proc[h].pc = "detach" /\ proc[h] \in Locals /\ proc[h].b \in Builds /\ proc[h].k \in Keys
      /\ proc[h].l = Nothing /\ key[proc[h].b] = proc[h].k
  BY <1>1, Has DEF At, Building
<1>4. proc' \in [Handlers -> Locals] /\ Others(h) /\ Same(h) /\ proc'[h].pc = "verify"
  BY <1>1, Went DEF Steps
<1>5. session' \in [Builds -> {"none", "open", "closed"}] /\ session'[proc[h].b] = s
      /\ \A c \in Builds : c # proc[h].b => session'[c] = session[c]
  BY <1>1, <1>3 DEF TypeOK, Key, Build
<1>6. s # "open" /\ (s = "none" => session[proc[h].b] = "none")
  BY DEF Build
<1>7. TypeOK'
  BY <1>1, <1>3, <1>4, <1>5, <1>6, Sentinels, Records
     DEF TypeOK, Others, Ticks
<1>8. HasKey'
  BY <1>1, <1>3, <1>4, <1>5, <1>6, Sentinels, Records
     DEF HasKey, Others, Same, Building, Committing, Publishing, Leasing, Collecting
<1>9. OneHandler'
  BY <1>1, <1>3, <1>4, <1>5, <1>6, Sentinels, Records
     DEF OneHandler, Others, Same
<1>10. OnePublisher'
  BY <1>1, <1>3, <1>4, <1>5, <1>6, Sentinels, Records
     DEF OnePublisher, Others, Same, Publishing
<1>11. NoWreck'
  BY <1>1, <1>3, <1>4, <1>5, <1>6, Sentinels, Records
     DEF NoWreck, Calm, Undisputed, Ticks, Missing, Verified, Valid, Key, Others, Same
<1>12. JournalKnown'
  BY <1>1, <1>3, <1>4, <1>5, <1>6, Sentinels, Records
     DEF JournalKnown, Others, Same
<1>13. JournalProtects'
  BY <1>1, <1>3, <1>4, <1>5, <1>6, Sentinels, Records
     DEF JournalProtects, Spared, Verified, Valid, Others, Same
<1>14. TouchProtects'
  BY <1>1, <1>3, <1>4, <1>5, <1>6, Sentinels, Records
     DEF TouchProtects, Verified, Valid, Others, Same
<1>15. ASSUME Undisputed
      PROVE  PendingKnown' /\ BuildKnown' /\ ImageKnown' /\ CommitKnown'
  <2>1. /\ proc[h].k \notin stranded
        /\ \A g \in Handlers \ {h} : proc[g].pc \in Building => proc[g].k # proc[h].k
    BY <1>1, <1>2, <1>3, <1>15, Alone DEF Building
  <2>2. PendingKnown'
    <3>1. \A k \in Keys : pending'[k] \in Builds => key'[pending'[k]] = k
      BY <1>1, <1>2, <1>3, <1>4, <1>5, <1>6, <1>15, <2>1, Sentinels DEF PendingKnown
    <3>2. \A k \in Keys : staging'[k] # Nothing => staging'[k] = pending'[k]
      BY <1>1, <1>2, <1>3, <1>4, <1>5, <1>6, <1>15, <2>1, Sentinels
         DEF PendingKnown, BuildKnown, Building, TypeOK, Image
    <3>3. ASSUME NEW c \in Builds, session'[c] # "none"
          PROVE  \/ pending'[key[c]] = c
                 \/ \E g \in Handlers : proc'[g].b = c /\ proc'[g].pc = "rmdir"
                 \/ key[c] \in stranded' /\ session'[c] # "open"
      <4>1. CASE c = proc[h].b
        BY <1>2, <1>3, <1>4, <1>5, <1>6, <1>15, <2>1, <4>1, Sentinels
           DEF BuildKnown, Building
      <4>2. CASE c # proc[h].b
        <5>1. session[c] # "none" /\ key[c] \in Keys
          BY <1>1, <1>3, <1>4, <1>5, <1>6, <3>3, <4>2 DEF OneHandler
        <5>2. CASE pending[key[c]] = c
          BY <1>1, <1>2, <1>3, <1>4, <1>5, <1>6, <1>15, <2>1, <4>2, <5>1, <5>2,
             Sentinels
             DEF BuildKnown, Building
        <5>3. CASE \E g \in Handlers : proc[g].b = c /\ proc[g].pc = "rmdir"
          BY <1>3, <1>4, <1>5, <1>6, <4>2, <5>3 DEF Others
        <5> QED
          BY <1>2, <1>3, <1>4, <1>5, <1>6, <1>15, <3>3, <4>2, <5>1, <5>2, <5>3
             DEF PendingKnown
      <4> QED
        BY <4>1, <4>2
    <3>4. \A k \in stranded' : pending'[k] = Bare
      BY <1>1, <1>2, <1>3, <1>4, <1>5, <1>6, <1>15, <2>1, Sentinels
         DEF PendingKnown, BuildKnown, Building, TypeOK
    <3> QED
      BY <1>3, <1>4, <1>5, <1>6, <3>1, <3>2, <3>3, <3>4 DEF PendingKnown
  <2>3. BuildKnown'
    BY <1>1, <1>2, <1>3, <1>4, <1>5, <1>6, <1>15, <2>1, Sentinels, Records
       DEF BuildKnown, Others, Same, Building
  <2>4. ImageKnown'
    BY <1>1, <1>2, <1>3, <1>4, <1>5, <1>6, <1>15, <2>1, Sentinels, Records
       DEF ImageKnown, Others, Same, Building, HasKey, OneHandler, Undisputed
  <2>5. CommitKnown'
    BY <1>1, <1>2, <1>3, <1>4, <1>5, <1>6, <1>15, <2>1, Sentinels, Records
       DEF CommitKnown, Published, Verified, Valid, Others, Same
  <2> QED
    BY <2>2, <2>3, <2>4, <2>5
<1> QED
  BY <1>2, <1>3, <1>4, <1>5, <1>6, <1>7, <1>8, <1>9, <1>10, <1>11, <1>12, <1>13,
     <1>14, <1>15
     DEF IInv, Control, Orderly, Undisputed, Leased

\* The parent directory is made; it was not there.
LEMMA MkparentStep ==
    ASSUME IInv, NEW h \in Handlers, At(h, "publish"), Goto(h, "move"), Ticks, Missing(proc[h].k),
           parent' = [parent EXCEPT ![proc[h].k].dir = TRUE],
           UNCHANGED <<pending, staging, quarantine, fresh, journal, child, key,
                       session, reaper, alive, answered, collected, overtaken,
                       contested, stranded>>
    PROVE  IInv'
<1>1. /\ TypeOK /\ HasKey /\ OneHandler /\ OnePublisher /\ NoWreck
      /\ JournalKnown /\ JournalProtects /\ TouchProtects
  BY DEF IInv, Control, Leased
<1>2. Undisputed => /\ reaper.pc = "idle"
                    /\ PendingKnown /\ BuildKnown /\ ImageKnown /\ CommitKnown
  BY DEF IInv, Orderly
<1>3. proc[h].pc = "publish" /\ proc[h] \in Locals /\ proc[h].b \in Builds /\ proc[h].k \in Keys
      /\ proc[h].l = Nothing /\ key[proc[h].b] = proc[h].k
  BY <1>1, Has DEF At, Building
<1>4. proc' \in [Handlers -> Locals] /\ Others(h) /\ Same(h) /\ proc'[h].pc = "move"
  BY <1>1, Went DEF Steps
<1>5. ~parent[proc[h].k].dir /\ ~parent[proc[h].k].complete /\ parent[proc[h].k] = NoDir
  BY <1>1, <1>3, Records DEF TypeOK, Missing, Key
<1>6. parent' \in [Keys -> ParentDirs]
      /\ (\A k \in Keys : parent'[k].dir \/ parent'[k] = NoDir)
      /\ parent'[proc[h].k].dir /\ ~parent'[proc[h].k].complete /\ parent'[proc[h].k].vhdx = Nothing
      /\ \A k \in Keys : k # proc[h].k => parent'[k] = parent[k]
  BY <1>1, <1>3, <1>5, Records DEF TypeOK, ParentDirs, Key
<1>7. TypeOK'
  BY <1>1, <1>3, <1>4, <1>5, <1>6, Sentinels, Records
     DEF TypeOK, Others, Ticks
<1>8. HasKey'
  BY <1>1, <1>3, <1>4, <1>5, <1>6, Sentinels, Records
     DEF HasKey, Others, Same, Building, Committing, Publishing, Leasing, Collecting
<1>9. OneHandler'
  BY <1>1, <1>3, <1>4, <1>5, <1>6, Sentinels, Records
     DEF OneHandler, Others, Same
<1>10. OnePublisher'
  BY <1>1, <1>3, <1>4, <1>5, <1>6, Sentinels, Records
     DEF OnePublisher, Others, Same, Publishing
<1>11. NoWreck'
  BY <1>1, <1>3, <1>4, <1>5, <1>6, Sentinels, Records
     DEF NoWreck, Calm, Undisputed, Ticks, Missing, Verified, Valid, Key, Others,
         Same, Publishing
<1>12. JournalKnown'
  BY <1>1, <1>3, <1>4, <1>5, <1>6, Sentinels, Records
     DEF JournalKnown, Others, Same
<1>13. JournalProtects'
  BY <1>1, <1>3, <1>4, <1>5, <1>6, Sentinels, Records
     DEF JournalProtects, Spared, Verified, Valid, Others, Same
<1>14. TouchProtects'
  BY <1>1, <1>3, <1>4, <1>5, <1>6, Sentinels, Records
     DEF TouchProtects, Verified, Valid, Others, Same
<1>15. ASSUME Undisputed
      PROVE  PendingKnown' /\ BuildKnown' /\ ImageKnown' /\ CommitKnown'
  <2>1. /\ proc[h].k \notin stranded
        /\ \A g \in Handlers \ {h} : proc[g].pc \in Building => proc[g].k # proc[h].k
    BY <1>1, <1>2, <1>3, <1>15, Alone DEF Building
  <2>2. PendingKnown'
    BY <1>1, <1>2, <1>3, <1>4, <1>5, <1>6, <1>15, <2>1, Sentinels, Records
       DEF PendingKnown, TypeOK, Others, Same
  <2>3. BuildKnown'
    BY <1>1, <1>2, <1>3, <1>4, <1>5, <1>6, <1>15, <2>1, Sentinels, Records
       DEF BuildKnown, Others, Same, Building
  <2>4. ImageKnown'
    BY <1>1, <1>2, <1>3, <1>4, <1>5, <1>6, <1>15, <2>1, Sentinels, Records
       DEF ImageKnown, Others, Same, Building
  <2>5. CommitKnown'
    BY <1>1, <1>2, <1>3, <1>4, <1>5, <1>6, <1>15, <2>1, Sentinels, Records
       DEF CommitKnown, Published, Verified, Valid, Others, Same
  <2> QED
    BY <2>2, <2>3, <2>4, <2>5
<1> QED
  BY <1>2, <1>3, <1>4, <1>5, <1>6, <1>7, <1>8, <1>9, <1>10, <1>11, <1>12, <1>13,
     <1>14, <1>15
     DEF IInv, Control, Orderly, Undisputed, Leased

\* The image moves from the pending directory to the parent directory.
LEMMA MoveStep ==
    ASSUME IInv, NEW h \in Handlers, At(h, "move"), Goto(h, "metadata"), Ticks, staging[proc[h].k] # Nothing,
           parent' = [parent EXCEPT ![proc[h].k].vhdx = staging[proc[h].k]],
           staging' = [staging EXCEPT ![proc[h].k] = Nothing],
           UNCHANGED <<pending, quarantine, fresh, journal, child, key, session,
                       reaper, alive, answered, collected, overtaken, contested,
                       stranded>>
    PROVE  IInv'
<1>1. /\ TypeOK /\ HasKey /\ OneHandler /\ OnePublisher /\ NoWreck
      /\ JournalKnown /\ JournalProtects /\ TouchProtects
  BY DEF IInv, Control, Leased
<1>2. Undisputed => /\ reaper.pc = "idle"
                    /\ PendingKnown /\ BuildKnown /\ ImageKnown /\ CommitKnown
  BY DEF IInv, Orderly
<1>3. proc[h].pc = "move" /\ proc[h] \in Locals /\ proc[h].b \in Builds /\ proc[h].k \in Keys
      /\ proc[h].l = Nothing /\ key[proc[h].b] = proc[h].k
  BY <1>1, Has DEF At, Building
<1>4. proc' \in [Handlers -> Locals] /\ Others(h) /\ Same(h) /\ proc'[h].pc = "metadata"
  BY <1>1, Went DEF Steps
<1>5. parent[proc[h].k].dir /\ ~parent[proc[h].k].complete
  BY <1>1, <1>3 DEF OnePublisher, Publishing
<1>6. parent' \in [Keys -> ParentDirs]
      /\ (\A k \in Keys : parent'[k].dir \/ parent'[k] = NoDir)
      /\ parent'[proc[h].k].dir /\ ~parent'[proc[h].k].complete
      /\ parent'[proc[h].k].vhdx = staging[proc[h].k]
      /\ \A k \in Keys : k # proc[h].k => parent'[k] = parent[k]
  BY <1>1, <1>3, <1>5 DEF TypeOK, ParentDirs, Key
<1>7. staging' \in [Keys -> Image] /\ staging'[proc[h].k] = Nothing
      /\ \A k \in Keys : k # proc[h].k => staging'[k] = staging[k]
  BY <1>1, <1>3 DEF TypeOK, Key, Build, Image
<1>8. TypeOK'
  BY <1>1, <1>3, <1>4, <1>5, <1>6, <1>7, Sentinels, Records
     DEF TypeOK, Others, Ticks
<1>9. HasKey'
  BY <1>1, <1>3, <1>4, <1>5, <1>6, <1>7, Sentinels, Records
     DEF HasKey, Others, Same, Building, Committing, Publishing, Leasing, Collecting
<1>10. OneHandler'
  BY <1>1, <1>3, <1>4, <1>5, <1>6, <1>7, Sentinels, Records
     DEF OneHandler, Others, Same
<1>11. OnePublisher'
  BY <1>1, <1>3, <1>4, <1>5, <1>6, <1>7, Sentinels, Records
     DEF OnePublisher, Others, Same, Publishing
<1>12. NoWreck'
  BY <1>1, <1>3, <1>4, <1>5, <1>6, <1>7, Sentinels, Records
     DEF NoWreck, Calm, Undisputed, Ticks, Missing, Verified, Valid, Key, Others,
         Same, Publishing
<1>13. JournalKnown'
  BY <1>1, <1>3, <1>4, <1>5, <1>6, <1>7, Sentinels, Records
     DEF JournalKnown, Others, Same
<1>14. JournalProtects'
  BY <1>1, <1>3, <1>4, <1>5, <1>6, <1>7, Sentinels, Records
     DEF JournalProtects, Spared, Verified, Valid, Others, Same
<1>15. TouchProtects'
  BY <1>1, <1>3, <1>4, <1>5, <1>6, <1>7, Sentinels, Records
     DEF TouchProtects, Verified, Valid, Others, Same
<1>16. ASSUME Undisputed
      PROVE  PendingKnown' /\ BuildKnown' /\ ImageKnown' /\ CommitKnown'
  <2>1. /\ proc[h].k \notin stranded
        /\ \A g \in Handlers \ {h} : proc[g].pc \in Building => proc[g].k # proc[h].k
    BY <1>1, <1>2, <1>3, <1>16, Alone DEF Building
  <2>2. PendingKnown'
    <3>1. \A k \in Keys : pending'[k] \in Builds => key'[pending'[k]] = k
      BY <1>1, <1>2, <1>3, <1>4, <1>5, <1>6, <1>7, <1>16, <2>1, Sentinels
         DEF PendingKnown
    <3>2. \A k \in Keys : staging'[k] # Nothing => staging'[k] = pending'[k]
      BY <1>1, <1>2, <1>3, <1>4, <1>5, <1>6, <1>7, <1>16, <2>1, Sentinels
         DEF PendingKnown, TypeOK, Image
    <3>3. ASSUME NEW c \in Builds, session'[c] # "none"
          PROVE  \/ pending'[key[c]] = c
                 \/ \E g \in Handlers : proc'[g].b = c /\ proc'[g].pc = "rmdir"
                 \/ key[c] \in stranded' /\ session'[c] # "open"
      <4>1. session[c] # "none" /\ key[c] \in Keys
        BY <1>1, <1>3, <1>4, <1>5, <1>6, <1>7, <3>3 DEF OneHandler
      <4>2. CASE pending[key[c]] = c
        BY <1>1, <1>3, <1>4, <1>5, <1>6, <1>7, <4>1, <4>2, <2>1, Sentinels
      <4>3. CASE \E g \in Handlers : proc[g].b = c /\ proc[g].pc = "rmdir"
        BY <1>3, <1>4, <1>5, <1>6, <1>7, <4>3 DEF Others
      <4> QED
        BY <1>2, <1>3, <1>4, <1>5, <1>6, <1>7, <1>16, <3>3, <4>1, <4>2, <4>3
           DEF PendingKnown
    <3>4. \A k \in stranded' : pending'[k] = Bare
      BY <1>1, <1>2, <1>3, <1>4, <1>5, <1>6, <1>7, <1>16, <2>1, Sentinels
         DEF PendingKnown, BuildKnown, Building, TypeOK
    <3> QED
      BY <1>3, <1>4, <1>5, <1>6, <1>7, <3>1, <3>2, <3>3, <3>4 DEF PendingKnown
  <2>3. BuildKnown'
    BY <1>1, <1>2, <1>3, <1>4, <1>5, <1>6, <1>7, <1>16, <2>1, Sentinels, Records
       DEF BuildKnown, Others, Same, Building, Publishing
  <2>4. ImageKnown'
    BY <1>1, <1>2, <1>3, <1>4, <1>5, <1>6, <1>7, <1>16, <2>1, Sentinels, Records
       DEF ImageKnown, Others, Same, Building
  <2>5. CommitKnown'
    <3>1. ASSUME NEW c \in Builds, key[c] \in Keys, Published(c) PROVE Published(c)'
      BY <1>1, <1>3, <1>4, <1>5, <1>6, <1>7, <3>1 DEF Published, Verified, Valid
    <3>2. ASSUME NEW g \in Handlers, g # h, proc[g].pc \in {"unlist", "rmdir"}
          PROVE  proc[g].b \in Builds /\ key[proc[g].b] \in Keys
      BY <1>1, <3>2 DEF HasKey, Building
    <3>3. \A c \in answered : key'[c] \in Keys /\ Published(c)'
      BY <1>1, <1>2, <1>3, <1>4, <1>5, <1>6, <1>7, <1>16, <3>1 DEF TypeOK, CommitKnown
    <3>4. ASSUME NEW g \in Handlers, g # h, proc[g].then = "commit", proc[g].pc \in {"unlist", "rmdir"}
          PROVE  Published(proc[g].b)'
      <4>1. Published(proc[g].b)
        BY <1>2, <1>16, <3>4 DEF CommitKnown
      <4>2. Published(proc[g].b)'
        BY <3>1, <3>2, <3>4, <4>1, <1>3, <1>4, <1>5, <1>6, <1>7 DEF Others, Published
      <4> QED
        BY <4>2
    <3>5. ASSUME proc'[h].then = "commit", proc'[h].pc \in {"unlist", "rmdir"}
          PROVE  Published(proc[h].b)'
      BY <1>3, <1>4, <1>5, <1>6, <1>7, <1>16, <3>5, Records, Sentinels
         DEF Published, Verified, Valid, Same
    <3> QED
      BY <1>3, <1>4, <1>5, <1>6, <1>7, <3>3, <3>4, <3>5 DEF CommitKnown, Others, Same
  <2> QED
    BY <2>2, <2>3, <2>4, <2>5
<1> QED
  BY <1>2, <1>3, <1>4, <1>5, <1>6, <1>7, <1>8, <1>9, <1>10, <1>11, <1>12, <1>13,
     <1>14, <1>15, <1>16
     DEF IInv, Control, Orderly, Undisputed, Leased

\* A commit that fails after the move puts its image back, if it can.
LEMMA RollbackStep ==
    ASSUME IInv, NEW h \in Handlers, proc[h].pc \in {"metadata", "complete"}, Rollback(h), Ticks, ~Calm',
           UNCHANGED <<pending, quarantine, journal, child, key, session, reaper,
                       alive, answered, collected, overtaken, contested, stranded>>
    PROVE  IInv'
<1>1. /\ TypeOK /\ HasKey /\ OneHandler /\ OnePublisher /\ NoWreck
      /\ JournalKnown /\ JournalProtects /\ TouchProtects
  BY DEF IInv, Control, Leased
<1>2. Undisputed => /\ reaper.pc = "idle"
                    /\ PendingKnown /\ BuildKnown /\ ImageKnown /\ CommitKnown
  BY DEF IInv, Orderly
<1>3. proc[h] \in Locals /\ proc[h].b \in Builds /\ proc[h].k \in Keys /\ proc[h].l = Nothing
      /\ proc[h].pc \in {"metadata", "complete"} /\ key[proc[h].b] = proc[h].k
  BY <1>1, Has DEF Building
<1>4. proc' \in [Handlers -> Locals] /\ Others(h) /\ proc'[h] = Idle
  BY <1>1, Returned DEF Rollback
<1>5. parent[proc[h].k].dir /\ ~parent[proc[h].k].complete
  BY <1>1, <1>3 DEF OnePublisher, Publishing
<1>6. PICK back \in BOOLEAN :
      /\ back = (pending[proc[h].k] # Nothing /\ ~Attached(proc[h].k))
      /\ parent' = [parent EXCEPT ![proc[h].k] = IF back THEN NoDir ELSE OnlyImage(proc[h].k)]
      /\ staging' = [staging EXCEPT ![proc[h].k] = IF back THEN parent[proc[h].k].vhdx ELSE @]
  BY DEF Rollback, Key
<1>7. parent[proc[h].k].vhdx \in Image /\ OnlyImage(proc[h].k) \in ParentDirs
      /\ OnlyImage(proc[h].k).dir /\ ~OnlyImage(proc[h].k).complete
  BY <1>1, <1>3 DEF TypeOK, ParentDirs, OnlyImage, EmptyDir, NoDir, Image
<1>8. parent' \in [Keys -> ParentDirs]
      /\ (\A k \in Keys : parent'[k].dir \/ parent'[k] = NoDir)
      /\ ~parent'[proc[h].k].complete
      /\ \A k \in Keys : k # proc[h].k => parent'[k] = parent[k]
  BY <1>1, <1>3, <1>6, <1>7, Records DEF TypeOK
<1>9. staging' \in [Keys -> Image] /\ (\A k \in Keys : k # proc[h].k => staging'[k] = staging[k])
      /\ (staging'[proc[h].k] # Nothing => pending[proc[h].k] # Nothing)
  BY <1>1, <1>3, <1>6, <1>7 DEF TypeOK
<1>10. fresh' = fresh \ {proc[h].k}
  BY DEF Rollback, Key
<1>11. \A g \in Handlers \ {h} :
         proc[g].pc \in Publishing => proc[g].k \in Keys /\ proc[g].k # proc[h].k
  BY <1>1, <1>3 DEF OnePublisher, HasKey, Publishing, Building
<1>12. Undisputed => staging'[proc[h].k] = proc[h].b
  BY <1>1, <1>2, <1>3, <1>6, Sentinels
     DEF TypeOK, BuildKnown, ImageKnown, Attached, Building
<1>13. TypeOK'
  BY <1>1, <1>3, <1>4, <1>5, <1>8, <1>9, <1>10, <1>11, <1>12, Sentinels, Records
     DEF TypeOK, Others, Ticks
<1>14. HasKey'
  BY <1>1, <1>3, <1>4, <1>5, <1>8, <1>9, <1>10, <1>11, <1>12, Sentinels, Records
     DEF HasKey, Others, Same, Building, Committing, Publishing, Leasing, Collecting
<1>15. OneHandler'
  BY <1>1, <1>3, <1>4, <1>5, <1>8, <1>9, <1>10, <1>11, <1>12, Sentinels, Records
     DEF OneHandler, Others, Same
<1>16. OnePublisher'
  BY <1>1, <1>3, <1>4, <1>5, <1>8, <1>9, <1>10, <1>11, <1>12, Sentinels, Records
     DEF OnePublisher, Others, Same, Publishing
<1>17. NoWreck'
  BY DEF NoWreck
<1>18. JournalKnown'
  BY <1>1, <1>3, <1>4, <1>5, <1>8, <1>9, <1>10, <1>11, <1>12, Sentinels, Records
     DEF JournalKnown, Others, Same
<1>19. JournalProtects'
  <2>1. ASSUME NEW l \in Leases \ overtaken, journal[l] # Nothing
        PROVE  journal[l] \in Keys /\ journal[l] # proc[h].k
    BY <1>1, <1>3, <1>4, <1>5, <1>8, <1>9, <1>10, <1>11, <1>12, <2>1
       DEF TypeOK, JournalProtects, Verified, Valid
  <2>2. ASSUME NEW l \in Leases \ overtaken, journal[l] # Nothing
        PROVE  Verified(journal[l])' /\ parent'[journal[l]] = parent[journal[l]]
    BY <1>1, <1>3, <1>4, <1>5, <1>8, <1>9, <1>10, <1>11, <1>12, <2>1, <2>2
       DEF JournalProtects, Verified, Valid
  <2>3. ASSUME NEW l \in Leases \ overtaken, journal[l] # Nothing, NEW g \in Handlers
        PROVE  Spared(g, journal[l])'
    BY <1>1, <1>3, <1>4, <1>5, <1>8, <1>9, <1>10, <1>11, <1>12, <2>1, <2>3
       DEF JournalProtects, Spared, Others, Same, Idle
  <2> QED
    BY <1>1, <1>3, <1>4, <1>5, <1>8, <1>9, <1>10, <1>11, <1>12, <2>2, <2>3
       DEF JournalProtects
<1>20. TouchProtects'
  <2>1. ASSUME NEW g \in Handlers, g # h, proc[g].l \in Leases \ overtaken, proc[g].pc # "child"
        PROVE  proc[g].k \in Keys /\ proc[g].k # proc[h].k /\ Verified(proc[g].k)
    BY <1>1, <1>3, <1>4, <1>5, <1>8, <1>9, <1>10, <1>11, <1>12, <2>1, Sentinels
       DEF TypeOK, Locals, TouchProtects, Verified, Valid, HasKey,
       Idle, Steps, Building, Leasing, Collecting
  <2>2. ASSUME NEW g \in Handlers, g # h, proc[g].l \in Leases \ overtaken, proc[g].pc # "child"
        PROVE  Verified(proc[g].k)'
    BY <1>3, <1>4, <1>5, <1>8, <1>9, <1>10, <1>11, <1>12, <2>1, <2>2
       DEF Verified, Valid, Others
  <2> QED
    BY <1>1, <1>3, <1>4, <1>5, <1>8, <1>9, <1>10, <1>11, <1>12, <2>1, <2>2,
       Sentinels, Records
       DEF TouchProtects, Others, Same
<1>21. ASSUME Undisputed
      PROVE  PendingKnown' /\ BuildKnown' /\ ImageKnown' /\ CommitKnown'
  <2>1. /\ proc[h].k \notin stranded
        /\ \A g \in Handlers \ {h} : proc[g].pc \in Building => proc[g].k # proc[h].k
    BY <1>1, <1>2, <1>3, <1>21, Alone DEF Building
  <2>2. PendingKnown'
    <3>1. \A k \in Keys : pending'[k] \in Builds => key'[pending'[k]] = k
      BY <1>1, <1>2, <1>3, <1>4, <1>5, <1>8, <1>9, <1>10, <1>11, <1>12, <1>21, <2>1,
         Sentinels
         DEF PendingKnown, BuildKnown, Building
    <3>2. \A k \in Keys : staging'[k] # Nothing => staging'[k] = pending'[k]
      BY <1>1, <1>2, <1>3, <1>4, <1>5, <1>8, <1>9, <1>10, <1>11, <1>12, <1>21, <2>1,
         Sentinels
         DEF PendingKnown, TypeOK, Image, BuildKnown, Building
    <3>3. ASSUME NEW c \in Builds, session'[c] # "none"
          PROVE  \/ pending'[key[c]] = c
                 \/ \E g \in Handlers : proc'[g].b = c /\ proc'[g].pc = "rmdir"
                 \/ key[c] \in stranded' /\ session'[c] # "open"
      <4>1. session[c] # "none" /\ key[c] \in Keys
        BY <1>1, <1>3, <1>4, <1>5, <1>8, <1>9, <1>10, <1>11, <1>12, <3>3 DEF OneHandler
      <4>2. CASE pending[key[c]] = c
        BY <1>1, <1>3, <1>4, <1>5, <1>8, <1>9, <1>10, <1>11, <1>12, <4>1, <4>2,
           <2>1, Sentinels
      <4>3. CASE \E g \in Handlers : proc[g].b = c /\ proc[g].pc = "rmdir"
        BY <1>3, <1>4, <1>5, <1>8, <1>9, <1>10, <1>11, <1>12, <4>3 DEF Others
      <4> QED
        BY <1>2, <1>3, <1>4, <1>5, <1>8, <1>9, <1>10, <1>11, <1>12, <1>21, <3>3,
           <4>1, <4>2, <4>3
           DEF PendingKnown
    <3>4. \A k \in stranded' : pending'[k] = Bare
      BY <1>1, <1>2, <1>3, <1>4, <1>5, <1>8, <1>9, <1>10, <1>11, <1>12, <1>21, <2>1,
         Sentinels
         DEF PendingKnown, BuildKnown, Building, TypeOK
    <3> QED
      BY <1>3, <1>4, <1>5, <1>8, <1>9, <1>10, <1>11, <1>12, <3>1, <3>2, <3>3, <3>4
         DEF PendingKnown
  <2>3. BuildKnown'
    BY <1>1, <1>2, <1>3, <1>4, <1>5, <1>8, <1>9, <1>10, <1>11, <1>12, <1>21, <2>1,
       Sentinels, Records
       DEF BuildKnown, Others, Same, Building, HasKey
  <2>4. ImageKnown'
    BY <1>1, <1>2, <1>3, <1>4, <1>5, <1>8, <1>9, <1>10, <1>11, <1>12, <1>21, <2>1,
       Sentinels, Records
       DEF ImageKnown, Others, Same, Building, HasKey
  <2>5. CommitKnown'
    <3>1. ASSUME NEW c \in Builds, key[c] \in Keys, Published(c) PROVE Published(c)'
      BY <1>1, <1>3, <1>4, <1>5, <1>8, <1>9, <1>10, <1>11, <1>12, <3>1
         DEF Published, Verified, Valid
    <3>2. ASSUME NEW g \in Handlers, g # h, proc[g].pc \in {"unlist", "rmdir"}
          PROVE  proc[g].b \in Builds /\ key[proc[g].b] \in Keys
      BY <1>1, <3>2 DEF HasKey, Building
    <3>3. \A c \in answered : key'[c] \in Keys /\ Published(c)'
      BY <1>1, <1>2, <1>3, <1>4, <1>5, <1>8, <1>9, <1>10, <1>11, <1>12, <1>21, <3>1
         DEF TypeOK, CommitKnown
    <3>4. ASSUME NEW g \in Handlers, g # h, proc[g].then = "commit", proc[g].pc \in {"unlist", "rmdir"}
          PROVE  Published(proc[g].b)'
      <4>1. Published(proc[g].b)
        BY <1>2, <1>21, <3>4 DEF CommitKnown
      <4>2. Published(proc[g].b)'
        BY <3>1, <3>2, <3>4, <4>1, <1>3, <1>4, <1>5, <1>8, <1>9, <1>10, <1>11, <1>12
           DEF Others, Published
      <4> QED
        BY <4>2
    <3>5. ASSUME proc'[h].then = "commit", proc'[h].pc \in {"unlist", "rmdir"}
          PROVE  Published(proc[h].b)'
      BY <1>3, <1>4, <1>5, <1>8, <1>9, <1>10, <1>11, <1>12, <1>21, <3>5, Records,
         Sentinels
         DEF Published, Verified, Valid, Same
    <3> QED
      BY <1>3, <1>4, <1>5, <1>8, <1>9, <1>10, <1>11, <1>12, <3>3, <3>4, <3>5
         DEF CommitKnown, Others, Same
  <2> QED
    BY <2>2, <2>3, <2>4, <2>5
<1> QED
  BY <1>2, <1>3, <1>4, <1>5, <1>8, <1>9, <1>10, <1>11, <1>12, <1>13, <1>14, <1>15,
     <1>16, <1>17, <1>18, <1>19, <1>20, <1>21
     DEF IInv, Control, Orderly, Undisputed, Leased

\* A commit writes the metadata of its parent.
LEMMA MetadataStep ==
    ASSUME IInv, NEW h \in Handlers, At(h, "metadata"), Goto(h, "complete"), Ticks,
           parent' = [parent EXCEPT ![proc[h].k].metadata = proc[h].b],
           fresh' = fresh \cup {proc[h].k},
           UNCHANGED <<pending, staging, quarantine, journal, child, key, session,
                       reaper, alive, answered, collected, overtaken, contested,
                       stranded>>
    PROVE  IInv'
<1>1. /\ TypeOK /\ HasKey /\ OneHandler /\ OnePublisher /\ NoWreck
      /\ JournalKnown /\ JournalProtects /\ TouchProtects
  BY DEF IInv, Control, Leased
<1>2. Undisputed => /\ reaper.pc = "idle"
                    /\ PendingKnown /\ BuildKnown /\ ImageKnown /\ CommitKnown
  BY DEF IInv, Orderly
<1>3. proc[h].pc = "metadata" /\ proc[h] \in Locals /\ proc[h].b \in Builds /\ proc[h].k \in Keys
      /\ proc[h].l = Nothing /\ key[proc[h].b] = proc[h].k
  BY <1>1, Has DEF At, Building
<1>4. proc' \in [Handlers -> Locals] /\ Others(h) /\ Same(h) /\ proc'[h].pc = "complete"
  BY <1>1, Went DEF Steps
<1>5. parent[proc[h].k].dir /\ ~parent[proc[h].k].complete
  BY <1>1, <1>3 DEF OnePublisher, Publishing
<1>6. parent' \in [Keys -> ParentDirs]
      /\ (\A k \in Keys : parent'[k].dir \/ parent'[k] = NoDir)
      /\ parent'[proc[h].k].dir /\ ~parent'[proc[h].k].complete
      /\ parent'[proc[h].k].vhdx = parent[proc[h].k].vhdx
      /\ parent'[proc[h].k].metadata = proc[h].b
      /\ \A k \in Keys : k # proc[h].k => parent'[k] = parent[k]
  BY <1>1, <1>3, <1>5 DEF TypeOK, ParentDirs, Key, Build, Image
<1>7. fresh' = fresh \cup {proc[h].k}
  BY DEF Key
<1>8. TypeOK'
  BY <1>1, <1>3, <1>4, <1>5, <1>6, <1>7, Sentinels, Records
     DEF TypeOK, Others, Ticks
<1>9. HasKey'
  BY <1>1, <1>3, <1>4, <1>5, <1>6, <1>7, Sentinels, Records
     DEF HasKey, Others, Same, Building, Committing, Publishing, Leasing, Collecting
<1>10. OneHandler'
  BY <1>1, <1>3, <1>4, <1>5, <1>6, <1>7, Sentinels, Records
     DEF OneHandler, Others, Same
<1>11. OnePublisher'
  BY <1>1, <1>3, <1>4, <1>5, <1>6, <1>7, Sentinels, Records
     DEF OnePublisher, Others, Same, Publishing
<1>12. NoWreck'
  BY <1>1, <1>3, <1>4, <1>5, <1>6, <1>7, Sentinels, Records
     DEF NoWreck, Calm, Undisputed, Ticks, Missing, Verified, Valid, Key, Others,
         Same, Publishing
<1>13. JournalKnown'
  BY <1>1, <1>3, <1>4, <1>5, <1>6, <1>7, Sentinels, Records
     DEF JournalKnown, Others, Same
<1>14. JournalProtects'
  <2>1. ASSUME NEW l \in Leases \ overtaken, journal[l] # Nothing
        PROVE  journal[l] \in Keys /\ journal[l] # proc[h].k
    BY <1>1, <1>3, <1>4, <1>5, <1>6, <1>7, <2>1
       DEF TypeOK, JournalProtects, Verified, Valid
  <2>2. ASSUME NEW l \in Leases \ overtaken, journal[l] # Nothing
        PROVE  Verified(journal[l])' /\ parent'[journal[l]] = parent[journal[l]]
    BY <1>1, <1>3, <1>4, <1>5, <1>6, <1>7, <2>1, <2>2
       DEF JournalProtects, Verified, Valid
  <2>3. ASSUME NEW l \in Leases \ overtaken, journal[l] # Nothing, NEW g \in Handlers
        PROVE  Spared(g, journal[l])'
    BY <1>1, <1>3, <1>4, <1>5, <1>6, <1>7, <2>1, <2>3
       DEF JournalProtects, Spared, Others, Same, Idle
  <2> QED
    BY <1>1, <1>3, <1>4, <1>5, <1>6, <1>7, <2>2, <2>3 DEF JournalProtects
<1>15. TouchProtects'
  <2>1. ASSUME NEW g \in Handlers, g # h, proc[g].l \in Leases \ overtaken, proc[g].pc # "child"
        PROVE  proc[g].k \in Keys /\ proc[g].k # proc[h].k /\ Verified(proc[g].k)
    BY <1>1, <1>3, <1>4, <1>5, <1>6, <1>7, <2>1, Sentinels
       DEF TypeOK, Locals, TouchProtects, Verified, Valid, HasKey,
       Idle, Steps, Building, Leasing, Collecting
  <2>2. ASSUME NEW g \in Handlers, g # h, proc[g].l \in Leases \ overtaken, proc[g].pc # "child"
        PROVE  Verified(proc[g].k)'
    BY <1>3, <1>4, <1>5, <1>6, <1>7, <2>1, <2>2 DEF Verified, Valid, Others
  <2> QED
    BY <1>1, <1>3, <1>4, <1>5, <1>6, <1>7, <2>1, <2>2, Sentinels, Records
       DEF TouchProtects, Others, Same
<1>16. ASSUME Undisputed
      PROVE  PendingKnown' /\ BuildKnown' /\ ImageKnown' /\ CommitKnown'
  <2>1. /\ proc[h].k \notin stranded
        /\ \A g \in Handlers \ {h} : proc[g].pc \in Building => proc[g].k # proc[h].k
    BY <1>1, <1>2, <1>3, <1>16, Alone DEF Building
  <2>2. PendingKnown'
    BY <1>1, <1>2, <1>3, <1>4, <1>5, <1>6, <1>7, <1>16, <2>1, Sentinels, Records
       DEF PendingKnown, TypeOK, Others, Same
  <2>3. BuildKnown'
    BY <1>1, <1>2, <1>3, <1>4, <1>5, <1>6, <1>7, <1>16, <2>1, Sentinels, Records
       DEF BuildKnown, Others, Same, Building
  <2>4. ImageKnown'
    BY <1>1, <1>2, <1>3, <1>4, <1>5, <1>6, <1>7, <1>16, <2>1, Sentinels, Records
       DEF ImageKnown, Others, Same, Building
  <2>5. CommitKnown'
    <3>1. ASSUME NEW c \in Builds, key[c] \in Keys, Published(c) PROVE Published(c)'
      BY <1>1, <1>3, <1>4, <1>5, <1>6, <1>7, <3>1 DEF Published, Verified, Valid
    <3>2. ASSUME NEW g \in Handlers, g # h, proc[g].pc \in {"unlist", "rmdir"}
          PROVE  proc[g].b \in Builds /\ key[proc[g].b] \in Keys
      BY <1>1, <3>2 DEF HasKey, Building
    <3>3. \A c \in answered : key'[c] \in Keys /\ Published(c)'
      BY <1>1, <1>2, <1>3, <1>4, <1>5, <1>6, <1>7, <1>16, <3>1 DEF TypeOK, CommitKnown
    <3>4. ASSUME NEW g \in Handlers, g # h, proc[g].then = "commit", proc[g].pc \in {"unlist", "rmdir"}
          PROVE  Published(proc[g].b)'
      <4>1. Published(proc[g].b)
        BY <1>2, <1>16, <3>4 DEF CommitKnown
      <4>2. Published(proc[g].b)'
        BY <3>1, <3>2, <3>4, <4>1, <1>3, <1>4, <1>5, <1>6, <1>7 DEF Others, Published
      <4> QED
        BY <4>2
    <3>5. ASSUME proc'[h].then = "commit", proc'[h].pc \in {"unlist", "rmdir"}
          PROVE  Published(proc[h].b)'
      BY <1>3, <1>4, <1>5, <1>6, <1>7, <1>16, <3>5, Records, Sentinels
         DEF Published, Verified, Valid, Same
    <3> QED
      BY <1>3, <1>4, <1>5, <1>6, <1>7, <3>3, <3>4, <3>5 DEF CommitKnown, Others, Same
  <2> QED
    BY <2>2, <2>3, <2>4, <2>5
<1> QED
  BY <1>2, <1>3, <1>4, <1>5, <1>6, <1>7, <1>8, <1>9, <1>10, <1>11, <1>12, <1>13,
     <1>14, <1>15, <1>16
     DEF IInv, Control, Orderly, Undisputed, Leased

\* A commit writes COMPLETE; what it publishes is its own image.
LEMMA CompleteStep ==
    ASSUME IInv, NEW h \in Handlers, At(h, "complete"), Goto(h, "unlist"), Ticks,
           parent' = [parent EXCEPT ![proc[h].k].complete = TRUE],
           UNCHANGED <<pending, staging, quarantine, fresh, journal, child, key,
                       session, reaper, alive, answered, collected, overtaken,
                       contested, stranded>>
    PROVE  IInv'
<1>1. /\ TypeOK /\ HasKey /\ OneHandler /\ OnePublisher /\ NoWreck
      /\ JournalKnown /\ JournalProtects /\ TouchProtects
  BY DEF IInv, Control, Leased
<1>2. Undisputed => /\ reaper.pc = "idle"
                    /\ PendingKnown /\ BuildKnown /\ ImageKnown /\ CommitKnown
  BY DEF IInv, Orderly
<1>3. proc[h].pc = "complete" /\ proc[h] \in Locals /\ proc[h].b \in Builds /\ proc[h].k \in Keys
      /\ proc[h].l = Nothing /\ key[proc[h].b] = proc[h].k
  BY <1>1, Has DEF At, Building
<1>4. proc' \in [Handlers -> Locals] /\ Others(h) /\ Same(h) /\ proc'[h].pc = "unlist"
  BY <1>1, Went DEF Steps
<1>5. parent[proc[h].k].dir /\ ~parent[proc[h].k].complete
  BY <1>1, <1>3 DEF OnePublisher, Publishing
<1>6. parent'[proc[h].k] = [parent[proc[h].k] EXCEPT !.complete = TRUE]
      /\ parent[proc[h].k] \in ParentDirs
  BY <1>1, <1>3 DEF TypeOK, Key
<1>7. parent'[proc[h].k] \in ParentDirs /\ parent'[proc[h].k].dir /\ parent'[proc[h].k].complete
      /\ parent'[proc[h].k].vhdx = parent[proc[h].k].vhdx
      /\ parent'[proc[h].k].metadata = parent[proc[h].k].metadata
  BY <1>5, <1>6 DEF ParentDirs
<1>8. parent' \in [Keys -> ParentDirs]
      /\ (\A k \in Keys : parent'[k].dir \/ parent'[k] = NoDir)
      /\ parent'[proc[h].k].dir
      /\ \A k \in Keys : k # proc[h].k => parent'[k] = parent[k]
  BY <1>1, <1>3, <1>7 DEF TypeOK, Key
<1>9. Undisputed =>
         parent[proc[h].k].vhdx = proc[h].b /\ parent[proc[h].k].metadata = proc[h].b
  BY <1>2, <1>3 DEF ImageKnown
<1>10. TypeOK'
  BY <1>1, <1>3, <1>4, <1>5, <1>7, <1>8, <1>9, Sentinels, Records
     DEF TypeOK, Others, Ticks
<1>11. HasKey'
  BY <1>1, <1>3, <1>4, <1>5, <1>7, <1>8, <1>9, Sentinels, Records
     DEF HasKey, Others, Same, Building, Committing, Publishing, Leasing, Collecting
<1>12. OneHandler'
  BY <1>1, <1>3, <1>4, <1>5, <1>7, <1>8, <1>9, Sentinels, Records
     DEF OneHandler, Others, Same
<1>13. OnePublisher'
  BY <1>1, <1>3, <1>4, <1>5, <1>7, <1>8, <1>9, Sentinels, Records
     DEF OnePublisher, Others, Same, Publishing
<1>14. NoWreck'
  BY <1>1, <1>3, <1>4, <1>5, <1>7, <1>8, <1>9, Sentinels, Records
     DEF NoWreck, Calm, Undisputed, Ticks, Missing, Verified, Valid, Key, Others,
         Same, Publishing
<1>15. JournalKnown'
  BY <1>1, <1>3, <1>4, <1>5, <1>7, <1>8, <1>9, Sentinels, Records
     DEF JournalKnown, Others, Same
<1>16. JournalProtects'
  BY <1>1, <1>3, <1>4, <1>5, <1>7, <1>8, <1>9, Sentinels, Records
     DEF JournalProtects, Spared, Verified, Valid, Others, Same
<1>17. TouchProtects'
  BY <1>1, <1>3, <1>4, <1>5, <1>7, <1>8, <1>9, Sentinels, Records
     DEF TouchProtects, Verified, Valid, Others, Same
<1>18. ASSUME Undisputed
      PROVE  PendingKnown' /\ BuildKnown' /\ ImageKnown' /\ CommitKnown'
  <2>1. /\ proc[h].k \notin stranded
        /\ \A g \in Handlers \ {h} : proc[g].pc \in Building => proc[g].k # proc[h].k
    BY <1>1, <1>2, <1>3, <1>18, Alone DEF Building
  <2>2. PendingKnown'
    BY <1>1, <1>2, <1>3, <1>4, <1>5, <1>7, <1>8, <1>9, <1>18, <2>1, Sentinels, Records
       DEF PendingKnown, TypeOK, Others, Same
  <2>3. BuildKnown'
    BY <1>1, <1>2, <1>3, <1>4, <1>5, <1>7, <1>8, <1>9, <1>18, <2>1, Sentinels, Records
       DEF BuildKnown, Others, Same, Building
  <2>4. ImageKnown'
    BY <1>1, <1>2, <1>3, <1>4, <1>5, <1>7, <1>8, <1>9, <1>18, <2>1, Sentinels, Records
       DEF ImageKnown, Others, Same, Building
  <2>5. CommitKnown'
    <3>1. ASSUME NEW c \in Builds, key[c] \in Keys, Published(c) PROVE Published(c)'
      BY <1>1, <1>3, <1>4, <1>5, <1>7, <1>8, <1>9, <3>1 DEF Published, Verified, Valid
    <3>2. ASSUME NEW g \in Handlers, g # h, proc[g].pc \in {"unlist", "rmdir"}
          PROVE  proc[g].b \in Builds /\ key[proc[g].b] \in Keys
      BY <1>1, <3>2 DEF HasKey, Building
    <3>3. \A c \in answered : key'[c] \in Keys /\ Published(c)'
      BY <1>1, <1>2, <1>3, <1>4, <1>5, <1>7, <1>8, <1>9, <1>18, <3>1
         DEF TypeOK, CommitKnown
    <3>4. ASSUME NEW g \in Handlers, g # h, proc[g].then = "commit", proc[g].pc \in {"unlist", "rmdir"}
          PROVE  Published(proc[g].b)'
      <4>1. Published(proc[g].b)
        BY <1>2, <1>18, <3>4 DEF CommitKnown
      <4>2. Published(proc[g].b)'
        BY <3>1, <3>2, <3>4, <4>1, <1>3, <1>4, <1>5, <1>7, <1>8, <1>9
           DEF Others, Published
      <4> QED
        BY <4>2
    <3>5. ASSUME proc'[h].then = "commit", proc'[h].pc \in {"unlist", "rmdir"}
          PROVE  Published(proc[h].b)'
      BY <1>3, <1>4, <1>5, <1>7, <1>8, <1>9, <1>18, <3>5, Records, Sentinels
         DEF Published, Verified, Valid, Same
    <3> QED
      BY <1>3, <1>4, <1>5, <1>7, <1>8, <1>9, <3>3, <3>4, <3>5
         DEF CommitKnown, Others, Same
  <2> QED
    BY <2>2, <2>3, <2>4, <2>5
<1> QED
  BY <1>2, <1>3, <1>4, <1>5, <1>7, <1>8, <1>9, <1>10, <1>11, <1>12, <1>13, <1>14,
     <1>15, <1>16, <1>17, <1>18
     DEF IInv, Control, Orderly, Undisputed, Leased

\* An abort closes the disk of its build and removes the image beside it, if it can.
LEMMA CloseStep ==
    ASSUME IInv, NEW h \in Handlers, At(h, "close"), Return(h) \/ Goto(h, "check"), Ticks,
           NEW s, s = (IF session[proc[h].b] = "open" THEN "closed" ELSE session[proc[h].b]),
           session' = [session EXCEPT ![proc[h].b] = s],
           NEW left \in {staging[proc[h].k], Nothing},
           staging' = [staging EXCEPT ![proc[h].k] = left],
           UNCHANGED <<pending, quarantine, parent, fresh, journal, child, key,
                       reaper, alive, answered, collected, overtaken, contested,
                       stranded>>
    PROVE  IInv'
<1>1. /\ TypeOK /\ HasKey /\ OneHandler /\ OnePublisher /\ NoWreck
      /\ JournalKnown /\ JournalProtects /\ TouchProtects
  BY DEF IInv, Control, Leased
<1>2. Undisputed => /\ reaper.pc = "idle"
                    /\ PendingKnown /\ BuildKnown /\ ImageKnown /\ CommitKnown
  BY DEF IInv, Orderly
<1>3. proc[h].pc = "close" /\ proc[h] \in Locals /\ proc[h].b \in Builds /\ proc[h].k \in Keys
      /\ proc[h].l = Nothing /\ key[proc[h].b] = proc[h].k
  BY <1>1, Has DEF At, Building
<1>4. /\ proc' \in [Handlers -> Locals] /\ Others(h)
      /\ proc'[h] = Idle \/ (Same(h) /\ proc'[h].pc = "check")
  BY <1>1, Returned, Went DEF Steps
<1>5. left = staging[proc[h].k] \/ left = Nothing
  BY DEF Key
<1>6. staging' \in [Keys -> Image] /\ staging'[proc[h].k] = left
      /\ \A k \in Keys : k # proc[h].k => staging'[k] = staging[k]
  BY <1>1, <1>3 DEF TypeOK, Key, Build, Image
<1>7. s \in {"none", "closed"} /\ (s = "none" => session[proc[h].b] = "none")
  BY <1>1, <1>3 DEF TypeOK, Build
<1>8. session' \in [Builds -> {"none", "open", "closed"}] /\ session'[proc[h].b] = s
      /\ \A c \in Builds : c # proc[h].b => session'[c] = session[c]
  BY <1>1, <1>3, <1>7 DEF TypeOK, Build
<1>9. TypeOK'
  BY <1>1, <1>3, <1>4, <1>5, <1>6, <1>7, <1>8, Sentinels, Records
     DEF TypeOK, Others, Ticks
<1>10. HasKey'
  BY <1>1, <1>3, <1>4, <1>5, <1>6, <1>7, <1>8, Sentinels, Records
     DEF HasKey, Others, Same, Building, Committing, Publishing, Leasing, Collecting
<1>11. OneHandler'
  BY <1>1, <1>3, <1>4, <1>5, <1>6, <1>7, <1>8, Sentinels, Records
     DEF OneHandler, Others, Same
<1>12. OnePublisher'
  BY <1>1, <1>3, <1>4, <1>5, <1>6, <1>7, <1>8, Sentinels, Records
     DEF OnePublisher, Others, Same, Publishing
<1>13. NoWreck'
  BY <1>1, <1>3, <1>4, <1>5, <1>6, <1>7, <1>8, Sentinels, Records
     DEF NoWreck, Calm, Undisputed, Ticks, Missing, Verified, Valid, Key, Others, Same
<1>14. JournalKnown'
  BY <1>1, <1>3, <1>4, <1>5, <1>6, <1>7, <1>8, Sentinels, Records
     DEF JournalKnown, Others, Same
<1>15. JournalProtects'
  BY <1>1, <1>3, <1>4, <1>5, <1>6, <1>7, <1>8, Sentinels, Records
     DEF JournalProtects, Spared, Verified, Valid, Others, Same
<1>16. TouchProtects'
  BY <1>1, <1>3, <1>4, <1>5, <1>6, <1>7, <1>8, Sentinels, Records
     DEF TouchProtects, Verified, Valid, Others, Same
<1>17. ASSUME Undisputed
      PROVE  PendingKnown' /\ BuildKnown' /\ ImageKnown' /\ CommitKnown'
  <2>1. \/ /\ proc[h].k \notin stranded
           /\ \A g \in Handlers \ {h} : proc[g].pc \in Building => proc[g].k # proc[h].k
        \/ /\ proc[h].k \in stranded
           /\ pending[proc[h].k] = Bare /\ staging[proc[h].k] = Nothing
           /\ session[proc[h].b] # "open"
    BY <1>1, <1>2, <1>3, <1>17, Alone DEF Building
  <2>2. PendingKnown'
    <3>1. \A k \in Keys : pending'[k] \in Builds => key'[pending'[k]] = k
      BY <1>1, <1>2, <1>3, <1>4, <1>5, <1>6, <1>7, <1>8, <1>17, <2>1, Sentinels
         DEF PendingKnown
    <3>2. \A k \in Keys : staging'[k] # Nothing => staging'[k] = pending'[k]
      BY <1>1, <1>2, <1>3, <1>4, <1>5, <1>6, <1>7, <1>8, <1>17, <2>1, Sentinels
         DEF PendingKnown, BuildKnown, Building, TypeOK, Image
    <3>3. ASSUME NEW c \in Builds, session'[c] # "none"
          PROVE  \/ pending'[key[c]] = c
                 \/ \E g \in Handlers : proc'[g].b = c /\ proc'[g].pc = "rmdir"
                 \/ key[c] \in stranded' /\ session'[c] # "open"
      <4>1. CASE c = proc[h].b
        BY <1>2, <1>3, <1>4, <1>5, <1>6, <1>7, <1>8, <1>17, <2>1, <4>1, Sentinels
           DEF BuildKnown, Building
      <4>2. CASE c # proc[h].b
        <5>1. session[c] # "none" /\ key[c] \in Keys
          BY <1>1, <1>3, <1>4, <1>5, <1>6, <1>7, <1>8, <3>3, <4>2 DEF OneHandler
        <5>2. CASE pending[key[c]] = c
          BY <1>1, <1>2, <1>3, <1>4, <1>5, <1>6, <1>7, <1>8, <1>17, <2>1, <4>2,
             <5>1, <5>2, Sentinels
             DEF BuildKnown, Building
        <5>3. CASE \E g \in Handlers : proc[g].b = c /\ proc[g].pc = "rmdir"
          BY <1>3, <1>4, <1>5, <1>6, <1>7, <1>8, <4>2, <5>3 DEF Others
        <5> QED
          BY <1>2, <1>3, <1>4, <1>5, <1>6, <1>7, <1>8, <1>17, <3>3, <4>2, <5>1,
             <5>2, <5>3
             DEF PendingKnown
      <4> QED
        BY <4>1, <4>2
    <3>4. \A k \in stranded' : pending'[k] = Bare
      BY <1>1, <1>2, <1>3, <1>4, <1>5, <1>6, <1>7, <1>8, <1>17, <2>1, Sentinels
         DEF PendingKnown, BuildKnown, Building, TypeOK
    <3> QED
      BY <1>3, <1>4, <1>5, <1>6, <1>7, <1>8, <3>1, <3>2, <3>3, <3>4 DEF PendingKnown
  <2>3. BuildKnown'
    BY <1>1, <1>2, <1>3, <1>4, <1>5, <1>6, <1>7, <1>8, <1>17, <2>1, Sentinels, Records
       DEF BuildKnown, Others, Same, Building
  <2>4. ImageKnown'
    BY <1>1, <1>2, <1>3, <1>4, <1>5, <1>6, <1>7, <1>8, <1>17, <2>1, Sentinels, Records
       DEF ImageKnown, Others, Same, Building, HasKey, OneHandler, Undisputed
  <2>5. CommitKnown'
    BY <1>1, <1>2, <1>3, <1>4, <1>5, <1>6, <1>7, <1>8, <1>17, <2>1, Sentinels, Records
       DEF CommitKnown, Published, Verified, Valid, Others, Same
  <2> QED
    BY <2>2, <2>3, <2>4, <2>5
<1> QED
  BY <1>2, <1>3, <1>4, <1>5, <1>6, <1>7, <1>8, <1>9, <1>10, <1>11, <1>12, <1>13,
     <1>14, <1>15, <1>16, <1>17
     DEF IInv, Control, Orderly, Undisputed, Leased

\* pending.json is removed, or a commit goes on without that.
LEMMA UnlistStep ==
    ASSUME IInv, NEW h \in Handlers, At(h, "unlist"), Goto(h, "rmdir"), Ticks,
           NEW p \in {Bare, pending[proc[h].k]}, p = Bare => pending[proc[h].k] # Nothing,
           pending' = [pending EXCEPT ![proc[h].k] = p],
           UNCHANGED <<staging, quarantine, parent, fresh, journal, child, key,
                       session, reaper, alive, answered, collected, overtaken,
                       contested, stranded>>
    PROVE  IInv'
<1>1. /\ TypeOK /\ HasKey /\ OneHandler /\ OnePublisher /\ NoWreck
      /\ JournalKnown /\ JournalProtects /\ TouchProtects
  BY DEF IInv, Control, Leased
<1>2. Undisputed => /\ reaper.pc = "idle"
                    /\ PendingKnown /\ BuildKnown /\ ImageKnown /\ CommitKnown
  BY DEF IInv, Orderly
<1>3. proc[h].pc = "unlist" /\ proc[h] \in Locals /\ proc[h].b \in Builds /\ proc[h].k \in Keys
      /\ proc[h].l = Nothing /\ key[proc[h].b] = proc[h].k
  BY <1>1, Has DEF At, Building
<1>4. proc' \in [Handlers -> Locals] /\ Others(h) /\ Same(h) /\ proc'[h].pc = "rmdir"
  BY <1>1, Went DEF Steps
<1>5. p = Bare \/ p = pending[proc[h].k]
  BY DEF Key
<1>6. pending' \in [Keys -> Image \cup {Bare}] /\ pending'[proc[h].k] = p
      /\ \A k \in Keys : k # proc[h].k => pending'[k] = pending[k]
  BY <1>1, <1>3 DEF TypeOK, Key, Build, Image, WithoutDir
<1>7. TypeOK'
  BY <1>1, <1>3, <1>4, <1>5, <1>6, Sentinels, Records
     DEF TypeOK, Others, Ticks
<1>8. HasKey'
  BY <1>1, <1>3, <1>4, <1>5, <1>6, Sentinels, Records
     DEF HasKey, Others, Same, Building, Committing, Publishing, Leasing, Collecting
<1>9. OneHandler'
  BY <1>1, <1>3, <1>4, <1>5, <1>6, Sentinels, Records
     DEF OneHandler, Others, Same
<1>10. OnePublisher'
  BY <1>1, <1>3, <1>4, <1>5, <1>6, Sentinels, Records
     DEF OnePublisher, Others, Same, Publishing
<1>11. NoWreck'
  BY <1>1, <1>3, <1>4, <1>5, <1>6, Sentinels, Records
     DEF NoWreck, Calm, Undisputed, Ticks, Missing, Verified, Valid, Key, Others, Same
<1>12. JournalKnown'
  BY <1>1, <1>3, <1>4, <1>5, <1>6, Sentinels, Records
     DEF JournalKnown, Others, Same
<1>13. JournalProtects'
  BY <1>1, <1>3, <1>4, <1>5, <1>6, Sentinels, Records
     DEF JournalProtects, Spared, Verified, Valid, Others, Same
<1>14. TouchProtects'
  BY <1>1, <1>3, <1>4, <1>5, <1>6, Sentinels, Records
     DEF TouchProtects, Verified, Valid, Others, Same
<1>15. ASSUME Undisputed
      PROVE  PendingKnown' /\ BuildKnown' /\ ImageKnown' /\ CommitKnown'
  <2>1. /\ proc[h].k \notin stranded
        /\ \A g \in Handlers \ {h} : proc[g].pc \in Building => proc[g].k # proc[h].k
    BY <1>1, <1>2, <1>3, <1>15, Alone DEF Building
  <2>2. PendingKnown'
    <3>1. \A k \in Keys : pending'[k] \in Builds => key'[pending'[k]] = k
      BY <1>1, <1>2, <1>3, <1>4, <1>5, <1>6, <1>15, <2>1, Sentinels
         DEF PendingKnown, BuildKnown, Building
    <3>2. \A k \in Keys : staging'[k] # Nothing => staging'[k] = pending'[k]
      BY <1>1, <1>2, <1>3, <1>4, <1>5, <1>6, <1>15, <2>1, Sentinels
         DEF PendingKnown, BuildKnown, TypeOK, Image
    <3>3. ASSUME NEW c \in Builds, session'[c] # "none"
          PROVE  \/ pending'[key[c]] = c
                 \/ \E g \in Handlers : proc'[g].b = c /\ proc'[g].pc = "rmdir"
                 \/ key[c] \in stranded' /\ session'[c] # "open"
      <4>1. CASE c = proc[h].b
        BY <1>3, <1>4, <1>5, <1>6, <4>1 DEF Same
      <4>2. CASE c # proc[h].b
        <5>1. session[c] # "none" /\ key[c] \in Keys
          BY <1>1, <1>3, <1>4, <1>5, <1>6, <3>3, <4>2 DEF OneHandler
        <5>2. CASE pending[key[c]] = c
          BY <1>1, <1>2, <1>3, <1>4, <1>5, <1>6, <1>15, <2>1, <4>2, <5>1, <5>2,
             Sentinels
             DEF BuildKnown, Building
        <5>3. CASE \E g \in Handlers : proc[g].b = c /\ proc[g].pc = "rmdir"
          BY <1>3, <1>4, <1>5, <1>6, <4>2, <5>3 DEF Others
        <5> QED
          BY <1>2, <1>3, <1>4, <1>5, <1>6, <1>15, <3>3, <4>2, <5>1, <5>2, <5>3
             DEF PendingKnown
      <4> QED
        BY <4>1, <4>2
    <3>4. \A k \in stranded' : pending'[k] = Bare
      BY <1>1, <1>2, <1>3, <1>4, <1>5, <1>6, <1>15, <2>1, Sentinels
         DEF PendingKnown, BuildKnown, Building, TypeOK
    <3> QED
      BY <1>3, <1>4, <1>5, <1>6, <3>1, <3>2, <3>3, <3>4 DEF PendingKnown
  <2>3. BuildKnown'
    BY <1>1, <1>2, <1>3, <1>4, <1>5, <1>6, <1>15, <2>1, Sentinels
       DEF BuildKnown, HasKey, Others, Same, Building
  <2>4. ImageKnown'
    BY <1>1, <1>2, <1>3, <1>4, <1>5, <1>6, <1>15, <2>1, Sentinels, Records
       DEF ImageKnown, Others, Same, Building
  <2>5. CommitKnown'
    BY <1>1, <1>2, <1>3, <1>4, <1>5, <1>6, <1>15, <2>1, Sentinels, Records
       DEF CommitKnown, Published, Verified, Valid, Others, Same
  <2> QED
    BY <2>2, <2>3, <2>4, <2>5
<1> QED
  BY <1>2, <1>3, <1>4, <1>5, <1>6, <1>7, <1>8, <1>9, <1>10, <1>11, <1>12, <1>13,
     <1>14, <1>15
     DEF IInv, Control, Orderly, Undisputed, Leased

\* The pending directory is removed, if that works, and the client of a commit answered.
LEMMA RmdirStep ==
    ASSUME IInv, NEW h \in Handlers, At(h, "rmdir"), Return(h), Ticks,
           NEW p \in {pending[proc[h].k], WithoutDir(proc[h].k)}, pending' = [pending EXCEPT ![proc[h].k] = p],
           NEW s \in {session[proc[h].b], "none"}, session' = [session EXCEPT ![proc[h].b] = s],
           pending[proc[h].k] = Bare /\ p = Nothing => s = "none",
           stranded' = stranded \cup {x \in {proc[h].k} : p = Bare},
           answered' = IF proc[h].then = "commit" THEN answered \cup {proc[h].b} ELSE answered,
           UNCHANGED <<staging, quarantine, parent, fresh, journal, child, key,
                       reaper, alive, collected, overtaken, contested>>
    PROVE  IInv'
<1>1. /\ TypeOK /\ HasKey /\ OneHandler /\ OnePublisher /\ NoWreck
      /\ JournalKnown /\ JournalProtects /\ TouchProtects
  BY DEF IInv, Control, Leased
<1>2. Undisputed => /\ reaper.pc = "idle"
                    /\ PendingKnown /\ BuildKnown /\ ImageKnown /\ CommitKnown
  BY DEF IInv, Orderly
<1>3. proc[h].pc = "rmdir" /\ proc[h] \in Locals /\ proc[h].b \in Builds /\ proc[h].k \in Keys
      /\ proc[h].l = Nothing /\ key[proc[h].b] = proc[h].k
  BY <1>1, Has DEF At, Building
<1>4. proc' \in [Handlers -> Locals] /\ Others(h) /\ proc'[h] = Idle
  BY <1>1, Returned
<1>5. p = pending[proc[h].k] \/ p = WithoutDir(proc[h].k)
  BY DEF Key
<1>6. pending' \in [Keys -> Image \cup {Bare}] /\ pending'[proc[h].k] = p
      /\ \A k \in Keys : k # proc[h].k => pending'[k] = pending[k]
  BY <1>1, <1>3, <1>5 DEF TypeOK, Key, Image, WithoutDir
<1>7. s \in {"none", "open", "closed"}
  BY <1>1, <1>3 DEF TypeOK
<1>8. session' \in [Builds -> {"none", "open", "closed"}] /\ session'[proc[h].b] = s
      /\ \A c \in Builds : c # proc[h].b => session'[c] = session[c]
  BY <1>1, <1>3, <1>7 DEF TypeOK
<1>9. s = "none" \/ s = session[proc[h].b]
  OBVIOUS
<1>10. answered' = IF proc[h].then = "commit" THEN answered \cup {proc[h].b} ELSE answered
  OBVIOUS
<1>11. stranded' \subseteq Keys /\ (\A x \in Keys : x \in stranded' <=> x \in stranded \/ (x = proc[h].k /\ p = Bare))
  BY <1>1, <1>3 DEF TypeOK, Key
<1>12. Undisputed =>
         /\ session[proc[h].b] # "open"
         /\ p = proc[h].b \/ p = Bare \/ (p = Nothing /\ s = "none")
  BY <1>1, <1>2, <1>3, <1>5, Sentinels
     DEF TypeOK, Image, BuildKnown, ImageKnown, PendingKnown, WithoutDir, Building
<1>13. (staging[proc[h].k] # Nothing => p = pending[proc[h].k])
  BY <1>1, <1>3, <1>5 DEF WithoutDir, TypeOK
<1>14. TypeOK'
  BY <1>1, <1>3, <1>4, <1>5, <1>6, <1>8, <1>9, <1>10, <1>11, <1>12, <1>13,
     Sentinels, Records
     DEF TypeOK, Others, Ticks
<1>15. HasKey'
  BY <1>1, <1>3, <1>4, <1>5, <1>6, <1>8, <1>9, <1>10, <1>11, <1>12, <1>13,
     Sentinels, Records
     DEF HasKey, Others, Same, Building, Committing, Publishing, Leasing, Collecting
<1>16. OneHandler'
  BY <1>1, <1>3, <1>4, <1>5, <1>6, <1>8, <1>9, <1>10, <1>11, <1>12, <1>13,
     Sentinels, Records
     DEF OneHandler, Others, Same
<1>17. OnePublisher'
  BY <1>1, <1>3, <1>4, <1>5, <1>6, <1>8, <1>9, <1>10, <1>11, <1>12, <1>13,
     Sentinels, Records
     DEF OnePublisher, Others, Same, Publishing
<1>18. NoWreck'
  BY <1>1, <1>3, <1>4, <1>5, <1>6, <1>8, <1>9, <1>10, <1>11, <1>12, <1>13,
     Sentinels, Records
     DEF NoWreck, Calm, Undisputed, Ticks, Missing, Verified, Valid, Key, Others, Same
<1>19. JournalKnown'
  BY <1>1, <1>3, <1>4, <1>5, <1>6, <1>8, <1>9, <1>10, <1>11, <1>12, <1>13,
     Sentinels, Records
     DEF JournalKnown, Others, Same
<1>20. JournalProtects'
  BY <1>1, <1>3, <1>4, <1>5, <1>6, <1>8, <1>9, <1>10, <1>11, <1>12, <1>13,
     Sentinels, Records
     DEF JournalProtects, Spared, Verified, Valid, Others, Same
<1>21. TouchProtects'
  BY <1>1, <1>3, <1>4, <1>5, <1>6, <1>8, <1>9, <1>10, <1>11, <1>12, <1>13,
     Sentinels, Records
     DEF TouchProtects, Verified, Valid, Others, Same
<1>22. ASSUME Undisputed
      PROVE  PendingKnown' /\ BuildKnown' /\ ImageKnown' /\ CommitKnown'
  <2>1. /\ proc[h].k \notin stranded
        /\ \A g \in Handlers \ {h} : proc[g].pc \in Building => proc[g].k # proc[h].k
    BY <1>1, <1>2, <1>3, <1>22, Alone DEF Building
  <2>2. PendingKnown'
    <3>1. \A k \in Keys : pending'[k] \in Builds => key'[pending'[k]] = k
      BY <1>1, <1>2, <1>3, <1>4, <1>5, <1>6, <1>8, <1>9, <1>10, <1>11, <1>12, <1>13,
         <1>22, <2>1, Sentinels
         DEF PendingKnown, BuildKnown, Building
    <3>2. \A k \in Keys : staging'[k] # Nothing => staging'[k] = pending'[k]
      BY <1>1, <1>2, <1>3, <1>4, <1>5, <1>6, <1>8, <1>9, <1>10, <1>11, <1>12, <1>13,
         <1>22, <2>1, Sentinels
         DEF PendingKnown, BuildKnown, TypeOK, Image
    <3>3. ASSUME NEW c \in Builds, session'[c] # "none"
          PROVE  \/ pending'[key[c]] = c
                 \/ \E g \in Handlers : proc'[g].b = c /\ proc'[g].pc = "rmdir"
                 \/ key[c] \in stranded' /\ session'[c] # "open"
      <4>1. CASE c = proc[h].b
        BY <1>3, <1>4, <1>5, <1>6, <1>8, <1>9, <1>10, <1>11, <1>12, <1>13, <1>22,
           <3>3, <4>1
      <4>2. CASE c # proc[h].b
        <5>1. session[c] # "none" /\ key[c] \in Keys
          BY <1>1, <1>3, <1>4, <1>5, <1>6, <1>8, <1>9, <1>10, <1>11, <1>12, <1>13,
             <3>3, <4>2
             DEF OneHandler
        <5>2. CASE pending[key[c]] = c
          BY <1>1, <1>2, <1>3, <1>4, <1>5, <1>6, <1>8, <1>9, <1>10, <1>11, <1>12,
             <1>13, <1>22, <2>1, <4>2, <5>1, <5>2, Sentinels
             DEF BuildKnown, Building
        <5>3. CASE \E g \in Handlers : proc[g].b = c /\ proc[g].pc = "rmdir"
          BY <1>3, <1>4, <1>5, <1>6, <1>8, <1>9, <1>10, <1>11, <1>12, <1>13, <4>2,
             <5>3
             DEF Others
        <5> QED
          BY <1>2, <1>3, <1>4, <1>5, <1>6, <1>8, <1>9, <1>10, <1>11, <1>12, <1>13,
             <1>22, <3>3, <4>2, <5>1, <5>2, <5>3
             DEF PendingKnown
      <4> QED
        BY <4>1, <4>2
    <3>4. \A k \in stranded' : pending'[k] = Bare
      BY <1>1, <1>2, <1>3, <1>4, <1>5, <1>6, <1>8, <1>9, <1>10, <1>11, <1>12, <1>13,
         <1>22, <2>1, Sentinels
         DEF PendingKnown, BuildKnown, Building, TypeOK
    <3> QED
      BY <1>3, <1>4, <1>5, <1>6, <1>8, <1>9, <1>10, <1>11, <1>12, <1>13, <3>1, <3>2,
         <3>3, <3>4
         DEF PendingKnown
  <2>3. BuildKnown'
    BY <1>1, <1>2, <1>3, <1>4, <1>5, <1>6, <1>8, <1>9, <1>10, <1>11, <1>12, <1>13,
       <1>22, <2>1, Sentinels, Records
       DEF BuildKnown, Others, Same, Building
  <2>4. ImageKnown'
    BY <1>1, <1>2, <1>3, <1>4, <1>5, <1>6, <1>8, <1>9, <1>10, <1>11, <1>12, <1>13,
       <1>22, <2>1, Sentinels, Records
       DEF ImageKnown, Others, Same, Building, HasKey, OneHandler, Undisputed
  <2>5. CommitKnown'
    <3>1. \A c \in Builds : Published(c)' <=> Published(c)
      BY <1>3, <1>4, <1>5, <1>6, <1>8, <1>9, <1>10, <1>11, <1>12, <1>13
         DEF Published, Verified, Valid
    <3>2. ASSUME NEW g \in Handlers, g # h, proc[g].then = "commit", proc[g].pc \in {"unlist", "rmdir"}
          PROVE  Published(proc[g].b)'
      BY <1>2, <1>3, <1>4, <1>5, <1>6, <1>8, <1>9, <1>10, <1>11, <1>12, <1>13,
         <1>22, <3>2
         DEF CommitKnown, Others, Published, Verified, Valid
    <3>3. proc[h].then = "commit" => Published(proc[h].b)
      BY <1>2, <1>3, <1>4, <1>5, <1>6, <1>8, <1>9, <1>10, <1>11, <1>12, <1>13, <1>22
         DEF CommitKnown
    <3>4. \A c \in answered' : key'[c] \in Keys /\ Published(c)'
      BY <1>1, <1>2, <1>3, <1>4, <1>5, <1>6, <1>8, <1>9, <1>10, <1>11, <1>12, <1>13,
         <1>22, <3>1, <3>3
         DEF CommitKnown, TypeOK
    <3> QED
      BY <1>3, <1>4, <1>5, <1>6, <1>8, <1>9, <1>10, <1>11, <1>12, <1>13, <3>2, <3>4,
         Records
         DEF CommitKnown, Others
  <2> QED
    BY <2>2, <2>3, <2>4, <2>5
<1> QED
  BY <1>2, <1>3, <1>4, <1>5, <1>6, <1>8, <1>9, <1>10, <1>11, <1>12, <1>13, <1>14,
     <1>15, <1>16, <1>17, <1>18, <1>19, <1>20, <1>21, <1>22
     DEF IInv, Control, Orderly, Undisputed, Leased

\* An acquire comes in; a collection at work may overtake it.
LEMMA AcquireStep ==
    ASSUME IInv, NEW h \in Handlers, NEW l \in Leases, NEW k \in Keys, Acquire(h, l, k)
    PROVE  IInv'
<1>1. /\ TypeOK /\ HasKey /\ OneHandler /\ OnePublisher /\ NoWreck
      /\ JournalKnown /\ JournalProtects /\ TouchProtects
  BY DEF IInv, Control, Leased
<1>2. Undisputed => /\ reaper.pc = "idle"
                    /\ PendingKnown /\ BuildKnown /\ ImageKnown /\ CommitKnown
  BY DEF IInv, Orderly
<1>3. proc[h] = Idle /\ proc[h] \in Locals /\ journal[l] = Nothing /\ Verified(k)
      /\ (\A g \in Handlers : proc[g].l # l)
  BY <1>1 DEF Acquire, At, HasKey, TypeOK
<1>4. proc' = [proc EXCEPT ![h].pc = "touch", ![h].k = k, ![h].l = l]
  BY DEF Acquire
<1>5. Others(h) /\ proc'[h] = [Idle EXCEPT !.pc = "touch", !.k = k, !.l = l]
  BY <1>1, <1>3, <1>4 DEF TypeOK, Others
<1>6. Others(h) /\ proc'[h] \in Locals /\ proc'[h].pc = "touch" /\ proc'[h].k = k /\ proc'[h].l = l
      /\ proc'[h].b = Nothing /\ proc'[h].then = "answer"
  BY <1>5 DEF Idle, Locals, Image, Steps
<1>7. proc' \in [Handlers -> Locals]
  BY <1>1, <1>4, <1>6 DEF TypeOK, Locals, Others
<1>8. overtaken' \subseteq Leases /\ (\A m \in Leases : m # l => (m \in overtaken' <=> m \in overtaken))
      /\ (l \notin overtaken' => \A g \in Handlers : proc[g].pc \notin {"list", "collect"})
  BY <1>1 DEF Acquire, TypeOK
<1>9. UNCHANGED <<pending, staging, quarantine, parent, fresh, journal, child, key, session,
                   reaper, alive, answered, collected, contested, stranded, faults, crashes>>
  BY DEF Acquire, disk, bounds
<1>10. TypeOK'
  BY <1>1, <1>3, <1>6, <1>7, <1>8, <1>9, Sentinels, Records
     DEF TypeOK, Others
<1>11. HasKey'
  BY <1>1, <1>3, <1>6, <1>7, <1>8, <1>9, Sentinels, Records
     DEF HasKey, Others, Same, Building, Committing, Publishing, Leasing, Collecting
<1>12. OneHandler'
  BY <1>1, <1>3, <1>6, <1>7, <1>8, <1>9, Sentinels, Records
     DEF OneHandler, Others, Same
<1>13. OnePublisher'
  BY <1>1, <1>3, <1>6, <1>7, <1>8, <1>9, Sentinels, Records
     DEF OnePublisher, Others, Same, Publishing
<1>14. NoWreck'
  BY <1>1, <1>3, <1>6, <1>7, <1>8, <1>9, Sentinels, Records
     DEF NoWreck, Calm, Undisputed, Ticks, Missing, Verified, Valid, Key, Others, Same
<1>15. JournalKnown'
  BY <1>1, <1>3, <1>6, <1>7, <1>8, <1>9, Sentinels, Records
     DEF JournalKnown, Others, Same
<1>16. JournalProtects'
  <2>1. ASSUME NEW m \in Leases \ overtaken', journal[m] # Nothing
        PROVE  m \in Leases \ overtaken
    BY <1>3, <1>8, <2>1
  <2> QED
    BY <1>1, <1>3, <1>6, <1>7, <1>8, <1>9, <2>1, Sentinels
       DEF JournalProtects, Spared, Verified, Valid, Others
<1>17. TouchProtects'
  <2>1. ASSUME NEW g \in Handlers, g # h, proc[g].l \in Leases \ overtaken', proc[g].pc # "child"
        PROVE  proc[g].l \in Leases \ overtaken
    BY <1>3, <1>8, <2>1
  <2>2. Verified(k)'
    BY <1>3, <1>9 DEF Verified, Valid
  <2> QED
    BY <1>1, <1>3, <1>6, <1>7, <1>8, <1>9, <2>1, <2>2
       DEF TouchProtects, Verified, Valid, Others
<1>18. ASSUME Undisputed
      PROVE  PendingKnown' /\ BuildKnown' /\ ImageKnown' /\ CommitKnown'
  <2>1. PendingKnown'
    BY <1>1, <1>2, <1>3, <1>6, <1>7, <1>8, <1>9, <1>18, Sentinels, Records
       DEF PendingKnown, TypeOK, Others, Same
  <2>2. BuildKnown'
    BY <1>1, <1>2, <1>3, <1>6, <1>7, <1>8, <1>9, <1>18, Sentinels, Records
       DEF BuildKnown, Others, Same, Building
  <2>3. ImageKnown'
    BY <1>1, <1>2, <1>3, <1>6, <1>7, <1>8, <1>9, <1>18, Sentinels, Records
       DEF ImageKnown, Others, Same, Building
  <2>4. CommitKnown'
    BY <1>1, <1>2, <1>3, <1>6, <1>7, <1>8, <1>9, <1>18, Sentinels, Records
       DEF CommitKnown, Published, Verified, Valid, Others, Same
  <2> QED
    BY <2>1, <2>2, <2>3, <2>4
<1> QED
  BY <1>2, <1>3, <1>6, <1>7, <1>8, <1>9, <1>10, <1>11, <1>12, <1>13, <1>14, <1>15,
     <1>16, <1>17, <1>18
     DEF IInv, Control, Orderly, Undisputed, Leased

\* An acquire makes its parent fresh, or fails to.
LEMMA TouchStep ==
    ASSUME IInv, NEW h \in Handlers, At(h, "touch"), Goto(h, "admit"), Ticks,
           \/ fresh' = (IF Valid(proc[h].k) THEN fresh \cup {proc[h].k} ELSE fresh) /\ UNCHANGED overtaken
           \/ fresh' = fresh /\ overtaken' = overtaken \cup {proc[h].l},
           UNCHANGED <<pending, staging, quarantine, parent, journal, child, key,
                       session, reaper, alive, answered, collected, contested,
                       stranded>>
    PROVE  IInv'
<1>1. /\ TypeOK /\ HasKey /\ OneHandler /\ OnePublisher /\ NoWreck
      /\ JournalKnown /\ JournalProtects /\ TouchProtects
  BY DEF IInv, Control, Leased
<1>2. Undisputed => /\ reaper.pc = "idle"
                    /\ PendingKnown /\ BuildKnown /\ ImageKnown /\ CommitKnown
  BY DEF IInv, Orderly
<1>3. proc[h].pc = "touch" /\ proc[h] \in Locals /\ proc[h].l \in Leases /\ proc[h].k \in Keys
      /\ proc[h].b = Nothing
  BY <1>1, Has DEF At, Leasing
<1>4. proc' \in [Handlers -> Locals] /\ Others(h) /\ Same(h) /\ proc'[h].pc = "admit"
  BY <1>1, Went DEF Steps
<1>5. fresh \subseteq fresh' /\ fresh' \subseteq fresh \cup {proc[h].k} /\ overtaken' \subseteq Leases
      /\ overtaken \subseteq overtaken'
      /\ (proc[h].l \notin overtaken' /\ Valid(proc[h].k) => proc[h].k \in fresh')
  BY <1>1, <1>3 DEF TypeOK, Key
<1>6. TypeOK'
  BY <1>1, <1>3, <1>4, <1>5, Sentinels, Records
     DEF TypeOK, Others, Ticks
<1>7. HasKey'
  BY <1>1, <1>3, <1>4, <1>5, Sentinels, Records
     DEF HasKey, Others, Same, Building, Committing, Publishing, Leasing, Collecting
<1>8. OneHandler'
  BY <1>1, <1>3, <1>4, <1>5, Sentinels, Records
     DEF OneHandler, Others, Same
<1>9. OnePublisher'
  BY <1>1, <1>3, <1>4, <1>5, Sentinels, Records
     DEF OnePublisher, Others, Same, Publishing
<1>10. NoWreck'
  BY <1>1, <1>3, <1>4, <1>5, Sentinels, Records
     DEF NoWreck, Calm, Undisputed, Ticks, Missing, Verified, Valid, Key, Others, Same
<1>11. JournalKnown'
  BY <1>1, <1>3, <1>4, <1>5, Sentinels, Records
     DEF JournalKnown, Others, Same
<1>12. JournalProtects'
  BY <1>1, <1>3, <1>4, <1>5, Sentinels, Records
     DEF JournalProtects, Spared, Verified, Valid, Others, Same
<1>13. TouchProtects'
  BY <1>1, <1>3, <1>4, <1>5, Sentinels, Records
     DEF TouchProtects, Verified, Valid, Others, Same
<1>14. ASSUME Undisputed
      PROVE  PendingKnown' /\ BuildKnown' /\ ImageKnown' /\ CommitKnown'
  <2>1. PendingKnown'
    BY <1>1, <1>2, <1>3, <1>4, <1>5, <1>14, Sentinels, Records
       DEF PendingKnown, TypeOK, Others, Same
  <2>2. BuildKnown'
    BY <1>1, <1>2, <1>3, <1>4, <1>5, <1>14, Sentinels, Records
       DEF BuildKnown, Others, Same, Building
  <2>3. ImageKnown'
    BY <1>1, <1>2, <1>3, <1>4, <1>5, <1>14, Sentinels, Records
       DEF ImageKnown, Others, Same, Building
  <2>4. CommitKnown'
    BY <1>1, <1>2, <1>3, <1>4, <1>5, <1>14, Sentinels, Records
       DEF CommitKnown, Published, Verified, Valid, Others, Same
  <2> QED
    BY <2>1, <2>2, <2>3, <2>4
<1> QED
  BY <1>2, <1>3, <1>4, <1>5, <1>6, <1>7, <1>8, <1>9, <1>10, <1>11, <1>12, <1>13,
     <1>14
     DEF IInv, Control, Orderly, Undisputed, Leased

\* An acquire has the collector make room.
LEMMA AdmitStep ==
    ASSUME IInv, NEW h \in Handlers, At(h, "admit"), Ticks,
           NEW f \in Locals, proc' = [proc EXCEPT ![h] = f], f.pc = "protect",
           f.k = proc[h].k, f.b = proc[h].b, f.l = proc[h].l, f.then = "journal",
           UNCHANGED <<pending, staging, quarantine, parent, fresh, journal, child, key, session,
                       reaper, alive, answered, collected, overtaken, contested, stranded>>
    PROVE  IInv'
<1>1. /\ TypeOK /\ HasKey /\ OneHandler /\ OnePublisher /\ NoWreck
      /\ JournalKnown /\ JournalProtects /\ TouchProtects
  BY DEF IInv, Control, Leased
<1>2. Undisputed => /\ reaper.pc = "idle"
                    /\ PendingKnown /\ BuildKnown /\ ImageKnown /\ CommitKnown
  BY DEF IInv, Orderly
<1>3. proc[h].pc = "admit" /\ proc[h] \in Locals /\ proc[h].l \in Leases /\ proc[h].k \in Keys
      /\ proc[h].b = Nothing
  BY <1>1, Has DEF At, Leasing
<1>4. proc' \in [Handlers -> Locals] /\ Others(h) /\ proc'[h] = f
  BY <1>1 DEF TypeOK, Others
<1>5. TypeOK'
  BY <1>1, <1>3, <1>4, Sentinels, Records
     DEF TypeOK, Others, Ticks
<1>6. HasKey'
  BY <1>1, <1>3, <1>4, Sentinels, Records
     DEF HasKey, Others, Same, Building, Committing, Publishing, Leasing, Collecting
<1>7. OneHandler'
  BY <1>1, <1>3, <1>4, Sentinels, Records
     DEF OneHandler, Others, Same
<1>8. OnePublisher'
  BY <1>1, <1>3, <1>4, Sentinels, Records
     DEF OnePublisher, Others, Same, Publishing
<1>9. NoWreck'
  BY <1>1, <1>3, <1>4, Sentinels, Records
     DEF NoWreck, Calm, Undisputed, Ticks, Missing, Verified, Valid, Key, Others, Same
<1>10. JournalKnown'
  BY <1>1, <1>3, <1>4, Sentinels, Records
     DEF JournalKnown, Others, Same
<1>11. JournalProtects'
  BY <1>1, <1>3, <1>4, Sentinels, Records
     DEF JournalProtects, Spared, Verified, Valid, Others, Same
<1>12. TouchProtects'
  BY <1>1, <1>3, <1>4, Sentinels, Records
     DEF TouchProtects, Verified, Valid, Others, Same
<1>13. ASSUME Undisputed
      PROVE  PendingKnown' /\ BuildKnown' /\ ImageKnown' /\ CommitKnown'
  <2>1. PendingKnown'
    BY <1>1, <1>2, <1>3, <1>4, <1>13, Sentinels, Records
       DEF PendingKnown, TypeOK, Others, Same
  <2>2. BuildKnown'
    BY <1>1, <1>2, <1>3, <1>4, <1>13, Sentinels, Records
       DEF BuildKnown, Others, Same, Building
  <2>3. ImageKnown'
    BY <1>1, <1>2, <1>3, <1>4, <1>13, Sentinels, Records
       DEF ImageKnown, Others, Same, Building
  <2>4. CommitKnown'
    BY <1>1, <1>2, <1>3, <1>4, <1>13, Sentinels, Records
       DEF CommitKnown, Published, Verified, Valid, Others, Same
  <2> QED
    BY <2>1, <2>2, <2>3, <2>4
<1> QED
  BY <1>2, <1>3, <1>4, <1>5, <1>6, <1>7, <1>8, <1>9, <1>10, <1>11, <1>12, <1>13
     DEF IInv, Control, Orderly, Undisputed, Leased

\* An acquire writes its journal, and its parent is protected.
LEMMA JournalStep ==
    ASSUME IInv, NEW h \in Handlers, At(h, "journal"), Goto(h, "child"), Ticks,
           journal' = [journal EXCEPT ![proc[h].l] = proc[h].k],
           UNCHANGED <<pending, staging, quarantine, parent, fresh, child, key,
                       session, reaper, alive, answered, collected, overtaken,
                       contested, stranded>>
    PROVE  IInv'
<1>1. /\ TypeOK /\ HasKey /\ OneHandler /\ OnePublisher /\ NoWreck
      /\ JournalKnown /\ JournalProtects /\ TouchProtects
  BY DEF IInv, Control, Leased
<1>2. Undisputed => /\ reaper.pc = "idle"
                    /\ PendingKnown /\ BuildKnown /\ ImageKnown /\ CommitKnown
  BY DEF IInv, Orderly
<1>3. proc[h].pc = "journal" /\ proc[h] \in Locals /\ proc[h].l \in Leases /\ proc[h].k \in Keys
      /\ proc[h].b = Nothing
  BY <1>1, Has DEF At, Leasing
<1>4. proc' \in [Handlers -> Locals] /\ Others(h) /\ Same(h) /\ proc'[h].pc = "child"
  BY <1>1, Went DEF Steps
<1>5. journal' \in [Leases -> Keys \cup {Nothing}] /\ journal'[proc[h].l] = proc[h].k
      /\ (\A m \in Leases : m # proc[h].l => journal'[m] = journal[m])
  BY <1>1, <1>3 DEF TypeOK
<1>6. journal[proc[h].l] = Nothing /\ child[proc[h].l] = Nothing
      /\ (\A g \in Handlers : g # h => proc[g].l # proc[h].l)
  BY <1>1, <1>3, Sentinels DEF JournalKnown, OneHandler
<1>7. TypeOK'
  BY <1>1, <1>3, <1>4, <1>5, <1>6, Sentinels, Records
     DEF TypeOK, Others, Ticks
<1>8. HasKey'
  BY <1>1, <1>3, <1>4, <1>5, <1>6, Sentinels, Records
     DEF HasKey, Others, Same, Building, Committing, Publishing, Leasing, Collecting
<1>9. OneHandler'
  BY <1>1, <1>3, <1>4, <1>5, <1>6, Sentinels, Records
     DEF OneHandler, Others, Same
<1>10. OnePublisher'
  BY <1>1, <1>3, <1>4, <1>5, <1>6, Sentinels, Records
     DEF OnePublisher, Others, Same, Publishing
<1>11. NoWreck'
  BY <1>1, <1>3, <1>4, <1>5, <1>6, Sentinels, Records
     DEF NoWreck, Calm, Undisputed, Ticks, Missing, Verified, Valid, Key, Others, Same
<1>12. JournalKnown'
  BY <1>1, <1>3, <1>4, <1>5, <1>6, Sentinels, Records
     DEF JournalKnown, Others, Same
<1>13. JournalProtects'
  <2>1. ASSUME proc[h].l \notin overtaken
        PROVE  /\ Verified(proc[h].k)
               /\ \A g \in Handlers \ {h} : proc[g].pc \notin {"list", "collect"}
    BY <1>1, <1>3, <2>1 DEF TouchProtects
  <2>2. ASSUME NEW m \in Leases \ overtaken, m # proc[h].l, journal'[m] # Nothing
        PROVE  /\ Verified(journal'[m])
               /\ child[m] # Nothing => parent[journal'[m]].vhdx = child[m]
               /\ \A g \in Handlers : Spared(g, journal'[m])
    BY <1>1, <1>5, <2>2 DEF JournalProtects
  <2> QED
    BY <1>3, <1>4, <1>5, <1>6, <2>1, <2>2, Sentinels
       DEF JournalProtects, Spared, Verified, Valid, Others, Same
<1>14. TouchProtects'
  BY <1>1, <1>3, <1>4, <1>5, <1>6, Sentinels, Records
     DEF TouchProtects, Verified, Valid, Others, Same
<1>15. ASSUME Undisputed
      PROVE  PendingKnown' /\ BuildKnown' /\ ImageKnown' /\ CommitKnown'
  <2>1. PendingKnown'
    BY <1>1, <1>2, <1>3, <1>4, <1>5, <1>6, <1>15, Sentinels, Records
       DEF PendingKnown, TypeOK, Others, Same
  <2>2. BuildKnown'
    BY <1>1, <1>2, <1>3, <1>4, <1>5, <1>6, <1>15, Sentinels, Records
       DEF BuildKnown, Others, Same, Building
  <2>3. ImageKnown'
    BY <1>1, <1>2, <1>3, <1>4, <1>5, <1>6, <1>15, Sentinels, Records
       DEF ImageKnown, Others, Same, Building
  <2>4. CommitKnown'
    BY <1>1, <1>2, <1>3, <1>4, <1>5, <1>6, <1>15, Sentinels, Records
       DEF CommitKnown, Published, Verified, Valid, Others, Same
  <2> QED
    BY <2>1, <2>2, <2>3, <2>4
<1> QED
  BY <1>2, <1>3, <1>4, <1>5, <1>6, <1>7, <1>8, <1>9, <1>10, <1>11, <1>12, <1>13,
     <1>14, <1>15
     DEF IInv, Control, Orderly, Undisputed, Leased

\* An acquire makes the child of its parent, and may collect once more.
LEMMA ChildStep ==
    ASSUME IInv, NEW h \in Handlers, At(h, "child"), Ticks,
           proc' \in {[proc EXCEPT ![h] = Idle], [proc EXCEPT ![h] = [Idle EXCEPT !.pc = "protect"]]},
           parent[proc[h].k].vhdx # Nothing,
           child' = [child EXCEPT ![proc[h].l] = parent[proc[h].k].vhdx],
           UNCHANGED <<pending, staging, quarantine, parent, fresh, journal, key,
                       session, reaper, alive, answered, collected, overtaken,
                       contested, stranded>>
    PROVE  IInv'
<1>1. /\ TypeOK /\ HasKey /\ OneHandler /\ OnePublisher /\ NoWreck
      /\ JournalKnown /\ JournalProtects /\ TouchProtects
  BY DEF IInv, Control, Leased
<1>2. Undisputed => /\ reaper.pc = "idle"
                    /\ PendingKnown /\ BuildKnown /\ ImageKnown /\ CommitKnown
  BY DEF IInv, Orderly
<1>3. proc[h].pc = "child" /\ proc[h] \in Locals /\ proc[h].l \in Leases /\ proc[h].k \in Keys
      /\ proc[h].b = Nothing
  BY <1>1, Has DEF At, Leasing
<1>4. Idle \in Locals /\ [Idle EXCEPT !.pc = "protect"] \in Locals
      /\ [Idle EXCEPT !.pc = "protect"].pc = "protect" /\ [Idle EXCEPT !.pc = "protect"].b = Nothing
      /\ [Idle EXCEPT !.pc = "protect"].l = Nothing /\ [Idle EXCEPT !.pc = "protect"].then = "answer"
  BY DEF Idle, Locals, Image, Steps
<1>5. proc' \in [Handlers -> Locals] /\ Others(h)
      /\ proc'[h] \in {Idle, [Idle EXCEPT !.pc = "protect"]}
  BY <1>1, <1>4 DEF TypeOK, Others
<1>6. proc' \in [Handlers -> Locals] /\ Others(h)
      /\ (proc'[h] = Idle \/ (proc'[h].pc = "protect" /\ proc'[h].b = Nothing /\ proc'[h].l = Nothing
                             /\ proc'[h].then = "answer"))
  BY <1>4, <1>5
<1>7. child' \in [Leases -> Image] /\ child'[proc[h].l] = parent[proc[h].k].vhdx
      /\ (\A m \in Leases : m # proc[h].l => child'[m] = child[m])
  BY <1>1, <1>3 DEF TypeOK, ParentDirs
<1>8. child[proc[h].l] = Nothing /\ journal[proc[h].l] = proc[h].k
      /\ (\A g \in Handlers : g # h => proc[g].l # proc[h].l)
  BY <1>1, <1>3, Sentinels DEF JournalKnown, OneHandler
<1>9. TypeOK'
  BY <1>1, <1>3, <1>6, <1>7, <1>8, Sentinels, Records
     DEF TypeOK, Others, Ticks
<1>10. HasKey'
  BY <1>1, <1>3, <1>6, <1>7, <1>8, Sentinels, Records
     DEF HasKey, Others, Same, Building, Committing, Publishing, Leasing, Collecting
<1>11. OneHandler'
  BY <1>1, <1>3, <1>6, <1>7, <1>8, Sentinels, Records
     DEF OneHandler, Others, Same
<1>12. OnePublisher'
  BY <1>1, <1>3, <1>6, <1>7, <1>8, Sentinels, Records
     DEF OnePublisher, Others, Same, Publishing
<1>13. NoWreck'
  BY <1>1, <1>3, <1>6, <1>7, <1>8, Sentinels, Records
     DEF NoWreck, Calm, Undisputed, Ticks, Missing, Verified, Valid, Key, Others, Same
<1>14. JournalKnown'
  BY <1>1, <1>3, <1>6, <1>7, <1>8, Sentinels, Records
     DEF JournalKnown, Others, Same
<1>15. JournalProtects'
  BY <1>1, <1>3, <1>6, <1>7, <1>8, Sentinels, Records
     DEF JournalProtects, Spared, Verified, Valid, Others, Same
<1>16. TouchProtects'
  BY <1>1, <1>3, <1>6, <1>7, <1>8, Sentinels, Records
     DEF TouchProtects, Verified, Valid, Others, Same
<1>17. ASSUME Undisputed
      PROVE  PendingKnown' /\ BuildKnown' /\ ImageKnown' /\ CommitKnown'
  <2>1. PendingKnown'
    BY <1>1, <1>2, <1>3, <1>6, <1>7, <1>8, <1>17, Sentinels, Records
       DEF PendingKnown, TypeOK, Others, Same
  <2>2. BuildKnown'
    BY <1>1, <1>2, <1>3, <1>6, <1>7, <1>8, <1>17, Sentinels, Records
       DEF BuildKnown, Others, Same, Building
  <2>3. ImageKnown'
    BY <1>1, <1>2, <1>3, <1>6, <1>7, <1>8, <1>17, Sentinels, Records
       DEF ImageKnown, Others, Same, Building
  <2>4. CommitKnown'
    BY <1>1, <1>2, <1>3, <1>6, <1>7, <1>8, <1>17, Sentinels, Records
       DEF CommitKnown, Published, Verified, Valid, Others, Same
  <2> QED
    BY <2>1, <2>2, <2>3, <2>4
<1> QED
  BY <1>2, <1>3, <1>6, <1>7, <1>8, <1>9, <1>10, <1>11, <1>12, <1>13, <1>14, <1>15,
     <1>16, <1>17
     DEF IInv, Control, Orderly, Undisputed, Leased

\* There is no child, and the journal goes again.
LEMMA NochildStep ==
    ASSUME IInv, NEW h \in Handlers, At(h, "child"), Ticks, Return(h),
           journal' = [journal EXCEPT ![proc[h].l] = Nothing],
           UNCHANGED <<pending, staging, quarantine, parent, fresh, child, key,
                       session, reaper, alive, answered, collected, overtaken,
                       contested, stranded>>
    PROVE  IInv'
<1>1. /\ TypeOK /\ HasKey /\ OneHandler /\ OnePublisher /\ NoWreck
      /\ JournalKnown /\ JournalProtects /\ TouchProtects
  BY DEF IInv, Control, Leased
<1>2. Undisputed => /\ reaper.pc = "idle"
                    /\ PendingKnown /\ BuildKnown /\ ImageKnown /\ CommitKnown
  BY DEF IInv, Orderly
<1>3. proc[h].pc = "child" /\ proc[h] \in Locals /\ proc[h].l \in Leases /\ proc[h].k \in Keys
      /\ proc[h].b = Nothing
  BY <1>1, Has DEF At, Leasing
<1>4. proc' \in [Handlers -> Locals] /\ Others(h) /\ proc'[h] = Idle
  BY <1>1, Returned
<1>5. journal' \in [Leases -> Keys \cup {Nothing}] /\ journal'[proc[h].l] = Nothing
      /\ (\A m \in Leases : m # proc[h].l => journal'[m] = journal[m])
  BY <1>1, <1>3 DEF TypeOK
<1>6. child[proc[h].l] = Nothing /\ journal[proc[h].l] = proc[h].k
      /\ (\A g \in Handlers : g # h => proc[g].l # proc[h].l)
  BY <1>1, <1>3, Sentinels DEF JournalKnown, OneHandler
<1>7. TypeOK'
  BY <1>1, <1>3, <1>4, <1>5, <1>6, Sentinels, Records
     DEF TypeOK, Others, Ticks
<1>8. HasKey'
  BY <1>1, <1>3, <1>4, <1>5, <1>6, Sentinels, Records
     DEF HasKey, Others, Same, Building, Committing, Publishing, Leasing, Collecting
<1>9. OneHandler'
  BY <1>1, <1>3, <1>4, <1>5, <1>6, Sentinels, Records
     DEF OneHandler, Others, Same
<1>10. OnePublisher'
  BY <1>1, <1>3, <1>4, <1>5, <1>6, Sentinels, Records
     DEF OnePublisher, Others, Same, Publishing
<1>11. NoWreck'
  BY <1>1, <1>3, <1>4, <1>5, <1>6, Sentinels, Records
     DEF NoWreck, Calm, Undisputed, Ticks, Missing, Verified, Valid, Key, Others, Same
<1>12. JournalKnown'
  BY <1>1, <1>3, <1>4, <1>5, <1>6, Sentinels, Records
     DEF JournalKnown, Others, Same
<1>13. JournalProtects'
  BY <1>1, <1>3, <1>4, <1>5, <1>6, Sentinels, Records
     DEF JournalProtects, Spared, Verified, Valid, Others, Same
<1>14. TouchProtects'
  BY <1>1, <1>3, <1>4, <1>5, <1>6, Sentinels, Records
     DEF TouchProtects, Verified, Valid, Others, Same
<1>15. ASSUME Undisputed
      PROVE  PendingKnown' /\ BuildKnown' /\ ImageKnown' /\ CommitKnown'
  <2>1. PendingKnown'
    BY <1>1, <1>2, <1>3, <1>4, <1>5, <1>6, <1>15, Sentinels, Records
       DEF PendingKnown, TypeOK, Others, Same
  <2>2. BuildKnown'
    BY <1>1, <1>2, <1>3, <1>4, <1>5, <1>6, <1>15, Sentinels, Records
       DEF BuildKnown, Others, Same, Building
  <2>3. ImageKnown'
    BY <1>1, <1>2, <1>3, <1>4, <1>5, <1>6, <1>15, Sentinels, Records
       DEF ImageKnown, Others, Same, Building
  <2>4. CommitKnown'
    BY <1>1, <1>2, <1>3, <1>4, <1>5, <1>6, <1>15, Sentinels, Records
       DEF CommitKnown, Published, Verified, Valid, Others, Same
  <2> QED
    BY <2>1, <2>2, <2>3, <2>4
<1> QED
  BY <1>2, <1>3, <1>4, <1>5, <1>6, <1>7, <1>8, <1>9, <1>10, <1>11, <1>12, <1>13,
     <1>14, <1>15
     DEF IInv, Control, Orderly, Undisputed, Leased

\* A lease is released.
LEMMA ReleaseStep ==
    ASSUME IInv, NEW l \in Leases, Release(l)
    PROVE  IInv'
<1>1. /\ TypeOK /\ HasKey /\ OneHandler /\ OnePublisher /\ NoWreck
      /\ JournalKnown /\ JournalProtects /\ TouchProtects
  BY DEF IInv, Control, Leased
<1>2. Undisputed => /\ reaper.pc = "idle"
                    /\ PendingKnown /\ BuildKnown /\ ImageKnown /\ CommitKnown
  BY DEF IInv, Orderly
<1>3. child[l] # Nothing /\ (\A g \in Handlers : proc[g].l # l)
  BY <1>1 DEF Release, JournalKnown
<1>4. journal' \in [Leases -> Keys \cup {Nothing}] /\ journal'[l] = Nothing
      /\ (\A m \in Leases : m # l => journal'[m] = journal[m])
  BY <1>1 DEF TypeOK, Release
<1>5. child' \in [Leases -> Image] /\ child'[l] = Nothing
      /\ (\A m \in Leases : m # l => child'[m] = child[m])
  BY <1>1 DEF TypeOK, Release, Image
<1>6. UNCHANGED <<pending, staging, quarantine, parent, fresh, key, session, proc,
                   reaper, alive, answered, collected, overtaken, contested, stranded, faults, crashes>>
  BY DEF Release, observers, bounds
<1>7. TypeOK'
  BY <1>1, <1>3, <1>4, <1>5, <1>6, Sentinels, Records
     DEF TypeOK, Others
<1>8. HasKey'
  BY <1>1, <1>3, <1>4, <1>5, <1>6, Sentinels, Records
     DEF HasKey, Others, Same, Building, Committing, Publishing, Leasing, Collecting
<1>9. OneHandler'
  BY <1>1, <1>3, <1>4, <1>5, <1>6, Sentinels, Records
     DEF OneHandler, Others, Same
<1>10. OnePublisher'
  BY <1>1, <1>3, <1>4, <1>5, <1>6, Sentinels, Records
     DEF OnePublisher, Others, Same, Publishing
<1>11. NoWreck'
  BY <1>1, <1>3, <1>4, <1>5, <1>6, Sentinels, Records
     DEF NoWreck, Calm, Undisputed, Ticks, Missing, Verified, Valid, Key, Others, Same
<1>12. JournalKnown'
  BY <1>1, <1>3, <1>4, <1>5, <1>6, Sentinels, Records
     DEF JournalKnown, Others, Same
<1>13. JournalProtects'
  BY <1>1, <1>3, <1>4, <1>5, <1>6, Sentinels, Records
     DEF JournalProtects, Spared, Verified, Valid, Others, Same
<1>14. TouchProtects'
  BY <1>1, <1>3, <1>4, <1>5, <1>6, Sentinels, Records
     DEF TouchProtects, Verified, Valid, Others, Same
<1>15. ASSUME Undisputed
      PROVE  PendingKnown' /\ BuildKnown' /\ ImageKnown' /\ CommitKnown'
  <2>1. PendingKnown'
    BY <1>1, <1>2, <1>3, <1>4, <1>5, <1>6, <1>15, Sentinels, Records
       DEF PendingKnown, TypeOK, Others, Same
  <2>2. BuildKnown'
    BY <1>1, <1>2, <1>3, <1>4, <1>5, <1>6, <1>15, Sentinels, Records
       DEF BuildKnown, Others, Same, Building
  <2>3. ImageKnown'
    BY <1>1, <1>2, <1>3, <1>4, <1>5, <1>6, <1>15, Sentinels, Records
       DEF ImageKnown, Others, Same, Building
  <2>4. CommitKnown'
    BY <1>1, <1>2, <1>3, <1>4, <1>5, <1>6, <1>15, Sentinels, Records
       DEF CommitKnown, Published, Verified, Valid, Others, Same
  <2> QED
    BY <2>1, <2>2, <2>3, <2>4
<1> QED
  BY <1>2, <1>3, <1>4, <1>5, <1>6, <1>7, <1>8, <1>9, <1>10, <1>11, <1>12, <1>13,
     <1>14, <1>15
     DEF IInv, Control, Orderly, Undisputed, Leased

\* The collector reads which parents are in use, and overtakes the acquires that
\* have no journal yet.
LEMMA ProtectStep ==
    ASSUME IInv, NEW h \in Handlers, At(h, "protect"), Ticks,
           NEW f \in Locals, proc' = [proc EXCEPT ![h] = f],
           f = Idle \/ (f.pc = "list" /\ f.k = proc[h].k /\ f.b = proc[h].b /\ f.l = proc[h].l
                         /\ f.then = proc[h].then /\ f.active = Protected),
           overtaken' = overtaken \cup {l \in Leases : /\ journal[l] = Nothing
                                                      /\ \E g \in Handlers \ {h} : proc[g].l = l},
           UNCHANGED <<pending, staging, quarantine, parent, fresh, journal, child,
                       key, session, reaper, alive, answered, collected, contested,
                       stranded>>
    PROVE  IInv'
<1>1. /\ TypeOK /\ HasKey /\ OneHandler /\ OnePublisher /\ NoWreck
      /\ JournalKnown /\ JournalProtects /\ TouchProtects
  BY DEF IInv, Control, Leased
<1>2. Undisputed => /\ reaper.pc = "idle"
                    /\ PendingKnown /\ BuildKnown /\ ImageKnown /\ CommitKnown
  BY DEF IInv, Orderly
<1>3. proc[h].pc = "protect" /\ proc[h] \in Locals
  BY <1>1, Has DEF At
<1>4. proc' \in [Handlers -> Locals] /\ Others(h) /\ proc'[h] = f
  BY <1>1 DEF TypeOK, Others
<1>5. overtaken' \subseteq Leases /\ overtaken \subseteq overtaken'
      /\ (\A g \in Handlers \ {h} : proc[g].l \in Leases /\ journal[proc[g].l] = Nothing
                                      => proc[g].l \in overtaken')
  BY <1>1 DEF TypeOK
<1>6. TypeOK'
  BY <1>1, <1>3, <1>4, <1>5, Sentinels, Records
     DEF TypeOK, Others, Ticks
<1>7. HasKey'
  BY <1>1, <1>3, <1>4, <1>5, Sentinels, Records
     DEF HasKey, Others, Same, Building, Committing, Publishing, Leasing, Collecting
<1>8. OneHandler'
  BY <1>1, <1>3, <1>4, <1>5, Sentinels, Records
     DEF OneHandler, Others, Same
<1>9. OnePublisher'
  BY <1>1, <1>3, <1>4, <1>5, Sentinels, Records
     DEF OnePublisher, Others, Same, Publishing
<1>10. NoWreck'
  BY <1>1, <1>3, <1>4, <1>5, Sentinels, Records
     DEF NoWreck, Calm, Undisputed, Ticks, Missing, Verified, Valid, Key, Others, Same
<1>11. JournalKnown'
  BY <1>1, <1>3, <1>4, <1>5, Sentinels, Records
     DEF JournalKnown, Others, Same
<1>12. JournalProtects'
  <2>1. ASSUME NEW l \in Leases \ overtaken', journal[l] # Nothing
        PROVE  /\ l \in Leases \ overtaken /\ journal[l] \in Protected
    BY <1>1, <1>5, <2>1 DEF TypeOK, Protected
  <2> QED
    BY <1>1, <1>3, <1>4, <1>5, <2>1, Records
       DEF JournalProtects, Spared, Verified, Valid, Others
<1>13. TouchProtects'
  <2>1. ASSUME NEW g \in Handlers \ {h}, proc[g].l \in Leases \ overtaken'
        PROVE  proc[g].pc = "child"
    BY <1>1, <1>5, <2>1, Sentinels DEF JournalKnown
  <2> QED
    BY <1>1, <1>3, <1>4, <1>5, <2>1, Records, Sentinels
       DEF TouchProtects, Verified, Valid, Others
<1>14. ASSUME Undisputed
      PROVE  PendingKnown' /\ BuildKnown' /\ ImageKnown' /\ CommitKnown'
  <2>1. PendingKnown'
    BY <1>1, <1>2, <1>3, <1>4, <1>5, <1>14, Sentinels, Records
       DEF PendingKnown, TypeOK, Others, Same
  <2>2. BuildKnown'
    BY <1>1, <1>2, <1>3, <1>4, <1>5, <1>14, Sentinels, Records
       DEF BuildKnown, Others, Same, Building
  <2>3. ImageKnown'
    BY <1>1, <1>2, <1>3, <1>4, <1>5, <1>14, Sentinels, Records
       DEF ImageKnown, Others, Same, Building
  <2>4. CommitKnown'
    BY <1>1, <1>2, <1>3, <1>4, <1>5, <1>14, Sentinels, Records
       DEF CommitKnown, Published, Verified, Valid, Others, Same
  <2> QED
    BY <2>1, <2>2, <2>3, <2>4
<1> QED
  BY <1>2, <1>3, <1>4, <1>5, <1>6, <1>7, <1>8, <1>9, <1>10, <1>11, <1>12, <1>13,
     <1>14
     DEF IInv, Control, Orderly, Undisputed, Leased

\* The collector lists the parents that are neither in use nor fresh.
LEMMA ListStep ==
    ASSUME IInv, NEW h \in Handlers, At(h, "list"), Ticks,
           NEW f \in Locals, proc' = [proc EXCEPT ![h] = f],
           f.pc = "collect" /\ f.k = proc[h].k /\ f.b = proc[h].b /\ f.l = proc[h].l
             /\ f.then = proc[h].then /\ f.listed = Expired \ proc[h].active,
           UNCHANGED <<pending, staging, quarantine, parent, fresh, journal, child, key, session,
                       reaper, alive, answered, collected, overtaken, contested, stranded>>
    PROVE  IInv'
<1>1. /\ TypeOK /\ HasKey /\ OneHandler /\ OnePublisher /\ NoWreck
      /\ JournalKnown /\ JournalProtects /\ TouchProtects
  BY DEF IInv, Control, Leased
<1>2. Undisputed => /\ reaper.pc = "idle"
                    /\ PendingKnown /\ BuildKnown /\ ImageKnown /\ CommitKnown
  BY DEF IInv, Orderly
<1>3. proc[h].pc = "list" /\ proc[h] \in Locals
  BY <1>1, Has DEF At
<1>4. proc' \in [Handlers -> Locals] /\ Others(h) /\ proc'[h] = f
  BY <1>1 DEF TypeOK, Others
<1>5. \A k \in f.listed : k \notin proc[h].active /\ k \notin fresh
  BY DEF Expired
<1>6. TypeOK'
  BY <1>1, <1>3, <1>4, <1>5, Sentinels, Records
     DEF TypeOK, Others, Ticks
<1>7. HasKey'
  BY <1>1, <1>3, <1>4, <1>5, Sentinels, Records
     DEF HasKey, Others, Same, Building, Committing, Publishing, Leasing, Collecting
<1>8. OneHandler'
  BY <1>1, <1>3, <1>4, <1>5, Sentinels, Records
     DEF OneHandler, Others, Same
<1>9. OnePublisher'
  BY <1>1, <1>3, <1>4, <1>5, Sentinels, Records
     DEF OnePublisher, Others, Same, Publishing
<1>10. NoWreck'
  BY <1>1, <1>3, <1>4, <1>5, Sentinels, Records
     DEF NoWreck, Calm, Undisputed, Ticks, Missing, Verified, Valid, Key, Others, Same
<1>11. JournalKnown'
  BY <1>1, <1>3, <1>4, <1>5, Sentinels, Records
     DEF JournalKnown, Others, Same
<1>12. JournalProtects'
  BY <1>1, <1>3, <1>4, <1>5, Sentinels, Records
     DEF JournalProtects, Spared, Verified, Valid, Others, Same
<1>13. TouchProtects'
  BY <1>1, <1>3, <1>4, <1>5, Sentinels, Records
     DEF TouchProtects, Verified, Valid, Others, Same
<1>14. ASSUME Undisputed
      PROVE  PendingKnown' /\ BuildKnown' /\ ImageKnown' /\ CommitKnown'
  <2>1. PendingKnown'
    BY <1>1, <1>2, <1>3, <1>4, <1>5, <1>14, Sentinels, Records
       DEF PendingKnown, TypeOK, Others, Same
  <2>2. BuildKnown'
    BY <1>1, <1>2, <1>3, <1>4, <1>5, <1>14, Sentinels, Records
       DEF BuildKnown, Others, Same, Building
  <2>3. ImageKnown'
    BY <1>1, <1>2, <1>3, <1>4, <1>5, <1>14, Sentinels, Records
       DEF ImageKnown, Others, Same, Building
  <2>4. CommitKnown'
    BY <1>1, <1>2, <1>3, <1>4, <1>5, <1>14, Sentinels, Records
       DEF CommitKnown, Published, Verified, Valid, Others, Same
  <2> QED
    BY <2>1, <2>2, <2>3, <2>4
<1> QED
  BY <1>2, <1>3, <1>4, <1>5, <1>6, <1>7, <1>8, <1>9, <1>10, <1>11, <1>12, <1>13,
     <1>14
     DEF IInv, Control, Orderly, Undisputed, Leased

\* The collector deletes a parent on its list, or all of it but the image.
LEMMA CollectStep ==
    ASSUME IInv, NEW h \in Handlers, At(h, "collect"), Ticks, NEW k \in Keys, k \in proc[h].listed, Valid(k),
           NEW f \in Locals, proc' = [proc EXCEPT ![h] = f],
           \/ f = Idle
           \/ /\ f.k = proc[h].k /\ f.b = proc[h].b /\ f.l = proc[h].l /\ f.then = proc[h].then
              /\ \/ f.pc = "collect" /\ f.listed = proc[h].listed \ {k}
                 \/ f.pc = "journal" /\ proc[h].then = "journal",
           collected' = collected \cup {parent[k].vhdx}, fresh' = fresh \ {k},
           NEW d \in {NoDir, OnlyImage(k)}, parent' = [parent EXCEPT ![k] = d],
           UNCHANGED <<pending, staging, quarantine, journal, child, key, session,
                       reaper, alive, answered, overtaken, contested, stranded>>
    PROVE  IInv'
<1>1. /\ TypeOK /\ HasKey /\ OneHandler /\ OnePublisher /\ NoWreck
      /\ JournalKnown /\ JournalProtects /\ TouchProtects
  BY DEF IInv, Control, Leased
<1>2. Undisputed => /\ reaper.pc = "idle"
                    /\ PendingKnown /\ BuildKnown /\ ImageKnown /\ CommitKnown
  BY DEF IInv, Orderly
<1>3. proc[h].pc = "collect" /\ proc[h] \in Locals
  BY <1>1, Has DEF At
<1>4. proc' \in [Handlers -> Locals] /\ Others(h) /\ proc'[h] = f
  BY <1>1 DEF TypeOK, Others
<1>5. parent[k] \in ParentDirs /\ parent[k].vhdx \in Builds /\ parent[k].complete
  BY <1>1 DEF TypeOK, ParentDirs, Valid, Image
<1>6. OnlyImage(k) \in ParentDirs /\ OnlyImage(k).dir /\ OnlyImage(k).vhdx = parent[k].vhdx
  BY <1>5 DEF ParentDirs, OnlyImage, EmptyDir, NoDir, Image
<1>7. d \in ParentDirs /\ (d = NoDir \/ (d.dir /\ d.vhdx = parent[k].vhdx))
  BY <1>6, Records
<1>8. parent' \in [Keys -> ParentDirs] /\ parent'[k] = d
      /\ (\A j \in Keys : j # k => parent'[j] = parent[j])
  BY <1>1, <1>7 DEF TypeOK
<1>9. collected' \subseteq Builds /\ collected \subseteq collected' /\ parent[k].vhdx \in collected'
  BY <1>1, <1>5 DEF TypeOK
<1>10. proc[h].k # k \/ proc[h].l \notin Leases \ overtaken
  BY <1>1, <1>3 DEF TouchProtects
<1>11. \A g \in Handlers : proc[g].pc \in Publishing => proc[g].k \in Keys /\ proc[g].k # k
  BY <1>1, <1>5 DEF OnePublisher, HasKey, Publishing, Building
<1>12. f.pc \in {"idle", "collect", "journal"} /\ f.b = Nothing
  BY <1>1, <1>3, Records DEF HasKey, Collecting
<1>13. TypeOK'
  BY <1>1, <1>3, <1>4, <1>5, <1>7, <1>8, <1>9, <1>10, <1>11, <1>12, Sentinels, Records
     DEF TypeOK, Others, Ticks
<1>14. HasKey'
  <2>1. f.pc = "journal" => f.l \in Leases /\ f.k \in Keys
    BY <1>1, <1>3, Records DEF HasKey, Collecting
  <2>2. f.pc = "collect" => /\ f.then = "journal" => f.l \in Leases
                            /\ f.l \in Leases => f.k \in Keys
    BY <1>1, <1>3, Records DEF HasKey, Collecting
  <2>3. f.then # "commit" /\ (f.pc = "idle" => f = Idle)
    BY <1>1, <1>3, Records DEF HasKey, Committing
  <2> QED
    BY <1>1, <1>4, <1>12, <2>1, <2>2, <2>3
       DEF HasKey, Others, Building, Leasing, Collecting, Committing
<1>15. OneHandler'
  BY <1>1, <1>3, <1>4, <1>5, <1>7, <1>8, <1>9, <1>10, <1>11, <1>12, Sentinels, Records
     DEF OneHandler, Others, Same
<1>16. OnePublisher'
  BY <1>1, <1>3, <1>4, <1>5, <1>7, <1>8, <1>9, <1>10, <1>11, <1>12, Sentinels, Records
     DEF OnePublisher, Others, Same, Publishing
<1>17. NoWreck'
  BY <1>1, <1>3, <1>4, <1>5, <1>7, <1>8, <1>9, <1>10, <1>11, <1>12, Sentinels, Records
     DEF NoWreck, Calm, Undisputed, Ticks, Missing, Verified, Valid, Key, Others, Same
<1>18. JournalKnown'
  BY <1>1, <1>3, <1>4, <1>5, <1>7, <1>8, <1>9, <1>10, <1>11, <1>12, Sentinels, Records
     DEF JournalKnown, Others, Same
<1>19. JournalProtects'
  <2>1. ASSUME NEW l \in Leases \ overtaken, journal[l] # Nothing
        PROVE  journal[l] \in Keys /\ journal[l] # k
    BY <1>1, <1>3, <2>1 DEF TypeOK, JournalProtects, Spared
  <2>2. ASSUME NEW l \in Leases \ overtaken, journal[l] # Nothing
        PROVE  Verified(journal[l])' /\ parent'[journal[l]] = parent[journal[l]]
    BY <1>1, <1>8, <2>1, <2>2 DEF JournalProtects, Verified, Valid
  <2>3. ASSUME NEW l \in Leases \ overtaken, journal[l] # Nothing, NEW g \in Handlers
        PROVE  Spared(g, journal[l])'
    BY <1>1, <1>3, <1>4, <2>3, Records DEF JournalProtects, Spared, Others
  <2> QED
    BY <1>1, <2>2, <2>3 DEF JournalProtects
<1>20. TouchProtects'
  <2>1. \A g \in Handlers \ {h} : proc[g].l \in Leases \ overtaken => proc[g].pc = "child"
    BY <1>1, <1>3 DEF TouchProtects
  <2>2. ASSUME proc[h].l \in Leases \ overtaken
        PROVE  /\ proc[h].k \in Keys /\ proc[h].k # k /\ Verified(proc[h].k) /\ proc[h].k \in fresh
               /\ proc[h].k \notin proc[h].listed
               /\ \A g \in Handlers \ {h} : proc[g].pc \notin {"list", "collect"}
    BY <1>1, <1>3, <1>10, <2>2 DEF TouchProtects, HasKey, Collecting
  <2>3. proc[h].l \in Leases \ overtaken => Verified(proc[h].k) /\ parent'[proc[h].k] = parent[proc[h].k]
    BY <1>8, <2>2
  <2> QED
    BY <1>4, <2>1, <2>2, <2>3, Records, Sentinels
       DEF TouchProtects, Verified, Valid, Others
<1>21. ASSUME Undisputed
      PROVE  PendingKnown' /\ BuildKnown' /\ ImageKnown' /\ CommitKnown'
  <2>1. PendingKnown'
    BY <1>1, <1>2, <1>3, <1>4, <1>5, <1>7, <1>8, <1>9, <1>10, <1>11, <1>12, <1>21,
       Sentinels, Records
       DEF PendingKnown, TypeOK, Others, Same
  <2>2. BuildKnown'
    BY <1>1, <1>2, <1>3, <1>4, <1>5, <1>7, <1>8, <1>9, <1>10, <1>11, <1>12, <1>21,
       Sentinels, Records
       DEF BuildKnown, Others, Same, Building
  <2>3. ImageKnown'
    BY <1>1, <1>2, <1>3, <1>4, <1>5, <1>7, <1>8, <1>9, <1>10, <1>11, <1>12, <1>21,
       Records
       DEF ImageKnown, Others, Building, Publishing
  <2>4. CommitKnown'
    <3>1. ASSUME NEW c \in Builds, key[c] \in Keys, Published(c) PROVE Published(c)'
      BY <1>8, <1>9, <3>1 DEF Published, Verified, Valid
    <3>2. \A c \in answered : key'[c] \in Keys /\ Published(c)'
      BY <1>1, <1>2, <1>21, <3>1 DEF TypeOK, CommitKnown
    <3>3. ASSUME NEW g \in Handlers, g # h, proc[g].then = "commit", proc[g].pc \in {"unlist", "rmdir"}
          PROVE  Published(proc[g].b)'
      <4>1. Published(proc[g].b)
        BY <1>2, <1>21, <3>3 DEF CommitKnown
      <4>2. proc[g].b \in Builds /\ key[proc[g].b] \in Keys
        BY <1>1, <3>3 DEF HasKey, Building
      <4> QED
        BY <1>4, <3>1, <3>3, <4>1, <4>2 DEF Others, Published
    <3> QED
      BY <1>4, <1>12, <3>2, <3>3 DEF CommitKnown, Others
  <2> QED
    BY <2>1, <2>2, <2>3, <2>4
<1> QED
  BY <1>2, <1>3, <1>4, <1>5, <1>7, <1>8, <1>9, <1>10, <1>11, <1>12, <1>13, <1>14,
     <1>15, <1>16, <1>17, <1>18, <1>19, <1>20, <1>21
     DEF IInv, Control, Orderly, Undisputed, Leased

\* A client dies; what Orderly says holds no longer.
LEMMA DieStep ==
    ASSUME IInv, NEW b \in Builds, ClientDies(b)
    PROVE  IInv'
<1>1. /\ TypeOK /\ HasKey /\ OneHandler /\ OnePublisher /\ NoWreck
      /\ JournalKnown /\ JournalProtects /\ TouchProtects
  BY DEF IInv, Control, Leased
<1>2. Undisputed => /\ reaper.pc = "idle"
                    /\ PendingKnown /\ BuildKnown /\ ImageKnown /\ CommitKnown
  BY DEF IInv, Orderly
<1>3. alive' = alive \ {b} /\ b \in alive
  BY DEF ClientDies
<1>4. UNCHANGED <<pending, staging, quarantine, parent, fresh, journal, child, key, session, proc,
                   reaper, answered, collected, overtaken, contested, stranded, faults, crashes>>
  BY DEF ClientDies, disk, observers, bounds
<1>5. alive' # Builds
  BY <1>3
<1>6. TypeOK'
  BY <1>1, <1>3, <1>4, <1>5, Sentinels, Records
     DEF TypeOK, Others
<1>7. HasKey'
  BY <1>1, <1>3, <1>4, <1>5, Sentinels, Records
     DEF HasKey, Others, Same, Building, Committing, Publishing, Leasing, Collecting
<1>8. OneHandler'
  BY <1>1, <1>3, <1>4, <1>5, Sentinels, Records
     DEF OneHandler, Others, Same
<1>9. OnePublisher'
  BY <1>1, <1>3, <1>4, <1>5, Sentinels, Records
     DEF OnePublisher, Others, Same, Publishing
<1>10. NoWreck'
  BY <1>1, <1>3, <1>4, <1>5, Sentinels, Records
     DEF NoWreck, Calm, Undisputed, Ticks, Missing, Verified, Valid, Key, Others, Same
<1>11. JournalKnown'
  BY <1>1, <1>3, <1>4, <1>5, Sentinels, Records
     DEF JournalKnown, Others, Same
<1>12. JournalProtects'
  BY <1>1, <1>3, <1>4, <1>5, Sentinels, Records
     DEF JournalProtects, Spared, Verified, Valid, Others, Same
<1>13. TouchProtects'
  BY <1>1, <1>3, <1>4, <1>5, Sentinels, Records
     DEF TouchProtects, Verified, Valid, Others, Same
<1>14. ASSUME Undisputed
      PROVE  PendingKnown' /\ BuildKnown' /\ ImageKnown' /\ CommitKnown'
  <2>1. PendingKnown'
    BY <1>1, <1>2, <1>3, <1>4, <1>5, <1>14, Sentinels, Records
       DEF PendingKnown, TypeOK, Others, Same
  <2>2. BuildKnown'
    BY <1>1, <1>2, <1>3, <1>4, <1>5, <1>14, Sentinels, Records
       DEF BuildKnown, Others, Same, Building
  <2>3. ImageKnown'
    BY <1>1, <1>2, <1>3, <1>4, <1>5, <1>14, Sentinels, Records
       DEF ImageKnown, Others, Same, Building
  <2>4. CommitKnown'
    BY <1>1, <1>2, <1>3, <1>4, <1>5, <1>14, Sentinels, Records
       DEF CommitKnown, Published, Verified, Valid, Others, Same
  <2> QED
    BY <2>1, <2>2, <2>3, <2>4
<1> QED
  BY <1>2, <1>3, <1>4, <1>5, <1>6, <1>7, <1>8, <1>9, <1>10, <1>11, <1>12, <1>13,
     <1>14
     DEF IInv, Control, Orderly, Undisputed, Leased

\* A parent is not fresh any more.
LEMMA AgeStep ==
    ASSUME IInv, NEW k \in Keys, Age(k)
    PROVE  IInv'
<1>1. /\ TypeOK /\ HasKey /\ OneHandler /\ OnePublisher /\ NoWreck
      /\ JournalKnown /\ JournalProtects /\ TouchProtects
  BY DEF IInv, Control, Leased
<1>2. Undisputed => /\ reaper.pc = "idle"
                    /\ PendingKnown /\ BuildKnown /\ ImageKnown /\ CommitKnown
  BY DEF IInv, Orderly
<1>3. \A h \in Handlers : proc[h].l = Nothing
  BY <1>1, Records DEF Age, At, HasKey
<1>4. fresh' = fresh \ {k}
  BY DEF Age
<1>5. UNCHANGED <<pending, staging, quarantine, parent, journal, child, key, session, proc,
                   reaper, alive, answered, collected, overtaken, contested, stranded, faults, crashes>>
  BY DEF Age, observers, bounds
<1>6. TypeOK'
  BY <1>1, <1>3, <1>4, <1>5, Sentinels, Records
     DEF TypeOK, Others
<1>7. HasKey'
  BY <1>1, <1>3, <1>4, <1>5, Sentinels, Records
     DEF HasKey, Others, Same, Building, Committing, Publishing, Leasing, Collecting
<1>8. OneHandler'
  BY <1>1, <1>3, <1>4, <1>5, Sentinels, Records
     DEF OneHandler, Others, Same
<1>9. OnePublisher'
  BY <1>1, <1>3, <1>4, <1>5, Sentinels, Records
     DEF OnePublisher, Others, Same, Publishing
<1>10. NoWreck'
  BY <1>1, <1>3, <1>4, <1>5, Sentinels, Records
     DEF NoWreck, Calm, Undisputed, Ticks, Missing, Verified, Valid, Key, Others, Same
<1>11. JournalKnown'
  BY <1>1, <1>3, <1>4, <1>5, Sentinels, Records
     DEF JournalKnown, Others, Same
<1>12. JournalProtects'
  BY <1>1, <1>3, <1>4, <1>5, Sentinels, Records
     DEF JournalProtects, Spared, Verified, Valid, Others, Same
<1>13. TouchProtects'
  BY <1>1, <1>3, <1>4, <1>5, Sentinels, Records
     DEF TouchProtects, Verified, Valid, Others, Same
<1>14. ASSUME Undisputed
      PROVE  PendingKnown' /\ BuildKnown' /\ ImageKnown' /\ CommitKnown'
  <2>1. PendingKnown'
    BY <1>1, <1>2, <1>3, <1>4, <1>5, <1>14, Sentinels, Records
       DEF PendingKnown, TypeOK, Others, Same
  <2>2. BuildKnown'
    BY <1>1, <1>2, <1>3, <1>4, <1>5, <1>14, Sentinels, Records
       DEF BuildKnown, Others, Same, Building
  <2>3. ImageKnown'
    BY <1>1, <1>2, <1>3, <1>4, <1>5, <1>14, Sentinels, Records
       DEF ImageKnown, Others, Same, Building
  <2>4. CommitKnown'
    BY <1>1, <1>2, <1>3, <1>4, <1>5, <1>14, Sentinels, Records
       DEF CommitKnown, Published, Verified, Valid, Others, Same
  <2> QED
    BY <2>1, <2>2, <2>3, <2>4
<1> QED
  BY <1>2, <1>3, <1>4, <1>5, <1>6, <1>7, <1>8, <1>9, <1>10, <1>11, <1>12, <1>13,
     <1>14
     DEF IInv, Control, Orderly, Undisputed, Leased

\* The broker crashes and starts again.
LEMMA CrashStep ==
    ASSUME IInv, Crash
    PROVE  IInv'
<1>1. /\ TypeOK /\ HasKey /\ OneHandler /\ OnePublisher /\ NoWreck
      /\ JournalKnown /\ JournalProtects /\ TouchProtects
  BY DEF IInv, Control, Leased
<1>2. Undisputed => /\ reaper.pc = "idle"
                    /\ PendingKnown /\ BuildKnown /\ ImageKnown /\ CommitKnown
  BY DEF IInv, Orderly
<1>3. UNCHANGED <<pending, staging, quarantine, parent, fresh, journal, child, key,
                   alive, answered, collected, overtaken, contested, faults>>
  BY DEF Crash, disk, observers
<1>4. session' = [b \in Builds |-> "none"] /\ proc' = [h \in Handlers |-> Idle] /\ reaper' = NoReap
  BY DEF Crash
<1>5. (\A b \in Builds : session'[b] = "none") /\ (\A h \in Handlers : proc'[h] = Idle)
      /\ proc' \in [Handlers -> Locals] /\ session' \in [Builds -> {"none", "open", "closed"}]
  BY <1>4, Records
<1>6. reaper' \in [pc : {"idle", "reap", "rmdir"}, k : Keys \cup {Nothing}, b : Image, staged : BOOLEAN]
      /\ reaper'.pc = "idle"
  BY <1>4 DEF NoReap, Image
<1>7. stranded' = stranded \cup {k \in Keys : pending[k] = Bare}
  BY DEF Crash
<1>8. crashes' \in 0..MaxCrashes /\ crashes' # 0
  BY <1>1, ConstantsAssumption DEF ConstantsAssumption, TypeOK, Crash
<1>9. TypeOK'
  BY <1>1, <1>3, <1>5, <1>6, <1>7, <1>8, Sentinels, Records
     DEF TypeOK, Others
<1>10. HasKey'
  BY <1>5, Records, Sentinels DEF HasKey, Building, Leasing, Collecting, Committing
<1>11. OneHandler'
  BY <1>1, <1>3, <1>5, <1>6, <1>7, <1>8, Sentinels, Records
     DEF OneHandler, Others, Same
<1>12. OnePublisher'
  BY <1>1, <1>3, <1>5, <1>6, <1>7, <1>8, Sentinels, Records
     DEF OnePublisher, Others, Same, Publishing
<1>13. NoWreck'
  BY <1>1, <1>3, <1>5, <1>6, <1>7, <1>8, Sentinels, Records
     DEF NoWreck, Calm, Undisputed, Ticks, Missing, Verified, Valid, Key, Others, Same
<1>14. JournalKnown'
  BY <1>1, <1>3, <1>5, <1>6, <1>7, <1>8, Sentinels, Records
     DEF JournalKnown, Others, Same
<1>15. JournalProtects'
  BY <1>1, <1>3, <1>5, <1>6, <1>7, <1>8, Sentinels, Records
     DEF JournalProtects, Spared, Verified, Valid, Others, Same
<1>16. TouchProtects'
  BY <1>1, <1>3, <1>5, <1>6, <1>7, <1>8, Sentinels, Records
     DEF TouchProtects, Verified, Valid, Others, Same
<1>17. ASSUME Undisputed
      PROVE  PendingKnown' /\ BuildKnown' /\ ImageKnown' /\ CommitKnown'
  <2>1. PendingKnown'
    BY <1>1, <1>2, <1>3, <1>5, <1>6, <1>7, <1>8, <1>17, Sentinels, Records
       DEF PendingKnown, TypeOK, Others, Same
  <2>2. BuildKnown'
    BY <1>1, <1>2, <1>3, <1>5, <1>6, <1>7, <1>8, <1>17, Sentinels, Records
       DEF BuildKnown, Others, Same, Building
  <2>3. ImageKnown'
    BY <1>1, <1>2, <1>3, <1>5, <1>6, <1>7, <1>8, <1>17, Sentinels, Records
       DEF ImageKnown, Others, Same, Building
  <2>4. CommitKnown'
    BY <1>1, <1>2, <1>3, <1>5, <1>6, <1>7, <1>8, <1>17, Sentinels, Records
       DEF CommitKnown, Published, Verified, Valid, Others, Same
  <2> QED
    BY <2>1, <2>2, <2>3, <2>4
<1> QED
  BY <1>2, <1>3, <1>5, <1>6, <1>7, <1>8, <1>9, <1>10, <1>11, <1>12, <1>13, <1>14,
     <1>15, <1>16, <1>17
     DEF IInv, Control, Orderly, Undisputed, Leased

\* Recover finds the build of a dead client.
LEMMA LookStep ==
    ASSUME IInv, NEW k \in Keys, RecoverLook(k)
    PROVE  IInv'
<1>1. /\ TypeOK /\ HasKey /\ OneHandler /\ OnePublisher /\ NoWreck
      /\ JournalKnown /\ JournalProtects /\ TouchProtects
  BY DEF IInv, Control, Leased
<1>2. Undisputed => /\ reaper.pc = "idle"
                    /\ PendingKnown /\ BuildKnown /\ ImageKnown /\ CommitKnown
  BY DEF IInv, Orderly
<1>3. pending[k] \in Builds /\ alive # Builds /\ ~Undisputed
  BY DEF RecoverLook, Reapable, Undisputed
<1>4. reaper' \in [pc : {"idle", "reap", "rmdir"}, k : Keys \cup {Nothing}, b : Image, staged : BOOLEAN]
      /\ reaper'.k = k /\ reaper'.b = pending[k]
  BY <1>3 DEF RecoverLook, Image
<1>5. UNCHANGED <<pending, staging, quarantine, parent, fresh, journal, child, key, session, proc,
                   alive, answered, collected, overtaken, contested, stranded, faults, crashes>>
  BY DEF RecoverLook, disk, observers, bounds
<1>6. TypeOK'
  BY <1>1, <1>3, <1>4, <1>5, Sentinels, Records
     DEF TypeOK, Others
<1>7. HasKey'
  BY <1>1, <1>3, <1>4, <1>5, Sentinels, Records
     DEF HasKey, Others, Same, Building, Committing, Publishing, Leasing, Collecting
<1>8. OneHandler'
  BY <1>1, <1>3, <1>4, <1>5, Sentinels, Records
     DEF OneHandler, Others, Same
<1>9. OnePublisher'
  BY <1>1, <1>3, <1>4, <1>5, Sentinels, Records
     DEF OnePublisher, Others, Same, Publishing
<1>10. NoWreck'
  BY <1>1, <1>3, <1>4, <1>5, Sentinels, Records
     DEF NoWreck, Calm, Undisputed, Ticks, Missing, Verified, Valid, Key, Others, Same
<1>11. JournalKnown'
  BY <1>1, <1>3, <1>4, <1>5, Sentinels, Records
     DEF JournalKnown, Others, Same
<1>12. JournalProtects'
  BY <1>1, <1>3, <1>4, <1>5, Sentinels, Records
     DEF JournalProtects, Spared, Verified, Valid, Others, Same
<1>13. TouchProtects'
  BY <1>1, <1>3, <1>4, <1>5, Sentinels, Records
     DEF TouchProtects, Verified, Valid, Others, Same
<1>14. ASSUME Undisputed
      PROVE  PendingKnown' /\ BuildKnown' /\ ImageKnown' /\ CommitKnown'
  <2>1. PendingKnown'
    BY <1>1, <1>2, <1>3, <1>4, <1>5, <1>14, Sentinels, Records
       DEF PendingKnown, TypeOK, Others, Same
  <2>2. BuildKnown'
    BY <1>1, <1>2, <1>3, <1>4, <1>5, <1>14, Sentinels, Records
       DEF BuildKnown, Others, Same, Building
  <2>3. ImageKnown'
    BY <1>1, <1>2, <1>3, <1>4, <1>5, <1>14, Sentinels, Records
       DEF ImageKnown, Others, Same, Building
  <2>4. CommitKnown'
    BY <1>1, <1>2, <1>3, <1>4, <1>5, <1>14, Sentinels, Records
       DEF CommitKnown, Published, Verified, Valid, Others, Same
  <2> QED
    BY <2>1, <2>2, <2>3, <2>4
<1> QED
  BY <1>2, <1>3, <1>4, <1>5, <1>6, <1>7, <1>8, <1>9, <1>10, <1>11, <1>12, <1>13,
     <1>14
     DEF IInv, Control, Orderly, Undisputed, Leased

\* Recover reaps the build of a dead client.
LEMMA ReapStep ==
    ASSUME IInv, RecoverReap \/ RecoverRmdir
    PROVE  IInv'
<1>1. /\ TypeOK /\ HasKey /\ OneHandler /\ OnePublisher /\ NoWreck
      /\ JournalKnown /\ JournalProtects /\ TouchProtects
  BY DEF IInv, Control, Leased
<1>2. Undisputed => /\ reaper.pc = "idle"
                    /\ PendingKnown /\ BuildKnown /\ ImageKnown /\ CommitKnown
  BY DEF IInv, Orderly
<1>3. reaper.pc # "idle" /\ reaper.k \in Keys /\ reaper.b \in Builds /\ ~Undisputed
  BY <1>1, <1>2 DEF RecoverReap, RecoverRmdir, OneHandler
<1>4. reaper' = NoReap \/ reaper' = [reaper EXCEPT !.pc = "rmdir"]
  BY DEF RecoverReap, RecoverRmdir
<1>5. NoReap \in [pc : {"idle", "reap", "rmdir"}, k : Keys \cup {Nothing}, b : Image, staged : BOOLEAN] /\ NoReap.pc = "idle"
  BY DEF NoReap, Image
<1>6. [reaper EXCEPT !.pc = "rmdir"] \in [pc : {"idle", "reap", "rmdir"}, k : Keys \cup {Nothing}, b : Image, staged : BOOLEAN]
      /\ [reaper EXCEPT !.pc = "rmdir"].k = reaper.k /\ [reaper EXCEPT !.pc = "rmdir"].b = reaper.b
  BY <1>1 DEF TypeOK
<1>7. reaper' \in [pc : {"idle", "reap", "rmdir"}, k : Keys \cup {Nothing}, b : Image, staged : BOOLEAN]
      /\ (reaper'.pc # "idle" => reaper'.k = reaper.k /\ reaper'.b = reaper.b)
  BY <1>4, <1>5, <1>6
<1>8. UNCHANGED <<parent, fresh, journal, child, key, session, proc,
                   alive, answered, collected, overtaken, contested>>
  BY DEF RecoverReap, RecoverRmdir, observers
<1>9. Ticks
  BY <1>1, Counted DEF RecoverReap, RecoverRmdir, RemovesDir, bounds
<1>10. stranded' \subseteq Keys
  BY <1>1, <1>3 DEF RecoverReap, RecoverRmdir, RemovesDir, TypeOK, observers
<1>11. quarantine' \subseteq Builds /\ pending' \in [Keys -> Image \cup {Bare}] /\ staging' \in [Keys -> Image]
  BY <1>1, <1>3, Sentinels
     DEF TypeOK, RecoverReap, RecoverRmdir, RemovesDir, WithoutDir, Image
<1>12. \A k \in Keys : staging'[k] # Nothing => pending'[k] # Nothing
  BY <1>1, <1>3, Sentinels
     DEF TypeOK, RecoverReap, RecoverRmdir, RemovesDir, WithoutDir, Image
<1>13. TypeOK'
  BY <1>1, <1>3, <1>7, <1>8, <1>9, <1>10, <1>11, <1>12, Sentinels, Records
     DEF TypeOK, Others, Ticks
<1>14. HasKey'
  BY <1>1, <1>3, <1>7, <1>8, <1>9, <1>10, <1>11, <1>12, Sentinels, Records
     DEF HasKey, Others, Same, Building, Committing, Publishing, Leasing, Collecting
<1>15. OneHandler'
  BY <1>1, <1>3, <1>7, <1>8, <1>9, <1>10, <1>11, <1>12, Sentinels, Records
     DEF OneHandler, Others, Same
<1>16. OnePublisher'
  BY <1>1, <1>3, <1>7, <1>8, <1>9, <1>10, <1>11, <1>12, Sentinels, Records
     DEF OnePublisher, Others, Same, Publishing
<1>17. NoWreck'
  BY <1>1, <1>3, <1>7, <1>8, <1>9, <1>10, <1>11, <1>12, Sentinels, Records
     DEF NoWreck, Calm, Undisputed, Ticks, Missing, Verified, Valid, Key, Others,
         Same, Undisputed
<1>18. JournalKnown'
  BY <1>1, <1>3, <1>7, <1>8, <1>9, <1>10, <1>11, <1>12, Sentinels, Records
     DEF JournalKnown, Others, Same
<1>19. JournalProtects'
  BY <1>1, <1>3, <1>7, <1>8, <1>9, <1>10, <1>11, <1>12, Sentinels, Records
     DEF JournalProtects, Spared, Verified, Valid, Others, Same
<1>20. TouchProtects'
  BY <1>1, <1>3, <1>7, <1>8, <1>9, <1>10, <1>11, <1>12, Sentinels, Records
     DEF TouchProtects, Verified, Valid, Others, Same
<1>21. ASSUME Undisputed
      PROVE  PendingKnown' /\ BuildKnown' /\ ImageKnown' /\ CommitKnown'
  <2>1. PendingKnown'
    BY <1>1, <1>2, <1>3, <1>7, <1>8, <1>9, <1>10, <1>11, <1>12, <1>21, Sentinels,
       Records
       DEF PendingKnown, TypeOK, Others, Same
  <2>2. BuildKnown'
    BY <1>1, <1>2, <1>3, <1>7, <1>8, <1>9, <1>10, <1>11, <1>12, <1>21, Sentinels,
       Records
       DEF BuildKnown, Others, Same, Building
  <2>3. ImageKnown'
    BY <1>1, <1>2, <1>3, <1>7, <1>8, <1>9, <1>10, <1>11, <1>12, <1>21, Sentinels,
       Records
       DEF ImageKnown, Others, Same, Building
  <2>4. CommitKnown'
    BY <1>1, <1>2, <1>3, <1>7, <1>8, <1>9, <1>10, <1>11, <1>12, <1>21, Sentinels,
       Records
       DEF CommitKnown, Published, Verified, Valid, Others, Same
  <2> QED
    BY <2>1, <2>2, <2>3, <2>4
<1> QED
  BY <1>2, <1>3, <1>7, <1>8, <1>9, <1>10, <1>11, <1>12, <1>13, <1>14, <1>15, <1>16,
     <1>17, <1>18, <1>19, <1>20, <1>21
     DEF IInv, Control, Orderly, Undisputed, Leased
-----------------------------------------------------------------------------
(* Every step is one of these                                              *)

\* A handler that takes a request has no local variables yet.
LEMMA StartsIdle ==
    ASSUME IInv, NEW h \in Handlers, At(h, "idle")
    PROVE  TypeOK /\ proc \in [Handlers -> Locals] /\ proc[h] = Idle
BY DEF IInv, Control, HasKey, At, TypeOK

\* begin-parent comes in: the parent is there, or is to be built.
LEMMA BeginKeeps ==
    ASSUME IInv, NEW h \in Handlers, NEW k \in Keys, Begin(h, k)
    PROVE  IInv'
<1>1. CASE Verified(k) /\ fresh' = fresh \cup {k} /\ UNCHANGED proc
  BY <1>1, FreshStep DEF Begin, observers
<1>2. CASE /\ proc' = [proc EXCEPT ![h].pc = "recheck", ![h].k = k]
           /\ UNCHANGED fresh
  <2> DEFINE f == [Idle EXCEPT !.pc = "recheck", !.k = k]
  <2>1. TypeOK /\ proc \in [Handlers -> Locals] /\ proc[h] = Idle /\ At(h, "idle")
    BY StartsIdle DEF Begin
  <2>2. /\ f \in Locals /\ f.pc = "recheck" /\ f.k = k /\ f.b = Nothing /\ f.l = Nothing
        /\ f.then = "answer"
    BY DEF Idle, Locals, Image, Steps
  <2>3. proc' = [proc EXCEPT ![h] = f]
    BY <1>2, <2>1
  <2>4. Ticks /\ UNCHANGED <<pending, staging, quarantine, parent, fresh, journal, child, key,
                             session, reaper, alive, answered, collected, overtaken, contested,
                           stranded>>
    BY <1>2, <2>1, Counted DEF Begin, observers
  <2> HIDE DEF f
  <2> QED
    BY <2>1, <2>2, <2>3, <2>4, StartStep
<1> QED
  BY <1>1, <1>2 DEF Begin

\* commit-parent or abort-parent comes in.
LEMMA BuildRequestKeeps ==
    ASSUME IInv, NEW h \in Handlers, NEW b \in Builds, Commit(h, b) \/ Abort(h, b)
    PROVE  IInv'
<1> DEFINE f(step, then) == [Idle EXCEPT !.pc = step, !.k = key[b], !.b = b, !.then = then]
<1>1. /\ TypeOK /\ proc \in [Handlers -> Locals] /\ proc[h] = Idle /\ At(h, "idle")
      /\ session[b] # "none" /\ key[b] \in Keys
  BY StartsIdle DEF Commit, Abort, IInv, Control, OneHandler
<1>2. \/ StartOn(h, b, "detach", "commit") /\ session[b] = "open"
      \/ StartOn(h, b, "close", "answer")
  BY DEF Commit, Abort
<1>3. /\ Ticks /\ contested' = contested \cup {x \in {b} : ~Free(x)}
      /\ UNCHANGED <<pending, staging, quarantine, parent, fresh, journal, child, key,
                     session, reaper, alive, answered, collected, overtaken, stranded>>
  BY <1>1, <1>2, Counted DEF StartOn, disk
<1>4. ASSUME NEW step \in {"detach", "close"}, NEW then \in {"commit", "answer"}
      PROVE  /\ f(step, then) \in Locals /\ f(step, then).pc = step
             /\ f(step, then).k = key[b] /\ f(step, then).b = b
             /\ f(step, then).l = Nothing /\ f(step, then).then = then
  BY <1>1, <1>4 DEF Idle, Locals, Image, Steps
<1>5. \A step, then : StartOn(h, b, step, then) => proc' = [proc EXCEPT ![h] = f(step, then)]
  BY <1>1 DEF StartOn
<1> HIDE DEF f
<1>6. CASE StartOn(h, b, "detach", "commit") /\ session[b] = "open"
  BY <1>1, <1>3, <1>4, <1>5, <1>6, StartStep
<1>7. CASE StartOn(h, b, "close", "answer")
  BY <1>1, <1>3, <1>4, <1>5, <1>7, StartStep
<1> QED
  BY <1>2, <1>6, <1>7

\* A collection is asked for.
LEMMA CollectKeeps ==
    ASSUME IInv, NEW h \in Handlers, Collect(h)
    PROVE  IInv'
<1>1. TypeOK /\ proc \in [Handlers -> Locals] /\ proc[h] = Idle /\ At(h, "idle")
  BY StartsIdle DEF Collect
<1>2. Ticks /\ UNCHANGED <<pending, staging, quarantine, parent, fresh, journal, child, key,
                           session, reaper, alive, answered, collected, overtaken, contested,
                           stranded>>
  BY <1>1, Counted DEF Collect, disk, observers
<1> DEFINE f == [Idle EXCEPT !.pc = "protect"]
<1>3. f \in Locals /\ f.pc = "protect" /\ f.b = Nothing /\ f.l = Nothing /\ f.then = "answer"
  BY DEF Idle, Locals, Image, Steps
<1>4. proc' = [proc EXCEPT ![h] = f]
  BY <1>1 DEF Collect, Goto
<1> HIDE DEF f
<1> QED
  BY <1>1, <1>2, <1>3, <1>4, StartStep

\* Every request.
LEMMA RequestKeeps ==
    ASSUME IInv, NEW h \in Handlers, Request(h)
    PROVE  IInv'
BY BeginKeeps, BuildRequestKeeps, AcquireStep, CollectKeeps DEF Request

\* begin-parent
LEMMA BuildKeeps ==
    ASSUME IInv, NEW h \in Handlers,
           BeginRecheck(h) \/ BeginMkdir(h) \/ BeginWrite(h) \/ BeginNative(h)
    PROVE  IInv'
<1>1. TypeOK /\ (Fault \/ UNCHANGED bounds => Ticks)
  BY Counted DEF IInv
<1>2. CASE BeginRecheck(h)
  <2>1. Ticks /\ UNCHANGED <<pending, staging, quarantine, parent, fresh, journal, child, key,
                             session, reaper, alive, answered, collected, overtaken, contested,
                           stranded>>
    BY <1>1, <1>2 DEF BeginRecheck, disk, observers
  <2>2. proc[h].pc = "recheck" /\ proc[h].pc # "rmdir" /\ proc[h].pc \notin Publishing
    BY <1>2 DEF BeginRecheck, At, Publishing
  <2>3. CASE Return(h)
    BY <2>1, <2>2, <2>3, StopStep
  <2>4. CASE Goto(h, "mkdir")
    BY <2>1, <2>2, <2>4, GoStep DEF Steps
  <2> QED
    BY <1>2, <2>3, <2>4 DEF BeginRecheck
<1>3. CASE BeginMkdir(h)
  <2>1. CASE CanBegin(Key(h))
    BY <1>3, <2>1, MkdirStep
  <2>2. CASE ~CanBegin(Key(h))
    <3>1. /\ Return(h) /\ Ticks
          /\ UNCHANGED <<pending, staging, quarantine, parent, fresh, journal, child, key,
                         session, reaper, alive, answered, collected, overtaken, contested,
                           stranded>>
      BY <1>1, <1>3, <2>2 DEF BeginMkdir, observers
    <3>2. proc[h].pc # "rmdir" /\ proc[h].pc \notin Publishing
      BY <1>3 DEF BeginMkdir, At, Publishing
    <3> QED
      BY <3>1, <3>2, StopStep
  <2> QED
    BY <2>1, <2>2
<1>4. CASE BeginWrite(h)
  <2>1. /\ At(h, "write") /\ Ticks
        /\ UNCHANGED <<staging, quarantine, parent, fresh, journal, child, key, session,
                       reaper, alive, answered, collected, overtaken, contested, stranded>>
    BY <1>1, <1>4 DEF BeginWrite, observers
  <2>2. CASE /\ pending[Key(h)] = Bare /\ Goto(h, "native")
             /\ pending' = [pending EXCEPT ![Key(h)] = Build(h)]
    BY <2>1, <2>2, WriteStep DEF Key, Build
  <2>3. CASE Return(h) /\ pending' = [pending EXCEPT ![Key(h)] = WithoutDir(Key(h))]
    BY <2>1, <2>3, UnwriteStep DEF Key
  <2> QED
    BY <1>4, <2>2, <2>3 DEF BeginWrite
<1>5. CASE BeginNative(h)
  <2>1. /\ At(h, "native") /\ Ticks
        /\ pending' = [pending EXCEPT ![proc[h].k] = IF @ = Nothing THEN Bare ELSE @]
        /\ UNCHANGED <<quarantine, parent, fresh, journal, child, key, reaper, alive,
                       answered, collected, overtaken, contested, stranded>>
    BY <1>1, <1>5 DEF BeginNative, observers, Key, bounds
  <2>2. CASE /\ staging[proc[h].k] = Nothing /\ Return(h)
             /\ staging' = [staging EXCEPT ![proc[h].k] = proc[h].b]
             /\ session' = [session EXCEPT ![proc[h].b] = "open"]
    BY <2>1, <2>2, NativeStep
  <2>3. ASSUME Goto(h, "check"), UNCHANGED session,
               NEW left \in {staging[proc[h].k], proc[h].b}, staging[proc[h].k] \in {Nothing, left},
               staging' = [staging EXCEPT ![proc[h].k] = left]
        PROVE  IInv'
    BY <2>1, <2>3, NonativeStep
  <2>4. CASE /\ Goto(h, "check") /\ UNCHANGED <<session, staging>>
    <3>1. staging' = [staging EXCEPT ![proc[h].k] = staging[proc[h].k]]
      BY <1>1, <2>4 DEF TypeOK
    <3> QED
      BY <2>3, <2>4, <3>1
  <2>5. CASE /\ Goto(h, "check") /\ UNCHANGED session /\ staging[proc[h].k] = Nothing
             /\ \E left \in {Nothing, proc[h].b} :
                   staging' = [staging EXCEPT ![proc[h].k] = left]
    BY <2>3, <2>5
  <2> QED
    BY <1>5, <2>2, <2>4, <2>5 DEF BeginNative, Key, Build
<1> QED
  BY <1>2, <1>3, <1>4, <1>5

\* A commit or an abort that stops has not changed anything.
LEMMA StopKeeps ==
    ASSUME IInv, NEW h \in Handlers, Return(h), Ticks,
           UNCHANGED <<disk, key, session, reaper, alive, observers>>,
           proc[h].pc # "rmdir", proc[h].pc \in Publishing => ~Calm'
    PROVE  IInv'
BY StopStep DEF disk, observers

\* A request that goes on has not changed anything.
LEMMA GoKeeps ==
    ASSUME IInv, NEW h \in Handlers, NEW step \in Steps, Goto(h, step), Ticks,
           UNCHANGED <<disk, key, session, reaper, alive, observers>>,
           \/ proc[h].pc = "verify" /\ step = "read" /\ staging[proc[h].k] = proc[h].b
           \/ proc[h].pc = "read" /\ step = "publish"
           \/ proc[h].pc = "check" /\ step = "unlist" /\ staging[proc[h].k] = Nothing
              /\ pending[proc[h].k] = proc[h].b /\ proc[h].then # "commit"
           \/ proc[h].pc = "admit" /\ step = "journal"
    PROVE  IInv'
BY GoStep DEF disk, observers

\* commit-parent, up to the move
LEMMA FinalizeKeeps ==
    ASSUME IInv, NEW h \in Handlers,
           CommitDetach(h) \/ CommitVerify(h) \/ CommitRead(h) \/ CommitMkdir(h)
    PROVE  IInv'
<1>1. TypeOK /\ (Fault \/ UNCHANGED bounds => Ticks)
  BY Counted DEF IInv
<1>2. proc[h].pc # "rmdir" /\ proc[h].pc \notin Publishing
  BY DEF CommitDetach, CommitVerify, CommitRead, CommitMkdir, At, Publishing
<1>3. CASE CommitDetach(h)
  <2>1. At(h, "detach") /\ Ticks /\ UNCHANGED <<disk, key, reaper, alive, observers>>
    BY <1>1, <1>3 DEF CommitDetach
  <2>2. CASE /\ session' = [session EXCEPT ![proc[h].b] = IF @ = "open" THEN "closed" ELSE @]
             /\ Goto(h, "verify")
    <3>1. PICK s \in {"closed", session[proc[h].b]} :
             s # "open" /\ session' = [session EXCEPT ![proc[h].b] = s]
      BY <1>1, <2>2 DEF TypeOK
    <3> QED
      BY <2>1, <2>2, <3>1, DetachStep DEF disk, observers, Build
  <2>3. CASE Return(h) /\ UNCHANGED session
    BY <1>2, <2>1, <2>3, StopKeeps
  <2> QED
    BY <1>3, <2>2, <2>3 DEF CommitDetach, Build
<1>4. CASE CommitVerify(h)
  <2>1. At(h, "verify") /\ Ticks /\ UNCHANGED <<disk, key, session, reaper, alive, observers>>
    BY <1>1, <1>4 DEF CommitVerify
  <2>2. CASE Goto(h, "read") /\ staging[proc[h].k] = proc[h].b
    BY <2>1, <2>2, GoKeeps DEF At, Steps
  <2>3. CASE Return(h)
    BY <1>2, <2>1, <2>3, StopKeeps
  <2> QED
    BY <1>4, <2>2, <2>3 DEF CommitVerify, OwnImage, Key, Build
<1>5. CASE CommitRead(h)
  <2>1. At(h, "read") /\ Ticks /\ UNCHANGED <<disk, key, session, reaper, alive, observers>>
    BY <1>1, <1>5 DEF CommitRead
  <2>2. CASE Goto(h, "publish")
    BY <2>1, <2>2, GoKeeps DEF At, Steps
  <2>3. CASE Return(h)
    BY <1>2, <2>1, <2>3, StopKeeps
  <2> QED
    BY <1>5, <2>2, <2>3 DEF CommitRead
<1>6. CASE CommitMkdir(h)
  <2>1. /\ At(h, "publish") /\ Ticks
        /\ UNCHANGED <<pending, staging, quarantine, fresh, journal, child, key, session,
                       reaper, alive, answered, collected, overtaken, contested, stranded>>
    BY <1>1, <1>6 DEF CommitMkdir, observers
  <2>2. CASE /\ Missing(Key(h)) /\ Goto(h, "move")
             /\ parent' = [parent EXCEPT ![Key(h)].dir = TRUE]
    BY <2>1, <2>2, MkparentStep DEF Key
  <2>3. CASE Return(h) /\ UNCHANGED parent
    BY <1>2, <2>1, <2>3, StopStep
  <2> QED
    BY <1>6, <2>2, <2>3 DEF CommitMkdir
<1> QED
  BY <1>3, <1>4, <1>5, <1>6

\* commit-parent, once the parent directory is there.  In the calm the image
\* can be moved: it is there, closed, and the new directory is empty.
LEMMA PublishKeeps ==
    ASSUME IInv, NEW h \in Handlers, CommitMove(h) \/ CommitMetadata(h) \/ CommitComplete(h)
    PROVE  IInv'
<1>1. TypeOK /\ (Fault \/ UNCHANGED bounds => Ticks)
  BY Counted DEF IInv
<1>2. Fault => ~Calm'
  BY <1>1 DEF Fault, Calm, TypeOK
<1>3. CASE CommitMove(h)
  <2>1. /\ At(h, "move") /\ Ticks
        /\ UNCHANGED <<pending, quarantine, fresh, journal, child, key, session, reaper, alive,
                       answered, collected, overtaken, contested, stranded>>
    BY <1>1, <1>3 DEF CommitMove, observers
  <2>2. CASE /\ staging[proc[h].k] # Nothing /\ Goto(h, "metadata")
             /\ parent' = [parent EXCEPT ![proc[h].k].vhdx = staging[proc[h].k]]
             /\ staging' = [staging EXCEPT ![proc[h].k] = Nothing]
    BY <2>1, <2>2, MoveStep
  <2>3. CASE Return(h) /\ UNCHANGED <<parent, staging>>
             /\ (Fault \/ ~(/\ parent[proc[h].k].vhdx = Nothing
                            /\ staging[proc[h].k] # Nothing /\ ~Attached(proc[h].k)))
    <3>1. ASSUME Calm' PROVE FALSE
      <4>1. Undisputed
        BY <2>1, <3>1 DEF Calm, Undisputed
      <4>2. ImageKnown /\ proc[h].b \in Builds
        BY <2>1, <4>1 DEF IInv, Orderly, Control, HasKey, Building, At
      <4>3. /\ parent[proc[h].k].vhdx = Nothing /\ staging[proc[h].k] = proc[h].b
            /\ session[proc[h].b] # "open"
        BY <2>1, <4>2 DEF ImageKnown, At, Building
      <4> QED
        BY <1>2, <2>3, <3>1, <4>2, <4>3, Sentinels DEF Attached
    <3>2. proc[h].pc # "rmdir"
      BY <2>1 DEF At
    <3> QED
      BY <2>1, <2>3, <3>1, <3>2, StopStep
  <2> QED
    BY <1>3, <2>2, <2>3 DEF CommitMove, Key
<1>4. CASE CommitMetadata(h)
  <2>1. /\ At(h, "metadata") /\ Ticks
        /\ UNCHANGED <<pending, quarantine, journal, child, key, session, reaper, alive,
                       answered, collected, overtaken, contested, stranded>>
    BY <1>1, <1>4 DEF CommitMetadata, observers, bounds
  <2>2. CASE /\ parent' = [parent EXCEPT ![proc[h].k].metadata = proc[h].b]
             /\ fresh' = fresh \cup {proc[h].k} /\ Goto(h, "complete") /\ UNCHANGED staging
    BY <2>1, <2>2, MetadataStep
  <2>3. CASE Fault /\ Rollback(h)
    BY <1>2, <2>1, <2>3, RollbackStep DEF At
  <2> QED
    BY <1>4, <2>2, <2>3 DEF CommitMetadata, AfterMetadata, Key, Build
<1>5. CASE CommitComplete(h)
  <2>1. /\ At(h, "complete") /\ Ticks
        /\ UNCHANGED <<pending, quarantine, journal, child, key, session, reaper, alive,
                       answered, collected, overtaken, contested, stranded>>
    BY <1>1, <1>5 DEF CommitComplete, observers, bounds
  <2>2. CASE /\ parent' = [parent EXCEPT ![proc[h].k].complete = TRUE]
             /\ Goto(h, "unlist") /\ UNCHANGED <<staging, fresh>>
    BY <2>1, <2>2, CompleteStep
  <2>3. CASE Fault /\ Rollback(h)
    BY <1>2, <2>1, <2>3, RollbackStep DEF At
  <2> QED
    BY <1>5, <2>2, <2>3 DEF CommitComplete, Key
<1> QED
  BY <1>3, <1>4, <1>5

\* abort-parent, and the end of both
LEMMA EndKeeps ==
    ASSUME IInv, NEW h \in Handlers, AbortClose(h) \/ AbortCheck(h) \/ Unlist(h) \/ Rmdir(h)
    PROVE  IInv'
<1>1. TypeOK /\ (Fault \/ UNCHANGED bounds => Ticks)
  BY Counted DEF IInv
<1>2. CASE AbortClose(h)
  <2>1. /\ At(h, "close") /\ Ticks
        /\ UNCHANGED <<pending, quarantine, parent, fresh, journal, child, key, reaper, alive,
                       answered, collected, overtaken, contested, stranded>>
    BY <1>1, <1>2 DEF AbortClose, observers
  <2> DEFINE s == IF session[proc[h].b] = "open" THEN "closed" ELSE session[proc[h].b]
  <2>2. ASSUME session' = [session EXCEPT ![proc[h].b] = s],
               Return(h) \/ Goto(h, "check"),
               NEW left \in {staging[proc[h].k], Nothing},
               staging' = [staging EXCEPT ![proc[h].k] = left]
        PROVE  IInv'
    BY <2>1, <2>2, CloseStep DEF Key, Build
  <2>3. CASE /\ session' = [session EXCEPT ![proc[h].b] = s]
             /\ Return(h) /\ UNCHANGED staging
    <3>1. staging' = [staging EXCEPT ![proc[h].k] = staging[proc[h].k]]
      BY <1>1, <2>3 DEF TypeOK
    <3> QED
      BY <2>2, <2>3, <3>1
  <2>4. CASE /\ session' = [session EXCEPT ![proc[h].b] = s]
             /\ Goto(h, "check") /\ staging' = [staging EXCEPT ![proc[h].k] = Nothing]
    BY <2>2, <2>4
  <2>5. CASE Return(h) /\ UNCHANGED <<staging, session>>
    <3>1. proc[h].pc # "rmdir" /\ proc[h].pc \notin Publishing
      BY <2>1 DEF At, Publishing
    <3> QED
      BY <2>1, <2>5, <3>1, StopStep
  <2>6. session' = [session EXCEPT ![proc[h].b] = IF @ = "open" THEN "closed" ELSE @]
           => session' = [session EXCEPT ![proc[h].b] = s]
    BY <1>1 DEF TypeOK
  <2> QED
    BY <1>2, <2>3, <2>4, <2>5, <2>6 DEF AbortClose, Key, Build
<1>3. CASE AbortCheck(h)
  <2>1. At(h, "check") /\ Ticks /\ UNCHANGED <<disk, key, session, reaper, alive, observers>>
    BY <1>1, <1>3 DEF AbortCheck
  <2>2. CASE Goto(h, "unlist") /\ staging[proc[h].k] = Nothing /\ pending[proc[h].k] = proc[h].b
    <3>1. proc[h].then # "commit"
      BY <2>1 DEF IInv, Control, HasKey, At, Committing
    <3> QED
      BY <2>1, <2>2, <3>1, GoKeeps DEF At, Steps
  <2>3. CASE Return(h)
    <3>1. proc[h].pc # "rmdir" /\ proc[h].pc \notin Publishing
      BY <2>1 DEF At, Publishing
    <3> QED
      BY <2>1, <2>3, <3>1, StopKeeps
  <2> QED
    BY <1>3, <2>2, <2>3 DEF AbortCheck, OwnPending, Key, Build
<1>4. CASE Unlist(h)
  <2>1. /\ At(h, "unlist") /\ Ticks
        /\ UNCHANGED <<staging, quarantine, parent, fresh, journal, child, key, session,
                       reaper, alive, answered, collected, overtaken, contested, stranded>>
    BY <1>1, <1>4 DEF Unlist, observers
  <2>2. CASE /\ pending[proc[h].k] \in Builds /\ Goto(h, "rmdir")
             /\ pending' = [pending EXCEPT ![proc[h].k] = Bare]
    BY <2>1, <2>2, UnlistStep, Sentinels DEF Key
  <2>3. CASE Goto(h, "rmdir") /\ UNCHANGED pending
    <3>1. pending' = [pending EXCEPT ![proc[h].k] = pending[proc[h].k]]
      BY <1>1, <2>3 DEF TypeOK
    <3> QED
      BY <2>1, <2>3, <3>1, UnlistStep, Sentinels DEF Key
  <2>4. CASE Return(h) /\ UNCHANGED pending
    <3>1. proc[h].pc # "rmdir" /\ proc[h].pc \notin Publishing
      BY <2>1 DEF At, Publishing
    <3> QED
      BY <2>1, <2>4, <3>1, StopStep
  <2> QED
    BY <1>4, <2>2, <2>3, <2>4 DEF Unlist, Key
<1>5. CASE Rmdir(h)
  <2>1. /\ At(h, "rmdir") /\ Return(h)
        /\ answered' = IF proc[h].then = "commit" THEN answered \cup {proc[h].b} ELSE answered
        /\ UNCHANGED <<staging, quarantine, parent, fresh, journal, child, key,
                       reaper, alive, collected, overtaken, contested>>
    BY <1>5 DEF Rmdir, Build
  <2>2. proc[h].k \in Keys /\ proc[h].b \in Builds
    BY <2>1 DEF IInv, Control, HasKey, At, Building
  <2>3. /\ Ticks /\ stranded' = stranded \cup {x \in {proc[h].k} : pending'[x] = Bare}
        /\ \/ pending' = [pending EXCEPT ![proc[h].k] = WithoutDir(proc[h].k)]
           \/ pending' = pending
    BY <1>1, <1>5 DEF Rmdir, RemovesDir, Key
  <2>4. PICK p \in {pending[proc[h].k], WithoutDir(proc[h].k)} :
           pending' = [pending EXCEPT ![proc[h].k] = p]
    BY <1>1, <2>2, <2>3 DEF TypeOK
  <2>5. pending'[proc[h].k] = p
    BY <1>1, <2>2, <2>4 DEF TypeOK
  <2>6. stranded' = stranded \cup {x \in {proc[h].k} : p = Bare}
    BY <2>3, <2>5
  <2>7. PICK s \in {session[proc[h].b], "none"} :
           /\ session' = [session EXCEPT ![proc[h].b] = s]
           /\ pending[proc[h].k] = Bare /\ p = Nothing => s = "none"
    BY <1>5, <2>5 DEF Rmdir, Key, Build
  <2> QED
    BY <2>1, <2>3, <2>4, <2>6, <2>7, RmdirStep DEF Key, Build
<1> QED
  BY <1>2, <1>3, <1>4, <1>5

\* acquire
LEMMA LeaseKeeps ==
    ASSUME IInv, NEW h \in Handlers,
           AcquireTouch(h) \/ AcquireAdmit(h) \/ AcquireJournal(h) \/ AcquireChild(h)
    PROVE  IInv'
<1>1. /\ TypeOK /\ (Fault \/ UNCHANGED bounds => Ticks)
      /\ proc \in [Handlers -> Locals] /\ proc[h] \in Locals
  BY Counted DEF IInv, TypeOK
<1>2. CASE AcquireTouch(h)
  <2>1. /\ At(h, "touch") /\ Goto(h, "admit") /\ Ticks
        /\ \/ /\ fresh' = IF Valid(proc[h].k) THEN fresh \cup {proc[h].k} ELSE fresh
              /\ UNCHANGED overtaken
           \/ fresh' = fresh /\ overtaken' = overtaken \cup {proc[h].l}
        /\ UNCHANGED <<pending, staging, quarantine, parent, journal, child, key, session,
                       reaper, alive, answered, collected, contested, stranded>>
    BY <1>1, <1>2 DEF AcquireTouch, Key, observers
  <2> QED
    BY <2>1, TouchStep DEF Key
<1>3. CASE AcquireAdmit(h)
  <2>1. At(h, "admit") /\ Ticks /\ UNCHANGED <<disk, key, session, reaper, alive, observers>>
    BY <1>1, <1>3 DEF AcquireAdmit
  <2>2. CASE Goto(h, "journal")
    BY <2>1, <2>2, GoKeeps DEF At, Steps
  <2>3. CASE proc' = [proc EXCEPT ![h].pc = "protect", ![h].then = "journal"]
    <3> DEFINE f == [proc[h] EXCEPT !.pc = "protect", !.then = "journal"]
    <3>1. proc' = [proc EXCEPT ![h] = f]
      BY <1>1, <2>3
    <3>2. /\ f \in Locals /\ f.pc = "protect" /\ f.k = proc[h].k /\ f.b = proc[h].b
          /\ f.l = proc[h].l /\ f.then = "journal"
      BY <1>1 DEF Locals, Steps
    <3> HIDE DEF f
    <3> QED
      BY <2>1, <3>1, <3>2, AdmitStep DEF disk, observers
  <2> QED
    BY <1>3, <2>2, <2>3 DEF AcquireAdmit
<1>4. CASE AcquireJournal(h)
  <2>1. /\ At(h, "journal") /\ Goto(h, "child") /\ Ticks
        /\ journal' = [journal EXCEPT ![proc[h].l] = proc[h].k]
        /\ UNCHANGED <<pending, staging, quarantine, parent, fresh, child, key, session,
                       reaper, alive, answered, collected, overtaken, contested, stranded>>
    BY <1>1, <1>4 DEF AcquireJournal, Key, observers
  <2> QED
    BY <2>1, JournalStep
<1>5. CASE AcquireChild(h)
  <2>1. /\ At(h, "child") /\ Ticks
        /\ UNCHANGED <<pending, staging, quarantine, parent, fresh, key, session,
                       reaper, alive, answered, collected, overtaken, contested, stranded>>
    BY <1>1, <1>5 DEF AcquireChild, observers
  <2>2. CASE /\ parent[proc[h].k].vhdx # Nothing /\ UNCHANGED journal
             /\ child' = [child EXCEPT ![proc[h].l] = parent[proc[h].k].vhdx]
             /\ proc' \in {[proc EXCEPT ![h] = Idle],
                           [proc EXCEPT ![h] = [Idle EXCEPT !.pc = "protect"]]}
    BY <2>1, <2>2, ChildStep
  <2>3. CASE /\ journal' = [journal EXCEPT ![proc[h].l] = Nothing]
             /\ Return(h) /\ UNCHANGED child
    BY <2>1, <2>3, NochildStep
  <2> QED
    BY <1>5, <2>2, <2>3 DEF AcquireChild, Key, Return
<1> QED
  BY <1>2, <1>3, <1>4, <1>5

\* The collector
LEMMA CollectorKeeps ==
    ASSUME IInv, NEW h \in Handlers,
           \/ CollectProtect(h) \/ CollectList(h) \/ CollectFailed(h)
           \/ \E k \in Keys : CollectOne(h, k)
    PROVE  IInv'
<1>1. /\ TypeOK /\ (Fault \/ UNCHANGED bounds => Ticks)
      /\ proc \in [Handlers -> Locals] /\ proc[h] \in Locals
  BY Counted DEF IInv, TypeOK
<1>2. proc[h].pc # "rmdir" /\ proc[h].pc \notin Publishing
  BY DEF CollectProtect, CollectList, CollectFailed, CollectOne, At, Publishing
<1>3. CASE CollectProtect(h)
  <2>1. /\ At(h, "protect") /\ Ticks
        /\ overtaken' = overtaken \cup {l \in Leases : /\ journal[l] = Nothing
                                                      /\ \E g \in Handlers \ {h} : proc[g].l = l}
        /\ UNCHANGED <<pending, staging, quarantine, parent, fresh, journal, child, key,
                       session, reaper, alive, answered, collected, contested, stranded>>
    BY <1>1, <1>3 DEF CollectProtect, disk
  <2>2. CASE proc' = [proc EXCEPT ![h] = Idle]
    BY <2>1, <2>2, Records, ProtectStep
  <2>3. CASE proc' = [proc EXCEPT ![h].pc = "list", ![h].active = Protected]
    <3> DEFINE f == [proc[h] EXCEPT !.pc = "list", !.active = Protected]
    <3>1. proc' = [proc EXCEPT ![h] = f]
      BY <1>1, <2>3
    <3>2. Protected \in SUBSET Keys
      BY DEF Protected
    <3>3. /\ f \in Locals /\ f.pc = "list" /\ f.k = proc[h].k /\ f.b = proc[h].b
          /\ f.l = proc[h].l /\ f.then = proc[h].then /\ f.active = Protected
      BY <1>1, <3>2 DEF Locals, Steps
    <3> HIDE DEF f
    <3> QED
      BY <2>1, <3>1, <3>3, ProtectStep
  <2> QED
    BY <1>3, <2>2, <2>3 DEF CollectProtect, Return
<1>4. CASE CollectList(h)
  <2>1. At(h, "list") /\ Ticks /\ UNCHANGED <<disk, key, session, reaper, alive, observers>>
    BY <1>1, <1>4 DEF CollectList
  <2> DEFINE due == Expired \ proc[h].active
             f == [proc[h] EXCEPT !.pc = "collect", !.listed = due]
  <2>2. due \in SUBSET Keys
    BY DEF Expired
  <2>3. proc' = [proc EXCEPT ![h] = f]
    BY <1>1, <1>4 DEF CollectList
  <2>4. due = Expired \ proc[h].active
    OBVIOUS
  <2> HIDE DEF due
  <2>5. /\ f \in Locals /\ f.pc = "collect" /\ f.k = proc[h].k /\ f.b = proc[h].b
        /\ f.l = proc[h].l /\ f.then = proc[h].then /\ f.listed = due
    BY <1>1, <2>2 DEF Locals, Steps
  <2> HIDE DEF f
  <2> QED
    BY <2>1, <2>3, <2>4, <2>5, ListStep DEF disk, observers
<1>5. CASE CollectFailed(h)
  BY <1>1, <1>2, <1>5, StopKeeps DEF CollectFailed
<1>6. ASSUME NEW k \in Keys, CollectOne(h, k) PROVE IInv'
  <2>1. /\ At(h, "collect") /\ k \in proc[h].listed /\ Ticks
        /\ UNCHANGED <<pending, staging, quarantine, journal, child, key, session,
                       reaper, alive, answered, overtaken, contested, stranded>>
    BY <1>1, <1>6 DEF CollectOne
  <2>2. CASE ~Valid(k) /\ Return(h) /\ UNCHANGED <<parent, fresh, collected>>
    BY <1>2, <2>1, <2>2, StopStep
  <2>3. ASSUME Valid(k), NEW f \in Locals, proc' = [proc EXCEPT ![h] = f],
               \/ f = Idle
               \/ /\ f.k = proc[h].k /\ f.b = proc[h].b /\ f.l = proc[h].l
                  /\ f.then = proc[h].then
                  /\ \/ f.pc = "collect" /\ f.listed = proc[h].listed \ {k}
                     \/ f.pc = "journal" /\ proc[h].then = "journal",
               collected' = collected \cup {parent[k].vhdx}, fresh' = fresh \ {k},
               NEW d \in {NoDir, OnlyImage(k)}, parent' = [parent EXCEPT ![k] = d]
        PROVE  IInv'
    BY <2>1, <2>3, CollectStep
  <2>4. CASE /\ Valid(k) /\ collected' = collected \cup {parent[k].vhdx} /\ fresh' = fresh \ {k}
             /\ \/ parent' = [parent EXCEPT ![k] = NoDir]
                \/ parent' = [parent EXCEPT ![k] = OnlyImage(k)]
             /\ proc' = [proc EXCEPT ![h] = Idle]
    BY <2>3, <2>4, Records
  <2>5. CASE /\ Valid(k) /\ collected' = collected \cup {parent[k].vhdx} /\ fresh' = fresh \ {k}
             /\ parent' = [parent EXCEPT ![k] = NoDir]
             /\ proc' = [proc EXCEPT ![h].listed = @ \ {k}]
    <3> DEFINE f == [proc[h] EXCEPT !.listed = @ \ {k}]
    <3>1. proc' = [proc EXCEPT ![h] = f]
      BY <1>1, <2>5
    <3>2. /\ f \in Locals /\ f.pc = proc[h].pc /\ f.k = proc[h].k /\ f.b = proc[h].b
          /\ f.l = proc[h].l /\ f.then = proc[h].then /\ f.listed = proc[h].listed \ {k}
      BY <1>1 DEF Locals
    <3> HIDE DEF f
    <3> QED
      BY <2>1, <2>3, <2>5, <3>1, <3>2 DEF At
  <2>6. CASE /\ Valid(k) /\ collected' = collected \cup {parent[k].vhdx} /\ fresh' = fresh \ {k}
             /\ parent' = [parent EXCEPT ![k] = NoDir]
             /\ proc[h].then = "journal" /\ Goto(h, "journal")
    <3> DEFINE f == [proc[h] EXCEPT !.pc = "journal"]
    <3>1. proc' = [proc EXCEPT ![h] = f]
      BY <1>1, <2>6 DEF Goto
    <3>2. /\ f \in Locals /\ f.pc = "journal" /\ f.k = proc[h].k /\ f.b = proc[h].b
          /\ f.l = proc[h].l /\ f.then = proc[h].then
      BY <1>1 DEF Locals, Steps
    <3> HIDE DEF f
    <3> QED
      BY <2>3, <2>6, <3>1, <3>2
  <2> QED
    BY <1>6, <2>2, <2>4, <2>5, <2>6 DEF CollectOne, Return
<1> QED
  BY <1>3, <1>4, <1>5, <1>6

-----------------------------------------------------------------------------
(* The theorems                                                            *)

\* The store starts empty.
LEMMA InitIInv == Init => IInv
<1> SUFFICES ASSUME Init PROVE IInv
  OBVIOUS
<1>1. \A h \in Handlers : proc[h] = Idle
  BY DEF Init
<1>2. TypeOK
  BY ConstantsAssumption, Records DEF ConstantsAssumption, Init, TypeOK, Image, NoReap
<1>3. Control
  BY <1>1, Records, Sentinels
     DEF Init, Control, HasKey, OneHandler, OnePublisher, NoReap, Building, Leasing,
         Collecting, Publishing, Committing
<1>4. PendingKnown
  BY Sentinels DEF Init, PendingKnown
<1>5. Orderly
  BY <1>1, <1>4, Records
     DEF Init, Orderly, BuildKnown, ImageKnown, CommitKnown, NoReap, Building
<1>6. NoWreck
  BY Records DEF Init, NoWreck, Missing
<1>7. Leased
  BY <1>1, Records, Sentinels
     DEF Init, Leased, JournalKnown, JournalProtects, TouchProtects
<1> QED
  BY <1>2, <1>3, <1>5, <1>6, <1>7 DEF IInv

\* Every step keeps the invariant.
LEMMA NextIInv ==
    ASSUME IInv, Next
    PROVE  IInv'
<1>1. ASSUME NEW h \in Handlers, Request(h) \/ Advance(h) PROVE IInv'
  BY <1>1, RequestKeeps, BuildKeeps, FinalizeKeeps, PublishKeeps, EndKeeps, LeaseKeeps,
     CollectorKeeps DEF Advance
<1>2. CASE Recover
  BY <1>2, LookStep, ReapStep DEF Recover
<1> QED
  BY <1>1, <1>2, ReleaseStep, DieStep, AgeStep, CrashStep DEF Next

\* So does no step at all.
LEMMA StutterIInv ==
    ASSUME IInv, UNCHANGED vars
    PROVE  IInv'
<1>1. UNCHANGED <<pending, staging, quarantine, parent, fresh, journal, child, key, session,
                  proc, reaper, alive, answered, collected, overtaken, contested, stranded,
                  faults, crashes>>
  BY DEF vars, disk, observers, bounds
<1>2. TypeOK' /\ Control' /\ NoWreck'
  BY <1>1 DEF IInv, TypeOK, Control, HasKey, OneHandler, OnePublisher, NoWreck, Calm,
     Undisputed, Missing, Verified, Valid, Key
<1>3. Leased'
  BY <1>1
     DEF IInv, Leased, JournalKnown, JournalProtects, TouchProtects, Spared,
         Verified, Valid
<1>4. Orderly'
  BY <1>1
     DEF IInv, Orderly, Undisputed, PendingKnown, BuildKnown, ImageKnown,
         CommitKnown, Published,
     Verified, Valid
<1> QED
  BY <1>2, <1>3, <1>4 DEF IInv

\* The inductive invariant holds in every behaviour.
LEMMA Invariant == Spec => []IInv
BY InitIInv, NextIInv, StutterIInv, PTL DEF Spec

\* Types are respected, and a staged image always lies in a pending
\* directory, the files of a parent in a parent directory.
THEOREM TypeCorrect == Spec => []TypeOK
<1>1. IInv => TypeOK
  BY DEF IInv
<1> QED
  BY Invariant, <1>1, PTL

\* Until a call fails, the broker crashes, a client dies or two requests about
\* one build overlap, no interleaving of begin-parent, commit-parent,
\* abort-parent, acquire and the collector leaves a parent directory that does
\* not resolve and that no commit works on.
THEOREM NeverWrecked == Spec => []NoWreck
<1>1. IInv => NoWreck
  BY DEF IInv
<1> QED
  BY Invariant, <1>1, PTL

\* The collector deletes no parent that a child is differenced from, unless
\* the collection overlapped the acquire of that child or the acquire could
\* not touch the parent: RemoveParentIfUnused acts on what
\* ProtectedParentKeys and ListParents read long before.
THEOREM ParentsKept == Spec => []ReferencedParentKept
<1>1. IInv => ReferencedParentKept
  BY DEF IInv, Leased, JournalKnown, JournalProtects, ReferencedParentKept
<1> QED
  BY Invariant, <1>1, PTL

\* As long as no client has died and no build had two requests at a time,
\* whatever fails and crashes, a client that was told its parent is committed
\* finds that image with its own metadata until the collector deletes it.
THEOREM CommitsStay == Spec => []CommittedStays
<1>1. IInv => CommittedStays
  BY DEF IInv, Orderly, CommitKnown, Published, CommittedStays
<1> QED
  BY Invariant, <1>1, PTL
=============================================================================
