--------------------------- MODULE VhdxLease_proofs ---------------------------
(***************************************************************************)
(* Proofs about VhdxLease, for every set of disk numbers and every number   *)
(* of failing calls and crashes.                                            *)
(*                                                                          *)
(* The scripts find the disk by the number the session remembers, and the   *)
(* cleanup removes the directory the session believes it created, so both   *)
(* results rest on what the session's flags say of the host (SessionTrue).  *)
(* The flags are not always true: the fail closure goes on after a failed   *)
(* unmount and leaves them behind, until it forgets the session.            *)
(***************************************************************************)
EXTENDS VhdxLease, TLAPS

(* The flags of the session agree with the host. *)
SessionTrue ==
    /\ attached => number \in Numbers \ others
    /\ pc \notin {"f_close", "f_child", "f_mount"} =>
          (session.mounted => session.attached /\ session.disk = number)
    /\ pc \notin {"f_child", "f_mount"} => (session.attached => attached)
    /\ pc \in {"resolve", "mount", "ready"} => session.attached
    /\ pc \in {"mount", "ready"} => session.disk = number
    /\ pc \in {"r_detach", "r_close", "r_wait", "r_child", "r_mount"} =>
          ~session.mounted

(* What the session created at the mount path is still there, or somebody   *)
(* replaced it; what it has mounted is there while the disk is attached.    *)
PathTrue ==
    /\ session.mountCreated => mnt \in {"dir", "point"} \/ raced
    /\ pc \in {"ready", "f_unmount"} /\ session.mounted => mnt = "point"
    /\ pc \in {"create", "open", "attach", "resolve", "mount"} => ~session.mounted
    /\ pc \in {"stale", "clear", "mkdir"} => session = NoSession
    /\ pc = "clear" => mnt = "point" \/ raced

(* Where the session is the one that attached the disk, it knows whether    *)
(* the disk is attached, and the image is there unless it is doomed.        *)
Releasing == pc \in {"r_unmount", "r_detach", "r_close", "r_wait", "r_child", "r_mount"}

Holding == pc = "idle" /\ session # NoSession

AttachKnown ==
    /\ session.childCreated /\ pc \notin {"f_child", "f_mount"} =>
          (attached => session.attached)
    /\ Releasing \/ Holding => (attached => session.attached)
    /\ pc = "f_close" /\ ~cleanup => ~session.attached
    /\ pc = "f_child" /\ ~cleanup /\ session.childCreated => ~attached
    /\ pc \in {"r_close", "r_wait", "r_child", "r_mount"} => ~session.attached

ChildTrue ==
    /\ attached => file
    /\ pc = "create" \/ (pc = "mkdir" /\ op = "acquire") => ~file
    /\ pc \in {"stale", "clear", "open", "attach", "resolve", "mount", "ready"} => file
    /\ pc = "mkdir" /\ op # "acquire" => file
    /\ pc \in {"stale", "clear"} => op = "attach"
    /\ Releasing \/ Holding => file \/ doomed
    /\ Releasing /\ delete => doomed
    /\ pc = "r_mount" /\ delete => ~file
    /\ pc = "create" => doomed
    /\ pc # "idle" /\ ~Releasing /\ (op = "acquire" \/ session.childCreated) => doomed

(* An operation runs or the last one has answered, and a session that has   *)
(* not mounted its volume finds no mount point of it.                       *)
AnswerTrue ==
    /\ pc = "idle" <=> answer # "none"
    /\ pc = "ready" => session.mounted /\ mnt = "point"
    /\ Releasing \/ Holding => (mnt = "point" => session.mounted)

(* What an acquire that is still running, or gives up, has to undo.  As     *)
(* long as no cleanup call failed, the flags of the session cover all of it. *)
Undoing == op \in {"acquire", "discard"}

UndoTrue ==
    /\ Undoing /\ session.mountCreated => found = "none" \/ raced
    /\ Undoing /\ ~session.mountCreated => mnt = found /\ mnt \in {"none", "foreign"}
    /\ op = "acquire" /\ pc \in {"open", "attach", "resolve", "mount", "ready"} =>
          session.childCreated
    /\ Undoing /\ ~dirty /\ pc \in {"f_unmount", "f_detach", "f_close", "f_child"} =>
          ~cleanup /\ (file => session.childCreated)
    /\ Undoing /\ ~dirty /\ pc = "f_mount" => ~file
    /\ op = "discard" => delete /\ Releasing
    /\ op = "acquire" => ~Releasing
    /\ pc = "create" => op = "acquire"
    /\ pc = "idle" <=> op = "none"
    /\ answer = "undone" => pc = "idle"
    /\ UndoneLeavesNothing

IndInv == TypeOK /\ SessionTrue /\ PathTrue

RefInv == IndInv /\ AttachKnown /\ ChildTrue /\ AnswerTrue

UndoInv == RefInv /\ UndoTrue

(* The assumptions on the constants, as the steps below cite them. *)
LEMMA Constants == MaxFaults \in Nat /\ MaxCrashes \in Nat /\ 0 \notin Numbers
  BY ConstantsAssumption DEF ConstantsAssumption

(* Setting one field of a session gives a session. *)
LEMMA SessionFields ==
    /\ NoSession \in Sessions
    /\ \A s \in Sessions : \A b \in BOOLEAN :
          /\ [s EXCEPT !.handle = b] \in Sessions
          /\ [s EXCEPT !.attached = b] \in Sessions
          /\ [s EXCEPT !.mounted = b] \in Sessions
          /\ [s EXCEPT !.childCreated = b] \in Sessions
          /\ [s EXCEPT !.mountCreated = b] \in Sessions
    /\ \A s \in Sessions : \A n \in Numbers \cup {0} : [s EXCEPT !.disk = n] \in Sessions
  BY DEF Sessions, NoSession

(* The broker starts without a session and without a disk. *)
LEMMA InitInd == Init => IndInv
<1> SUFFICES ASSUME Init PROVE IndInv
  OBVIOUS
<1>1. HostOK /\ RunOK
  BY DEF Init, HostOK, RunOK, Steps
<1>2. session \in Sessions
  BY SessionFields DEF Init
<1>3. CountersOK
  BY Constants DEF Init, CountersOK
<1>4. SessionTrue /\ PathTrue
  BY DEF Init, SessionTrue, PathTrue, NoSession
<1> QED
  BY <1>1, <1>2, <1>3, <1>4 DEF IndInv, TypeOK

(* Every step of the broker, of Windows and of the user keeps IndInv. *)
LEMMA StepInd == IndInv /\ [Next]_vars => IndInv'
<1> SUFFICES ASSUME IndInv, [Next]_vars PROVE IndInv'
  OBVIOUS
<1> USE DEF IndInv, TypeOK
<1>1. CASE AcquireBegin
  <2>1. HostOK'
    BY <1>1 DEF HostOK, AcquireBegin, Begin, host
  <2>2. RunOK'
    BY <1>1 DEF HostOK, RunOK, Steps, AcquireBegin, Begin, host
  <2>3. session' \in Sessions
    BY <1>1, SessionFields DEF HostOK, AcquireBegin, Begin, host
  <2>4. CountersOK'
    BY <1>1, Constants DEF CountersOK, AcquireBegin, Begin, host
  <2>5. SessionTrue'
    BY <1>1, Constants DEF HostOK, Sessions, SessionTrue, PathTrue, NoSession,
       AcquireBegin, Begin, host
  <2>6. PathTrue'
    BY <1>1 DEF HostOK, Sessions, PathTrue, NoSession, AcquireBegin, Begin,
       host
  <2> QED
    BY <2>1, <2>2, <2>3, <2>4, <2>5, <2>6
<1>2. CASE AttachBegin
  <2>1. HostOK'
    BY <1>2 DEF HostOK, AttachBegin, Begin, host
  <2>2. RunOK'
    BY <1>2 DEF HostOK, RunOK, Steps, AttachBegin, Begin, host
  <2>3. session' \in Sessions
    BY <1>2, SessionFields DEF HostOK, AttachBegin, Begin, host
  <2>4. CountersOK'
    BY <1>2, Constants DEF CountersOK, AttachBegin, Begin, host
  <2>5. SessionTrue'
    BY <1>2, Constants DEF HostOK, Sessions, SessionTrue, PathTrue, NoSession,
       AttachBegin, Begin, host
  <2>6. PathTrue'
    BY <1>2 DEF HostOK, Sessions, PathTrue, NoSession, AttachBegin, Begin,
       host
  <2> QED
    BY <2>1, <2>2, <2>3, <2>4, <2>5, <2>6
<1>3. CASE \E d \in BOOLEAN : ReleaseBegin(d)
  <2>1. HostOK'
    BY <1>3 DEF HostOK, ReleaseBegin, Begin, host
  <2>2. RunOK'
    BY <1>3 DEF HostOK, RunOK, Steps, ReleaseBegin, Begin, host
  <2>3. session' \in Sessions
    BY <1>3, SessionFields DEF HostOK, ReleaseBegin, Begin, host
  <2>4. CountersOK'
    BY <1>3, Constants DEF CountersOK, ReleaseBegin, Begin, host
  <2>5. SessionTrue'
    BY <1>3, Constants DEF HostOK, Sessions, SessionTrue, PathTrue, NoSession,
       ReleaseBegin, Begin, host
  <2>6. PathTrue'
    BY <1>3 DEF HostOK, Sessions, PathTrue, NoSession, ReleaseBegin, Begin,
       host
  <2> QED
    BY <2>1, <2>2, <2>3, <2>4, <2>5, <2>6
<1>4. CASE PrepareStaleMount
  <2>1. HostOK'
    BY <1>4 DEF HostOK, PrepareStaleMount, At, On, Goto, Works, Fails, Fault,
       Refuse, Failed, Answer, OwnStalePoint, host
  <2>2. RunOK'
    BY <1>4 DEF RunOK, Steps, PrepareStaleMount, At, On, Goto, Works, Fails,
       Fault, Refuse, Failed, Answer, OwnStalePoint, host
  <2>3. session' \in Sessions
    BY <1>4, SessionFields DEF HostOK, PrepareStaleMount, At, On, Goto, Works,
       Fails, Fault, Refuse, Failed, Answer, OwnStalePoint, host
  <2>4. CountersOK'
    BY <1>4, Constants DEF CountersOK, PrepareStaleMount, At, On, Goto, Works,
       Fails, Fault, Refuse, Failed, Answer, OwnStalePoint, host
  <2>5. SessionTrue'
    BY <1>4, Constants DEF HostOK, Sessions, SessionTrue, PathTrue, NoSession,
       PrepareStaleMount, At, On, Goto, Works, Fails, Fault, Refuse, Failed,
       Answer, OwnStalePoint, host
  <2>6. PathTrue'
    BY <1>4 DEF HostOK, Sessions, PathTrue, NoSession, PrepareStaleMount, At,
       On, Goto, Works, Fails, Fault, Refuse, Failed, Answer, OwnStalePoint, host
  <2> QED
    BY <2>1, <2>2, <2>3, <2>4, <2>5, <2>6
<1>4a. CASE ClearStaleMount
  <2>1. HostOK'
    BY <1>4a DEF HostOK, ClearStaleMount, At, On, Goto, Works, Fails, Fault,
       Refuse, Failed, Answer
  <2>2. RunOK'
    BY <1>4a DEF RunOK, Steps, ClearStaleMount, At, On, Goto, Works, Fails,
       Fault, Refuse, Failed, Answer
  <2>3. session' \in Sessions
    BY <1>4a, SessionFields DEF HostOK, ClearStaleMount, At, On, Goto, Works,
       Fails, Fault, Refuse, Failed, Answer
  <2>4. CountersOK'
    BY <1>4a, Constants DEF CountersOK, ClearStaleMount, At, On, Goto, Works,
       Fails, Fault, Refuse, Failed, Answer
  <2>5. SessionTrue'
    BY <1>4a, Constants DEF HostOK, Sessions, SessionTrue, PathTrue, NoSession,
       ClearStaleMount, At, On, Goto, Works, Fails, Fault, Refuse, Failed,
       Answer
  <2>6. PathTrue'
    BY <1>4a DEF HostOK, Sessions, PathTrue, NoSession, ClearStaleMount, At,
       On, Goto, Works, Fails, Fault, Refuse, Failed, Answer
  <2> QED
    BY <2>1, <2>2, <2>3, <2>4, <2>5, <2>6
<1>5. CASE MountDirectory
  <2>1. HostOK'
    BY <1>5 DEF HostOK, MountDirectory, At, On, Goto, Works, Fault, Refuse,
       Failed, Answer
  <2>2. RunOK'
    BY <1>5 DEF RunOK, Steps, MountDirectory, At, On, Goto, Works, Fault,
       Refuse, Failed, Answer
  <2>3. session' \in Sessions
    BY <1>5, SessionFields DEF HostOK, MountDirectory, At, On, Goto, Works,
       Fault, Refuse, Failed, Answer
  <2>4. CountersOK'
    BY <1>5, Constants DEF CountersOK, MountDirectory, At, On, Goto, Works,
       Fault, Refuse, Failed, Answer
  <2>5. SessionTrue'
    BY <1>5, Constants DEF HostOK, Sessions, SessionTrue, PathTrue, NoSession,
       MountDirectory, At, On, Goto, Works, Fault, Refuse, Failed, Answer
  <2>6. PathTrue'
    BY <1>5 DEF HostOK, Sessions, PathTrue, NoSession, MountDirectory, At, On,
       Goto, Works, Fault, Refuse, Failed, Answer
  <2> QED
    BY <2>1, <2>2, <2>3, <2>4, <2>5, <2>6
<1>6. CASE Create
  <2>1. HostOK'
    BY <1>6 DEF HostOK, Create, Created, At, On, Goto, Works, Fault, Fail
  <2>2. RunOK'
    BY <1>6 DEF RunOK, Steps, Create, Created, At, On, Goto, Works, Fault,
       Fail
  <2>3. session' \in Sessions
    BY <1>6, SessionFields DEF HostOK, Create, Created, At, On, Goto, Works,
       Fault, Fail
  <2>4. CountersOK'
    BY <1>6, Constants DEF CountersOK, Create, Created, At, On, Goto, Works,
       Fault, Fail
  <2>5. SessionTrue'
    BY <1>6, Constants DEF HostOK, Sessions, SessionTrue, PathTrue, NoSession,
       Create, Created, At, On, Goto, Works, Fault, Fail
  <2>6. PathTrue'
    BY <1>6 DEF HostOK, Sessions, PathTrue, NoSession, Create, Created, At,
       On, Goto, Works, Fault, Fail
  <2> QED
    BY <2>1, <2>2, <2>3, <2>4, <2>5, <2>6
<1>7. CASE Open
  <2>1. HostOK'
    BY <1>7 DEF HostOK, Open, At, On, Goto, Works, Fault, Fail, Refuse,
       Failed, Answer, host
  <2>2. RunOK'
    <3>1. UNCHANGED <<found, identity, delete, dirty, doomed, raced>> /\ pc' \in Steps
      BY <1>7 DEF Steps, Open, At, On, Goto, Fail, Refuse, Failed, Answer
    <3>2. cleanup' \in BOOLEAN
      BY <1>7 DEF RunOK, Open, On, Fail, Refuse
    <3>3. /\ op' \in {"none", "acquire", "attach", "release", "discard", "recover"}
          /\ answer' \in {"none", "held", "failed", "undone", "released", "retained"}
      BY <1>7 DEF RunOK, Open, On, Goto, Fail, Refuse, Failed, Answer
    <3> QED
      BY <3>1, <3>2, <3>3 DEF RunOK
  <2>3. session' \in Sessions
    BY <1>7, SessionFields DEF HostOK, Open, At, On, Goto, Works, Fault, Fail,
       Refuse, Failed, Answer, host
  <2>4. CountersOK'
    BY <1>7, Constants DEF CountersOK, Open, At, On, Goto, Works, Fault, Fail,
       Refuse, Failed, Answer, host
  <2>5. SessionTrue'
    BY <1>7, Constants DEF HostOK, Sessions, SessionTrue, PathTrue, NoSession,
       Open, At, On, Goto, Works, Fault, Fail, Refuse, Failed, Answer, host
  <2>6. PathTrue'
    BY <1>7 DEF HostOK, Sessions, PathTrue, NoSession, Open, At, On, Goto,
       Works, Fault, Fail, Refuse, Failed, Answer, host
  <2> QED
    BY <2>1, <2>2, <2>3, <2>4, <2>5, <2>6
<1>8. CASE Attach
  <2>1. HostOK'
    BY <1>8 DEF HostOK, Attach, At, On, Goto, Works, Fails, Fault, Fail
  <2>2. RunOK'
    BY <1>8 DEF RunOK, Steps, Attach, At, On, Goto, Works, Fails, Fault, Fail
  <2>3. session' \in Sessions
    BY <1>8, SessionFields DEF HostOK, Attach, At, On, Goto, Works, Fails,
       Fault, Fail
  <2>4. CountersOK'
    BY <1>8, Constants DEF CountersOK, Attach, At, On, Goto, Works, Fails,
       Fault, Fail
  <2>5. SessionTrue'
    BY <1>8, Constants DEF HostOK, Sessions, SessionTrue, PathTrue, NoSession,
       Attach, At, On, Goto, Works, Fails, Fault, Fail
  <2>6. PathTrue'
    BY <1>8 DEF HostOK, Sessions, PathTrue, NoSession, Attach, At, On, Goto,
       Works, Fails, Fault, Fail
  <2> QED
    BY <2>1, <2>2, <2>3, <2>4, <2>5, <2>6
<1>9. CASE Resolve
  <2>1. HostOK'
    BY <1>9 DEF HostOK, Resolve, At, On, Goto, Works, Fault, Fail, host
  <2>2. RunOK'
    BY <1>9 DEF RunOK, Steps, Resolve, At, On, Goto, Works, Fault, Fail, host
  <2>3. session' \in Sessions
    BY <1>9, SessionFields DEF HostOK, Resolve, At, On, Goto, Works, Fault,
       Fail, host
  <2>4. CountersOK'
    BY <1>9, Constants DEF CountersOK, Resolve, At, On, Goto, Works, Fault,
       Fail, host
  <2>5. SessionTrue'
    BY <1>9, Constants DEF HostOK, Sessions, SessionTrue, PathTrue, NoSession,
       Resolve, At, On, Goto, Works, Fault, Fail, host
  <2>6. PathTrue'
    BY <1>9 DEF HostOK, Sessions, PathTrue, NoSession, Resolve, At, On, Goto,
       Works, Fault, Fail, host
  <2> QED
    BY <2>1, <2>2, <2>3, <2>4, <2>5, <2>6
<1>10. CASE Mount
  <2>1. HostOK'
    BY <1>10 DEF HostOK, Mount, At, On, Goto, Works, Fails, Fault, Fail
  <2>2. RunOK'
    BY <1>10 DEF RunOK, Steps, Mount, At, On, Goto, Works, Fails, Fault, Fail
  <2>3. session' \in Sessions
    BY <1>10, SessionFields DEF HostOK, Mount, At, On, Goto, Works, Fails,
       Fault, Fail
  <2>4. CountersOK'
    BY <1>10, Constants DEF CountersOK, Mount, At, On, Goto, Works, Fails,
       Fault, Fail
  <2>5. SessionTrue'
    BY <1>10, Constants DEF HostOK, Sessions, SessionTrue, PathTrue,
       NoSession, Mount, At, On, Goto, Works, Fails, Fault, Fail
  <2>6. PathTrue'
    BY <1>10 DEF HostOK, Sessions, PathTrue, NoSession, Mount, At, On, Goto,
       Works, Fails, Fault, Fail
  <2> QED
    BY <2>1, <2>2, <2>3, <2>4, <2>5, <2>6
<1>11. CASE Hold
  <2>1. HostOK'
    BY <1>11 DEF HostOK, Hold, At, Goto, Works, Fault, Fail, Answer, host
  <2>2. RunOK'
    BY <1>11 DEF RunOK, Steps, Hold, At, Goto, Works, Fault, Fail, Answer,
       host
  <2>3. session' \in Sessions
    BY <1>11, SessionFields DEF HostOK, Hold, At, Goto, Works, Fault, Fail,
       Answer, host
  <2>4. CountersOK'
    BY <1>11, Constants DEF CountersOK, Hold, At, Goto, Works, Fault, Fail,
       Answer, host
  <2>5. SessionTrue'
    BY <1>11, Constants DEF HostOK, Sessions, SessionTrue, PathTrue,
       NoSession, Hold, At, Goto, Works, Fault, Fail, Answer, host
  <2>6. PathTrue'
    BY <1>11 DEF HostOK, Sessions, PathTrue, NoSession, Hold, At, Goto, Works,
       Fault, Fail, Answer, host
  <2> QED
    BY <2>1, <2>2, <2>3, <2>4, <2>5, <2>6
<1>12. CASE FailUnmount
  <2>1. HostOK'
    BY <1>12 DEF HostOK, FailUnmount, At, Goto, CleanupWorks, CleanupFails,
       Works, Fault
  <2>2. RunOK'
    <3>1. UNCHANGED <<op, answer, found, identity, delete, doomed, raced>> /\ pc' \in Steps
      BY <1>12 DEF FailUnmount, At, Goto, Steps
    <3>2. cleanup' \in BOOLEAN /\ dirty' \in BOOLEAN
      BY <1>12 DEF RunOK, FailUnmount, CleanupWorks, CleanupFails
    <3> QED
      BY <3>1, <3>2 DEF RunOK
  <2>3. session' \in Sessions
    BY <1>12, SessionFields DEF HostOK, FailUnmount, At, Goto, CleanupWorks,
       CleanupFails, Works, Fault
  <2>4. CountersOK'
    BY <1>12, Constants DEF CountersOK, FailUnmount, At, Goto, CleanupWorks,
       CleanupFails, Works, Fault
  <2>5. SessionTrue'
    BY <1>12, Constants DEF HostOK, Sessions, SessionTrue, PathTrue,
       NoSession, FailUnmount, At, Goto, CleanupWorks, CleanupFails, Works,
       Fault
  <2>6. PathTrue'
    BY <1>12 DEF HostOK, Sessions, PathTrue, NoSession, FailUnmount, At, Goto,
       CleanupWorks, CleanupFails, Works, Fault
  <2> QED
    BY <2>1, <2>2, <2>3, <2>4, <2>5, <2>6
<1>13. CASE FailDetach
  <2>1. HostOK'
    BY <1>13 DEF HostOK, FailDetach, At, Goto, CleanupWorks, CleanupFails,
       Works, Fault
  <2>2. RunOK'
    <3>1. UNCHANGED <<op, answer, found, identity, delete, doomed, raced>> /\ pc' \in Steps
      BY <1>13 DEF FailDetach, At, Goto, Steps
    <3>2. cleanup' \in BOOLEAN /\ dirty' \in BOOLEAN
      BY <1>13 DEF RunOK, FailDetach, CleanupWorks, CleanupFails
    <3> QED
      BY <3>1, <3>2 DEF RunOK
  <2>3. session' \in Sessions
    BY <1>13, SessionFields DEF HostOK, FailDetach, At, Goto, CleanupWorks,
       CleanupFails, Works, Fault
  <2>4. CountersOK'
    BY <1>13, Constants DEF CountersOK, FailDetach, At, Goto, CleanupWorks,
       CleanupFails, Works, Fault
  <2>5. SessionTrue'
    BY <1>13, Constants DEF HostOK, Sessions, SessionTrue, PathTrue,
       NoSession, FailDetach, At, Goto, CleanupWorks, CleanupFails, Works,
       Fault
  <2>6. PathTrue'
    BY <1>13 DEF HostOK, Sessions, PathTrue, NoSession, FailDetach, At, Goto,
       CleanupWorks, CleanupFails, Works, Fault
  <2> QED
    BY <2>1, <2>2, <2>3, <2>4, <2>5, <2>6
<1>14. CASE FailClose
  <2>1. HostOK'
    BY <1>14 DEF HostOK, FailClose, At, Goto, CleanupWorks, CleanupFails,
       Works, Fault
  <2>2. RunOK'
    <3>1. UNCHANGED <<op, answer, found, identity, delete, doomed, raced>> /\ pc' \in Steps
      BY <1>14 DEF FailClose, At, Goto, Steps
    <3>2. cleanup' \in BOOLEAN /\ dirty' \in BOOLEAN
      BY <1>14 DEF RunOK, FailClose, CleanupWorks, CleanupFails
    <3> QED
      BY <3>1, <3>2 DEF RunOK
  <2>3. session' \in Sessions
    BY <1>14, SessionFields DEF HostOK, FailClose, At, Goto, CleanupWorks,
       CleanupFails, Works, Fault
  <2>4. CountersOK'
    BY <1>14, Constants DEF CountersOK, FailClose, At, Goto, CleanupWorks,
       CleanupFails, Works, Fault
  <2>5. SessionTrue'
    BY <1>14, Constants DEF HostOK, Sessions, SessionTrue, PathTrue,
       NoSession, FailClose, At, Goto, CleanupWorks, CleanupFails, Works,
       Fault
  <2>6. PathTrue'
    BY <1>14 DEF HostOK, Sessions, PathTrue, NoSession, FailClose, At, Goto,
       CleanupWorks, CleanupFails, Works, Fault
  <2> QED
    BY <2>1, <2>2, <2>3, <2>4, <2>5, <2>6
<1>15. CASE FailChild
  <2>1. HostOK'
    BY <1>15 DEF HostOK, FailChild, ChildRemovable, At, Goto, CleanupWorks,
       CleanupFails, Works, Fault
  <2>2. RunOK'
    <3>1. UNCHANGED <<op, answer, found, identity, delete, doomed, raced>> /\ pc' \in Steps
      BY <1>15 DEF FailChild, At, Goto, Steps
    <3>2. cleanup' \in BOOLEAN /\ dirty' \in BOOLEAN
      BY <1>15 DEF RunOK, FailChild, ChildRemovable, CleanupWorks, CleanupFails
    <3> QED
      BY <3>1, <3>2 DEF RunOK
  <2>3. session' \in Sessions
    BY <1>15, SessionFields DEF HostOK, FailChild, ChildRemovable, At, Goto,
       CleanupWorks, CleanupFails, Works, Fault
  <2>4. CountersOK'
    BY <1>15, Constants DEF CountersOK, FailChild, ChildRemovable, At, Goto,
       CleanupWorks, CleanupFails, Works, Fault
  <2>5. SessionTrue'
    BY <1>15, Constants DEF HostOK, Sessions, SessionTrue, PathTrue,
       NoSession, FailChild, ChildRemovable, At, Goto, CleanupWorks,
       CleanupFails, Works, Fault
  <2>6. PathTrue'
    BY <1>15 DEF HostOK, Sessions, PathTrue, NoSession, FailChild,
       ChildRemovable, At, Goto, CleanupWorks, CleanupFails, Works, Fault
  <2> QED
    BY <2>1, <2>2, <2>3, <2>4, <2>5, <2>6
<1>16. CASE FailMount
  <2>1. HostOK'
    BY <1>16 DEF HostOK, FailMount, At, CleanupWorks, CleanupFails, Works,
       Fault, Failed, Answer
  <2>2. RunOK'
    BY <1>16 DEF RunOK, Steps, FailMount, At, CleanupWorks, CleanupFails,
       Works, Fault, Failed, Answer
  <2>3. session' \in Sessions
    BY <1>16, SessionFields DEF HostOK, FailMount, At, CleanupWorks,
       CleanupFails, Works, Fault, Failed, Answer
  <2>4. CountersOK'
    BY <1>16, Constants DEF CountersOK, FailMount, At, CleanupWorks,
       CleanupFails, Works, Fault, Failed, Answer
  <2>5. SessionTrue'
    BY <1>16, Constants DEF HostOK, Sessions, SessionTrue, PathTrue,
       NoSession, FailMount, At, CleanupWorks, CleanupFails, Works, Fault,
       Failed, Answer
  <2>6. PathTrue'
    BY <1>16 DEF HostOK, Sessions, PathTrue, NoSession, FailMount, At,
       CleanupWorks, CleanupFails, Works, Fault, Failed, Answer
  <2> QED
    BY <2>1, <2>2, <2>3, <2>4, <2>5, <2>6
<1>17. CASE ReleaseUnmount
  <2>1. HostOK'
    BY <1>17 DEF HostOK, ReleaseUnmount, Unmounts, At, On, Goto, Works, Fails,
       Fault, Stop, StopWith, Kept, Failed, Answer
  <2>2. RunOK'
    BY <1>17 DEF RunOK, Steps, ReleaseUnmount, Unmounts, At, On, Goto, Works,
       Fails, Fault, Stop, StopWith, Kept, Failed, Answer
  <2>3. session' \in Sessions
    BY <1>17, SessionFields DEF HostOK, ReleaseUnmount, Unmounts, At, On,
       Goto, Works, Fails, Fault, Stop, StopWith, Kept, Failed, Answer
  <2>4. CountersOK'
    BY <1>17, Constants DEF CountersOK, ReleaseUnmount, Unmounts, At, On,
       Goto, Works, Fails, Fault, Stop, StopWith, Kept, Failed, Answer
  <2>5. SessionTrue'
    BY <1>17, Constants DEF HostOK, Sessions, SessionTrue, PathTrue,
       NoSession, ReleaseUnmount, Unmounts, At, On, Goto, Works, Fails, Fault,
       Stop, StopWith, Kept, Failed, Answer
  <2>6. PathTrue'
    BY <1>17 DEF HostOK, Sessions, PathTrue, NoSession, ReleaseUnmount,
       Unmounts, At, On, Goto, Works, Fails, Fault, Stop, StopWith, Kept,
       Failed, Answer
  <2> QED
    BY <2>1, <2>2, <2>3, <2>4, <2>5, <2>6
<1>18. CASE ReleaseDetach
  <2>1. HostOK'
    BY <1>18 DEF HostOK, ReleaseDetach, Detached, At, On, Goto, Works, Fails,
       Fault, Stop, StopWith, Kept, Failed, Answer
  <2>2. RunOK'
    BY <1>18 DEF RunOK, Steps, ReleaseDetach, Detached, At, On, Goto, Works,
       Fails, Fault, Stop, StopWith, Kept, Failed, Answer
  <2>3. session' \in Sessions
    BY <1>18, SessionFields DEF HostOK, ReleaseDetach, Detached, At, On, Goto,
       Works, Fails, Fault, Stop, StopWith, Kept, Failed, Answer
  <2>4. CountersOK'
    BY <1>18, Constants DEF CountersOK, ReleaseDetach, Detached, At, On, Goto,
       Works, Fails, Fault, Stop, StopWith, Kept, Failed, Answer
  <2>5. SessionTrue'
    BY <1>18, Constants DEF HostOK, Sessions, SessionTrue, PathTrue,
       NoSession, ReleaseDetach, Detached, At, On, Goto, Works, Fails, Fault,
       Stop, StopWith, Kept, Failed, Answer
  <2>6. PathTrue'
    BY <1>18 DEF HostOK, Sessions, PathTrue, NoSession, ReleaseDetach,
       Detached, At, On, Goto, Works, Fails, Fault, Stop, StopWith, Kept,
       Failed, Answer
  <2> QED
    BY <2>1, <2>2, <2>3, <2>4, <2>5, <2>6
<1>19. CASE ReleaseClose
  <2>1. HostOK'
    BY <1>19 DEF HostOK, ReleaseClose, At, On, Goto, Works, Fault, StopWith,
       Kept, Failed, Answer, host
  <2>2. RunOK'
    BY <1>19 DEF RunOK, Steps, ReleaseClose, At, On, Goto, Works, Fault,
       StopWith, Kept, Failed, Answer, host
  <2>3. session' \in Sessions
    BY <1>19, SessionFields DEF HostOK, ReleaseClose, At, On, Goto, Works,
       Fault, StopWith, Kept, Failed, Answer, host
  <2>4. CountersOK'
    BY <1>19, Constants DEF CountersOK, ReleaseClose, At, On, Goto, Works,
       Fault, StopWith, Kept, Failed, Answer, host
  <2>5. SessionTrue'
    BY <1>19, Constants DEF HostOK, Sessions, SessionTrue, PathTrue,
       NoSession, ReleaseClose, At, On, Goto, Works, Fault, StopWith, Kept,
       Failed, Answer, host
  <2>6. PathTrue'
    BY <1>19 DEF HostOK, Sessions, PathTrue, NoSession, ReleaseClose, At, On,
       Goto, Works, Fault, StopWith, Kept, Failed, Answer, host
  <2> QED
    BY <2>1, <2>2, <2>3, <2>4, <2>5, <2>6
<1>20. CASE ReleaseWait
  <2>1. HostOK'
    BY <1>20 DEF HostOK, ReleaseWait, At, On, Goto, Works, Fails, Fault, Stop,
       StopWith, Kept, Failed, Answer, host
  <2>2. RunOK'
    BY <1>20 DEF RunOK, Steps, ReleaseWait, At, On, Goto, Works, Fails, Fault,
       Stop, StopWith, Kept, Failed, Answer, host
  <2>3. session' \in Sessions
    BY <1>20, SessionFields DEF HostOK, ReleaseWait, At, On, Goto, Works,
       Fails, Fault, Stop, StopWith, Kept, Failed, Answer, host
  <2>4. CountersOK'
    BY <1>20, Constants DEF CountersOK, ReleaseWait, At, On, Goto, Works,
       Fails, Fault, Stop, StopWith, Kept, Failed, Answer, host
  <2>5. SessionTrue'
    BY <1>20, Constants DEF HostOK, Sessions, SessionTrue, PathTrue,
       NoSession, ReleaseWait, At, On, Goto, Works, Fails, Fault, Stop,
       StopWith, Kept, Failed, Answer, host
  <2>6. PathTrue'
    BY <1>20 DEF HostOK, Sessions, PathTrue, NoSession, ReleaseWait, At, On,
       Goto, Works, Fails, Fault, Stop, StopWith, Kept, Failed, Answer, host
  <2> QED
    BY <2>1, <2>2, <2>3, <2>4, <2>5, <2>6
<1>21. CASE ReleaseChild
  <2>1. HostOK'
    BY <1>21 DEF HostOK, ReleaseChild, ChildDeleted, At, On, Goto, Works,
       Fault, Stop, StopWith, Kept, Failed, Answer
  <2>2. RunOK'
    BY <1>21 DEF RunOK, Steps, ReleaseChild, ChildDeleted, At, On, Goto,
       Works, Fault, Stop, StopWith, Kept, Failed, Answer
  <2>3. session' \in Sessions
    BY <1>21, SessionFields DEF HostOK, ReleaseChild, ChildDeleted, At, On,
       Goto, Works, Fault, Stop, StopWith, Kept, Failed, Answer
  <2>4. CountersOK'
    BY <1>21, Constants DEF CountersOK, ReleaseChild, ChildDeleted, At, On,
       Goto, Works, Fault, Stop, StopWith, Kept, Failed, Answer
  <2>5. SessionTrue'
    BY <1>21, Constants DEF HostOK, Sessions, SessionTrue, PathTrue,
       NoSession, ReleaseChild, ChildDeleted, At, On, Goto, Works, Fault,
       Stop, StopWith, Kept, Failed, Answer
  <2>6. PathTrue'
    BY <1>21 DEF HostOK, Sessions, PathTrue, NoSession, ReleaseChild,
       ChildDeleted, At, On, Goto, Works, Fault, Stop, StopWith, Kept, Failed,
       Answer
  <2> QED
    BY <2>1, <2>2, <2>3, <2>4, <2>5, <2>6
<1>22. CASE ReleaseMount
  <2>1. HostOK'
    BY <1>22 DEF HostOK, ReleaseMount, At, Works, Fails, Fault, Stop, StopWith, Kept,
       Failed, Answer
  <2>2. RunOK'
    BY <1>22 DEF RunOK, Steps, ReleaseMount, At, Works, Fails, Fault, Stop, StopWith,
       Kept, Failed, Answer
  <2>3. session' \in Sessions
    BY <1>22, SessionFields DEF HostOK, ReleaseMount, At, Works, Fails, Fault, Stop,
       StopWith, Kept, Failed, Answer
  <2>4. CountersOK'
    BY <1>22, Constants DEF CountersOK, ReleaseMount, At, Works, Fails, Fault, Stop,
       StopWith, Kept, Failed, Answer
  <2>5. SessionTrue'
    BY <1>22, Constants DEF HostOK, Sessions, SessionTrue, PathTrue,
       NoSession, ReleaseMount, At, Works, Fails, Fault, Stop, StopWith, Kept,
       Failed, Answer
  <2>6. PathTrue'
    BY <1>22 DEF HostOK, Sessions, PathTrue, NoSession, ReleaseMount, At,
       Works, Fails, Fault, Stop, StopWith, Kept, Failed, Answer
  <2> QED
    BY <2>1, <2>2, <2>3, <2>4, <2>5, <2>6
<1>23. CASE Vanish
  <2>1. HostOK'
    BY <1>23 DEF HostOK, Vanish, rest
  <2>2. RunOK'
    BY <1>23 DEF RunOK, Steps, Vanish, rest
  <2>3. session' \in Sessions
    BY <1>23, SessionFields DEF HostOK, Vanish, rest
  <2>4. CountersOK'
    BY <1>23, Constants DEF CountersOK, Vanish, rest
  <2>5. SessionTrue'
    BY <1>23, Constants DEF HostOK, Sessions, SessionTrue, PathTrue,
       NoSession, Vanish, rest
  <2>6. PathTrue'
    BY <1>23 DEF HostOK, Sessions, PathTrue, NoSession, Vanish, rest
  <2> QED
    BY <2>1, <2>2, <2>3, <2>4, <2>5, <2>6
<1>24. CASE \E n \in Numbers : OtherDisk(n)
  <2>1. HostOK'
    BY <1>24 DEF HostOK, OtherDisk, rest
  <2>2. RunOK'
    BY <1>24 DEF RunOK, Steps, OtherDisk, rest
  <2>3. session' \in Sessions
    BY <1>24, SessionFields DEF HostOK, OtherDisk, rest
  <2>4. CountersOK'
    BY <1>24, Constants DEF CountersOK, OtherDisk, rest
  <2>5. SessionTrue'
    BY <1>24, Constants DEF HostOK, Sessions, SessionTrue, PathTrue,
       NoSession, OtherDisk, rest
  <2>6. PathTrue'
    BY <1>24 DEF HostOK, Sessions, PathTrue, NoSession, OtherDisk, rest
  <2> QED
    BY <2>1, <2>2, <2>3, <2>4, <2>5, <2>6
<1>25. CASE Occupy
  <2>1. HostOK'
    BY <1>25 DEF HostOK, Occupy, rest
  <2>2. RunOK'
    BY <1>25 DEF RunOK, Steps, Occupy, rest
  <2>3. session' \in Sessions
    BY <1>25, SessionFields DEF HostOK, Occupy, rest
  <2>4. CountersOK'
    BY <1>25, Constants DEF CountersOK, Occupy, rest
  <2>5. SessionTrue'
    BY <1>25, Constants DEF HostOK, Sessions, SessionTrue, PathTrue,
       NoSession, Occupy, rest
  <2>6. PathTrue'
    BY <1>25 DEF HostOK, RunOK, Sessions, SessionTrue, PathTrue, NoSession, Occupy, rest
  <2> QED
    BY <2>1, <2>2, <2>3, <2>4, <2>5, <2>6
<1>26. CASE Crash
  <2>1. HostOK'
    BY <1>26 DEF HostOK, Crash
  <2>2. RunOK'
    BY <1>26 DEF RunOK, Steps, Crash
  <2>3. session' \in Sessions
    BY <1>26, SessionFields DEF HostOK, Crash
  <2>4. CountersOK'
    BY <1>26, Constants DEF CountersOK, Crash
  <2>5. SessionTrue'
    BY <1>26, Constants DEF HostOK, Sessions, SessionTrue, PathTrue,
       NoSession, Crash
  <2>6. PathTrue'
    BY <1>26 DEF HostOK, Sessions, PathTrue, NoSession, Crash
  <2> QED
    BY <2>1, <2>2, <2>3, <2>4, <2>5, <2>6
<1>27. CASE UNCHANGED vars
  <2>1. HostOK'
    BY <1>27 DEF HostOK, vars, host
  <2>2. RunOK'
    BY <1>27 DEF RunOK, Steps, vars, host
  <2>3. session' \in Sessions
    BY <1>27, SessionFields DEF HostOK, vars, host
  <2>4. CountersOK'
    BY <1>27, Constants DEF CountersOK, vars, host
  <2>5. SessionTrue'
    BY <1>27, Constants DEF HostOK, Sessions, SessionTrue, PathTrue,
       NoSession, vars, host
  <2>6. PathTrue'
    BY <1>27 DEF HostOK, Sessions, PathTrue, NoSession, vars, host
  <2> QED
    BY <2>1, <2>2, <2>3, <2>4, <2>5, <2>6
<1> QED
  BY <1>1, <1>2, <1>3, <1>4, <1>4a, <1>5, <1>6, <1>7, <1>8, <1>9, <1>10, <1>11,
     <1>12, <1>13, <1>14, <1>15, <1>16, <1>17, <1>18, <1>19, <1>20, <1>21,
     <1>22, <1>23, <1>24, <1>25, <1>26, <1>27 DEF Next, Run, Acquire, Closure,
     Release

(* IndInv holds in every reachable state. *)
THEOREM Inductive == Spec => []IndInv
<1> QED
  BY InitInd, StepInd, PTL DEF Spec

(* Whatever fails and whenever the broker dies, the variables have their    *)
(* types, for every set of disk numbers and every number of failing calls.  *)
THEOREM TypeCorrect == Spec => []TypeOK
<1>1. IndInv => TypeOK
  BY DEF IndInv
<1> QED
  BY <1>1, Inductive, PTL

(* No script ever mounts or unmounts a disk that is not the lease's: the    *)
(* number it is given is that of the attached disk, however many other      *)
(* disks come and go and wherever an earlier attempt stopped.               *)
THEOREM DiskIsOwn == Spec => []OwnDiskOnly
<1>1. IndInv => OwnDiskOnly
  <2> SUFFICES ASSUME IndInv PROVE OwnDiskOnly
    OBVIOUS
  <2>1. CASE pc = "mount"
    BY <2>1 DEF IndInv, SessionTrue, OwnDiskOnly
  <2>2. CASE pc = "f_unmount" /\ session.mounted
    BY <2>2 DEF IndInv, SessionTrue, OwnDiskOnly
  <2>3. CASE pc = "r_unmount" /\ Unmounts
    BY <2>3 DEF IndInv, SessionTrue, OwnDiskOnly, Unmounts
  <2> QED
    BY <2>1, <2>2, <2>3 DEF OwnDiskOnly
<1> QED
  BY <1>1, Inductive, PTL

(* A path that somebody else occupies is not the one the session mounted or *)
(* created, or it came there in its place; otherwise no step of the broker  *)
(* changes it.                                                              *)
LEMMA StepKeepsForeign ==
    IndInv /\ [Next]_vars => [Run /\ mnt = "foreign" /\ ~raced => mnt' = "foreign"]_vars
<1> SUFFICES ASSUME IndInv, Run, mnt = "foreign", ~raced PROVE mnt' = "foreign"
  OBVIOUS
<1>1. /\ ~session.mountCreated /\ pc # "clear"
      /\ pc = "f_unmount" => ~session.mounted
  BY DEF IndInv, PathTrue
<1>2. CASE Acquire
  BY <1>1, <1>2, SMT DEF Acquire, At, PrepareStaleMount, ClearStaleMount, MountDirectory,
     Create, Open, Attach, Resolve, Mount, Hold, host
<1>3. CASE Closure
  BY <1>1, <1>3 DEF Closure, At, FailUnmount, FailDetach, FailClose, FailChild, FailMount
<1>4. CASE Release
  BY <1>1, <1>4 DEF Release, ReleaseUnmount, Unmounts, ReleaseDetach, ReleaseClose,
     ReleaseWait, ReleaseChild, ReleaseMount, host
<1> QED
  BY <1>2, <1>3, <1>4 DEF Run

(* What somebody else has at the mount path is never taken away by the      *)
(* broker, unless it replaced there what the broker had made, or what       *)
(* PrepareDetachedStaleMount had just checked.                              *)
THEOREM ForeignStays == Spec => ForeignMountKept
<1> QED
  BY Inductive, StepKeepsForeign, PTL DEF Spec, ForeignMountKept

(* The broker starts without an image. *)
LEMMA InitRef == Init => RefInv
<1> SUFFICES ASSUME Init PROVE RefInv
  OBVIOUS
<1>1. AttachKnown
  BY DEF Init, AttachKnown, Releasing, Holding, NoSession
<1>2. ChildTrue
  BY DEF Init, ChildTrue, Releasing, Holding
<1>3. AnswerTrue
  BY DEF Init, AnswerTrue, Releasing, Holding
<1> QED
  BY <1>1, <1>2, <1>3, InitInd DEF RefInv

(* Every step keeps what the contract of the disk rests on. *)
LEMMA StepRef == RefInv /\ [Next]_vars => RefInv'
<1> SUFFICES ASSUME RefInv, [Next]_vars PROVE RefInv'
  OBVIOUS
<1>0. IndInv /\ IndInv'
  BY StepInd DEF RefInv
<1> USE DEF RefInv, IndInv, TypeOK, Releasing, Holding
<1>1. CASE AcquireBegin
  <2>1. AttachKnown'
    BY <1>1 DEF HostOK, RunOK, Sessions, NoSession, SessionTrue, AttachKnown,
       ChildTrue, AcquireBegin, Begin, host
  <2>2. ChildTrue'
    BY <1>1 DEF HostOK, RunOK, Sessions, NoSession, SessionTrue, AttachKnown,
       ChildTrue, AcquireBegin, Begin, host
  <2>3. AnswerTrue'
    BY <1>1 DEF HostOK, RunOK, Sessions, NoSession, SessionTrue, PathTrue,
       AnswerTrue, AcquireBegin, Begin, host
  <2> QED
    BY <1>0, <2>1, <2>2, <2>3
<1>2. CASE AttachBegin
  <2>1. AttachKnown'
    BY <1>2 DEF HostOK, RunOK, Sessions, NoSession, SessionTrue, AttachKnown,
       ChildTrue, AttachBegin, Begin, host
  <2>2. ChildTrue'
    BY <1>2 DEF HostOK, RunOK, Sessions, NoSession, SessionTrue, AttachKnown,
       ChildTrue, AttachBegin, Begin, host
  <2>3. AnswerTrue'
    BY <1>2 DEF HostOK, RunOK, Sessions, NoSession, SessionTrue, PathTrue,
       AnswerTrue, AttachBegin, Begin, host
  <2> QED
    BY <1>0, <2>1, <2>2, <2>3
<1>3. CASE \E d \in BOOLEAN : ReleaseBegin(d)
  <2>1. AttachKnown'
    BY <1>3 DEF HostOK, RunOK, Sessions, NoSession, SessionTrue, AttachKnown,
       ChildTrue, ReleaseBegin, Begin, host
  <2>2. ChildTrue'
    BY <1>3 DEF HostOK, RunOK, Sessions, NoSession, SessionTrue, AttachKnown,
       ChildTrue, ReleaseBegin, Begin, host
  <2>3. AnswerTrue'
    BY <1>3 DEF HostOK, RunOK, Sessions, NoSession, SessionTrue, PathTrue,
       AnswerTrue, ReleaseBegin, Begin, host
  <2> QED
    BY <1>0, <2>1, <2>2, <2>3
<1>4. CASE PrepareStaleMount
  <2>1. AttachKnown'
    BY <1>4 DEF HostOK, RunOK, Sessions, NoSession, SessionTrue, AttachKnown,
       ChildTrue, PrepareStaleMount, At, On, Goto, Works, Fails, Fault,
       Refuse, Failed, Answer, OwnStalePoint, host
  <2>2. ChildTrue'
    BY <1>4 DEF HostOK, RunOK, Sessions, NoSession, SessionTrue, AttachKnown,
       ChildTrue, PrepareStaleMount, At, On, Goto, Works, Fails, Fault,
       Refuse, Failed, Answer, OwnStalePoint, host
  <2>3. AnswerTrue'
    BY <1>4 DEF HostOK, RunOK, Sessions, NoSession, SessionTrue, PathTrue,
       AnswerTrue, PrepareStaleMount, At, On, Goto, Works, Fails, Fault,
       Refuse, Failed, Answer, OwnStalePoint, host
  <2> QED
    BY <1>0, <2>1, <2>2, <2>3
<1>4a. CASE ClearStaleMount
  <2>1. AttachKnown'
    BY <1>4a DEF HostOK, RunOK, Sessions, NoSession, SessionTrue, AttachKnown,
       ChildTrue, ClearStaleMount, At, On, Goto, Works, Fails, Fault,
       Refuse, Failed, Answer
  <2>2. ChildTrue'
    BY <1>4a DEF HostOK, RunOK, Sessions, NoSession, SessionTrue, AttachKnown,
       ChildTrue, ClearStaleMount, At, On, Goto, Works, Fails, Fault,
       Refuse, Failed, Answer
  <2>3. AnswerTrue'
    BY <1>4a DEF HostOK, RunOK, Sessions, NoSession, SessionTrue, PathTrue,
       AnswerTrue, ClearStaleMount, At, On, Goto, Works, Fails, Fault,
       Refuse, Failed, Answer
  <2> QED
    BY <1>0, <2>1, <2>2, <2>3
<1>5. CASE MountDirectory
  <2>1. AttachKnown'
    BY <1>5 DEF HostOK, RunOK, Sessions, NoSession, SessionTrue, AttachKnown,
       ChildTrue, MountDirectory, At, On, Goto, Works, Fault, Refuse, Failed,
       Answer
  <2>2. ChildTrue'
    BY <1>5 DEF HostOK, RunOK, Sessions, NoSession, SessionTrue, AttachKnown,
       ChildTrue, MountDirectory, At, On, Goto, Works, Fault, Refuse, Failed,
       Answer
  <2>3. AnswerTrue'
    BY <1>5 DEF HostOK, RunOK, Sessions, NoSession, SessionTrue, PathTrue,
       AnswerTrue, MountDirectory, At, On, Goto, Works, Fault, Refuse, Failed,
       Answer
  <2> QED
    BY <1>0, <2>1, <2>2, <2>3
<1>6. CASE Create
  <2>1. AttachKnown'
    BY <1>6 DEF HostOK, RunOK, Sessions, NoSession, SessionTrue, AttachKnown,
       ChildTrue, Create, Created, At, On, Goto, Works, Fault, Fail
  <2>2. ChildTrue'
    BY <1>6 DEF HostOK, RunOK, Sessions, NoSession, SessionTrue, AttachKnown,
       ChildTrue, Create, Created, At, On, Goto, Works, Fault, Fail
  <2>3. AnswerTrue'
    BY <1>6 DEF HostOK, RunOK, Sessions, NoSession, SessionTrue, PathTrue,
       AnswerTrue, Create, Created, At, On, Goto, Works, Fault, Fail
  <2> QED
    BY <1>0, <2>1, <2>2, <2>3
<1>7. CASE Open
  <2>1. AttachKnown'
    BY <1>7 DEF HostOK, RunOK, Sessions, NoSession, SessionTrue, AttachKnown,
       ChildTrue, Open, At, On, Goto, Works, Fault, Fail, Refuse, Failed,
       Answer, host
  <2>2. ChildTrue'
    BY <1>7 DEF HostOK, RunOK, Sessions, NoSession, SessionTrue, AttachKnown,
       ChildTrue, Open, At, On, Goto, Works, Fault, Fail, Refuse, Failed,
       Answer, host
  <2>3. AnswerTrue'
    BY <1>7 DEF HostOK, RunOK, Sessions, NoSession, SessionTrue, PathTrue,
       AnswerTrue, Open, At, On, Goto, Works, Fault, Fail, Refuse, Failed,
       Answer, host
  <2> QED
    BY <1>0, <2>1, <2>2, <2>3
<1>8. CASE Attach
  <2>1. AttachKnown'
    BY <1>8 DEF HostOK, RunOK, Sessions, NoSession, SessionTrue, AttachKnown,
       ChildTrue, Attach, At, On, Goto, Works, Fails, Fault, Fail
  <2>2. ChildTrue'
    BY <1>8 DEF HostOK, RunOK, Sessions, NoSession, SessionTrue, AttachKnown,
       ChildTrue, Attach, At, On, Goto, Works, Fails, Fault, Fail
  <2>3. AnswerTrue'
    BY <1>8 DEF HostOK, RunOK, Sessions, NoSession, SessionTrue, PathTrue,
       AnswerTrue, Attach, At, On, Goto, Works, Fails, Fault, Fail
  <2> QED
    BY <1>0, <2>1, <2>2, <2>3
<1>9. CASE Resolve
  <2>1. AttachKnown'
    BY <1>9 DEF HostOK, RunOK, Sessions, NoSession, SessionTrue, AttachKnown,
       ChildTrue, Resolve, At, On, Goto, Works, Fault, Fail, host
  <2>2. ChildTrue'
    BY <1>9 DEF HostOK, RunOK, Sessions, NoSession, SessionTrue, AttachKnown,
       ChildTrue, Resolve, At, On, Goto, Works, Fault, Fail, host
  <2>3. AnswerTrue'
    BY <1>9 DEF HostOK, RunOK, Sessions, NoSession, SessionTrue, PathTrue,
       AnswerTrue, Resolve, At, On, Goto, Works, Fault, Fail, host
  <2> QED
    BY <1>0, <2>1, <2>2, <2>3
<1>10. CASE Mount
  <2>1. AttachKnown'
    BY <1>10 DEF HostOK, RunOK, Sessions, NoSession, SessionTrue, AttachKnown,
       ChildTrue, Mount, At, On, Goto, Works, Fails, Fault, Fail
  <2>2. ChildTrue'
    BY <1>10 DEF HostOK, RunOK, Sessions, NoSession, SessionTrue, AttachKnown,
       ChildTrue, Mount, At, On, Goto, Works, Fails, Fault, Fail
  <2>3. AnswerTrue'
    BY <1>10 DEF HostOK, RunOK, Sessions, NoSession, SessionTrue, PathTrue,
       AnswerTrue, Mount, At, On, Goto, Works, Fails, Fault, Fail
  <2> QED
    BY <1>0, <2>1, <2>2, <2>3
<1>11. CASE Hold
  <2>1. AttachKnown'
    BY <1>11 DEF HostOK, RunOK, Sessions, NoSession, SessionTrue, AttachKnown,
       ChildTrue, Hold, At, Goto, Works, Fault, Fail, Answer, host
  <2>2. ChildTrue'
    BY <1>11 DEF HostOK, RunOK, Sessions, NoSession, SessionTrue, AttachKnown,
       ChildTrue, Hold, At, Goto, Works, Fault, Fail, Answer, host
  <2>3. AnswerTrue'
    BY <1>11 DEF HostOK, RunOK, Sessions, NoSession, SessionTrue, PathTrue,
       AnswerTrue, Hold, At, Goto, Works, Fault, Fail, Answer, host
  <2> QED
    BY <1>0, <2>1, <2>2, <2>3
<1>12. CASE FailUnmount
  <2>1. AttachKnown'
    BY <1>12 DEF HostOK, RunOK, Sessions, NoSession, SessionTrue, AttachKnown,
       ChildTrue, FailUnmount, At, Goto, CleanupWorks, CleanupFails, Works,
       Fault
  <2>2. ChildTrue'
    BY <1>12 DEF HostOK, RunOK, Sessions, NoSession, SessionTrue, AttachKnown,
       ChildTrue, FailUnmount, At, Goto, CleanupWorks, CleanupFails, Works,
       Fault
  <2>3. AnswerTrue'
    BY <1>12 DEF HostOK, RunOK, Sessions, NoSession, SessionTrue, PathTrue,
       AnswerTrue, FailUnmount, At, Goto, CleanupWorks, CleanupFails, Works,
       Fault
  <2> QED
    BY <1>0, <2>1, <2>2, <2>3
<1>13. CASE FailDetach
  <2>1. AttachKnown'
    BY <1>13 DEF HostOK, RunOK, Sessions, NoSession, SessionTrue, AttachKnown,
       ChildTrue, FailDetach, At, Goto, CleanupWorks, CleanupFails, Works,
       Fault
  <2>2. ChildTrue'
    BY <1>13 DEF HostOK, RunOK, Sessions, NoSession, SessionTrue, AttachKnown,
       ChildTrue, FailDetach, At, Goto, CleanupWorks, CleanupFails, Works,
       Fault
  <2>3. AnswerTrue'
    BY <1>13 DEF HostOK, RunOK, Sessions, NoSession, SessionTrue, PathTrue,
       AnswerTrue, FailDetach, At, Goto, CleanupWorks, CleanupFails, Works,
       Fault
  <2> QED
    BY <1>0, <2>1, <2>2, <2>3
<1>14. CASE FailClose
  <2>1. AttachKnown'
    BY <1>14 DEF HostOK, RunOK, Sessions, NoSession, SessionTrue, AttachKnown,
       ChildTrue, FailClose, At, Goto, CleanupWorks, CleanupFails, Works,
       Fault
  <2>2. ChildTrue'
    BY <1>14 DEF HostOK, RunOK, Sessions, NoSession, SessionTrue, AttachKnown,
       ChildTrue, FailClose, At, Goto, CleanupWorks, CleanupFails, Works,
       Fault
  <2>3. AnswerTrue'
    BY <1>14 DEF HostOK, RunOK, Sessions, NoSession, SessionTrue, PathTrue,
       AnswerTrue, FailClose, At, Goto, CleanupWorks, CleanupFails, Works,
       Fault
  <2> QED
    BY <1>0, <2>1, <2>2, <2>3
<1>15. CASE FailChild
  <2>1. AttachKnown'
    BY <1>15 DEF HostOK, RunOK, Sessions, NoSession, SessionTrue, AttachKnown,
       ChildTrue, FailChild, ChildRemovable, At, Goto, CleanupWorks,
       CleanupFails, Works, Fault
  <2>2. ChildTrue'
    BY <1>15 DEF HostOK, RunOK, Sessions, NoSession, SessionTrue, AttachKnown,
       ChildTrue, FailChild, ChildRemovable, At, Goto, CleanupWorks,
       CleanupFails, Works, Fault
  <2>3. AnswerTrue'
    BY <1>15 DEF HostOK, RunOK, Sessions, NoSession, SessionTrue, PathTrue,
       AnswerTrue, FailChild, ChildRemovable, At, Goto, CleanupWorks,
       CleanupFails, Works, Fault
  <2> QED
    BY <1>0, <2>1, <2>2, <2>3
<1>16. CASE FailMount
  <2>1. AttachKnown'
    BY <1>16 DEF HostOK, RunOK, Sessions, NoSession, SessionTrue, AttachKnown,
       ChildTrue, FailMount, At, CleanupWorks, CleanupFails, Works, Fault,
       Failed, Answer
  <2>2. ChildTrue'
    BY <1>16 DEF HostOK, RunOK, Sessions, NoSession, SessionTrue, AttachKnown,
       ChildTrue, FailMount, At, CleanupWorks, CleanupFails, Works, Fault,
       Failed, Answer
  <2>3. AnswerTrue'
    BY <1>16 DEF HostOK, RunOK, Sessions, NoSession, SessionTrue, PathTrue,
       AnswerTrue, FailMount, At, CleanupWorks, CleanupFails, Works, Fault,
       Failed, Answer
  <2> QED
    BY <1>0, <2>1, <2>2, <2>3
<1>17. CASE ReleaseUnmount
  <2>1. AttachKnown'
    BY <1>17 DEF HostOK, RunOK, Sessions, NoSession, SessionTrue, AttachKnown,
       ChildTrue, ReleaseUnmount, Unmounts, At, On, Goto, Works, Fails, Fault,
       Stop, StopWith, Kept, Failed, Answer
  <2>2. ChildTrue'
    BY <1>17 DEF HostOK, RunOK, Sessions, NoSession, SessionTrue, AttachKnown,
       ChildTrue, ReleaseUnmount, Unmounts, At, On, Goto, Works, Fails, Fault,
       Stop, StopWith, Kept, Failed, Answer
  <2>3. AnswerTrue'
    BY <1>17 DEF HostOK, RunOK, Sessions, NoSession, SessionTrue, PathTrue,
       AnswerTrue, ReleaseUnmount, Unmounts, At, On, Goto, Works, Fails,
       Fault, Stop, StopWith, Kept, Failed, Answer
  <2> QED
    BY <1>0, <2>1, <2>2, <2>3
<1>18. CASE ReleaseDetach
  <2>1. AttachKnown'
    BY <1>18 DEF HostOK, RunOK, Sessions, NoSession, SessionTrue, AttachKnown,
       ChildTrue, ReleaseDetach, Detached, At, On, Goto, Works, Fails, Fault,
       Stop, StopWith, Kept, Failed, Answer
  <2>2. ChildTrue'
    BY <1>18 DEF HostOK, RunOK, Sessions, NoSession, SessionTrue, AttachKnown,
       ChildTrue, ReleaseDetach, Detached, At, On, Goto, Works, Fails, Fault,
       Stop, StopWith, Kept, Failed, Answer
  <2>3. AnswerTrue'
    BY <1>18 DEF HostOK, RunOK, Sessions, NoSession, SessionTrue, PathTrue,
       AnswerTrue, ReleaseDetach, Detached, At, On, Goto, Works, Fails, Fault,
       Stop, StopWith, Kept, Failed, Answer
  <2> QED
    BY <1>0, <2>1, <2>2, <2>3
<1>19. CASE ReleaseClose
  <2>1. AttachKnown'
    BY <1>19 DEF HostOK, RunOK, Sessions, NoSession, SessionTrue, AttachKnown,
       ChildTrue, ReleaseClose, At, On, Goto, Works, Fault, StopWith, Kept,
       Failed, Answer, host
  <2>2. ChildTrue'
    BY <1>19 DEF HostOK, RunOK, Sessions, NoSession, SessionTrue, AttachKnown,
       ChildTrue, ReleaseClose, At, On, Goto, Works, Fault, StopWith, Kept,
       Failed, Answer, host
  <2>3. AnswerTrue'
    BY <1>19 DEF HostOK, RunOK, Sessions, NoSession, SessionTrue, PathTrue,
       AnswerTrue, ReleaseClose, At, On, Goto, Works, Fault, StopWith, Kept,
       Failed, Answer, host
  <2> QED
    BY <1>0, <2>1, <2>2, <2>3
<1>20. CASE ReleaseWait
  <2>1. AttachKnown'
    BY <1>20 DEF HostOK, RunOK, Sessions, NoSession, SessionTrue, AttachKnown,
       ChildTrue, ReleaseWait, At, On, Goto, Works, Fails, Fault, Stop,
       StopWith, Kept, Failed, Answer, host
  <2>2. ChildTrue'
    BY <1>20 DEF HostOK, RunOK, Sessions, NoSession, SessionTrue, AttachKnown,
       ChildTrue, ReleaseWait, At, On, Goto, Works, Fails, Fault, Stop,
       StopWith, Kept, Failed, Answer, host
  <2>3. AnswerTrue'
    BY <1>20 DEF HostOK, RunOK, Sessions, NoSession, SessionTrue, PathTrue,
       AnswerTrue, ReleaseWait, At, On, Goto, Works, Fails, Fault, Stop,
       StopWith, Kept, Failed, Answer, host
  <2> QED
    BY <1>0, <2>1, <2>2, <2>3
<1>21. CASE ReleaseChild
  <2>1. AttachKnown'
    BY <1>21 DEF HostOK, RunOK, Sessions, NoSession, SessionTrue, AttachKnown,
       ChildTrue, ReleaseChild, ChildDeleted, At, On, Goto, Works, Fault,
       Stop, StopWith, Kept, Failed, Answer
  <2>2. ChildTrue'
    BY <1>21 DEF HostOK, RunOK, Sessions, NoSession, SessionTrue, AttachKnown,
       ChildTrue, ReleaseChild, ChildDeleted, At, On, Goto, Works, Fault,
       Stop, StopWith, Kept, Failed, Answer
  <2>3. AnswerTrue'
    BY <1>21 DEF HostOK, RunOK, Sessions, NoSession, SessionTrue, PathTrue,
       AnswerTrue, ReleaseChild, ChildDeleted, At, On, Goto, Works, Fault,
       Stop, StopWith, Kept, Failed, Answer
  <2> QED
    BY <1>0, <2>1, <2>2, <2>3
<1>22. CASE ReleaseMount
  <2>1. AttachKnown'
    BY <1>22 DEF HostOK, RunOK, Sessions, NoSession, SessionTrue, AttachKnown,
       ChildTrue, ReleaseMount, At, Works, Fails, Fault, Stop, StopWith, Kept,
       Failed, Answer
  <2>2. ChildTrue'
    BY <1>22 DEF HostOK, RunOK, Sessions, NoSession, SessionTrue, AttachKnown,
       ChildTrue, ReleaseMount, At, Works, Fails, Fault, Stop, StopWith, Kept,
       Failed, Answer
  <2>3. AnswerTrue'
    BY <1>22 DEF HostOK, RunOK, Sessions, NoSession, SessionTrue, PathTrue,
       AnswerTrue, ReleaseMount, At, Works, Fails, Fault, Stop, StopWith, Kept,
       Failed, Answer
  <2> QED
    BY <1>0, <2>1, <2>2, <2>3
<1>23. CASE Vanish
  <2>1. AttachKnown'
    BY <1>23 DEF HostOK, RunOK, Sessions, NoSession, SessionTrue, AttachKnown,
       ChildTrue, Vanish, rest
  <2>2. ChildTrue'
    BY <1>23 DEF HostOK, RunOK, Sessions, NoSession, SessionTrue, AttachKnown,
       ChildTrue, Vanish, rest
  <2>3. AnswerTrue'
    BY <1>23 DEF HostOK, RunOK, Sessions, NoSession, SessionTrue, PathTrue,
       AnswerTrue, Vanish, rest
  <2> QED
    BY <1>0, <2>1, <2>2, <2>3
<1>24. CASE \E n \in Numbers : OtherDisk(n)
  <2>1. AttachKnown'
    BY <1>24 DEF HostOK, RunOK, Sessions, NoSession, SessionTrue, AttachKnown,
       ChildTrue, OtherDisk, rest
  <2>2. ChildTrue'
    BY <1>24 DEF HostOK, RunOK, Sessions, NoSession, SessionTrue, AttachKnown,
       ChildTrue, OtherDisk, rest
  <2>3. AnswerTrue'
    BY <1>24 DEF HostOK, RunOK, Sessions, NoSession, SessionTrue, PathTrue,
       AnswerTrue, OtherDisk, rest
  <2> QED
    BY <1>0, <2>1, <2>2, <2>3
<1>25. CASE Occupy
  <2>1. AttachKnown'
    BY <1>25 DEF HostOK, RunOK, Sessions, NoSession, SessionTrue, AttachKnown,
       ChildTrue, Occupy, rest
  <2>2. ChildTrue'
    BY <1>25 DEF HostOK, RunOK, Sessions, NoSession, SessionTrue, AttachKnown,
       ChildTrue, Occupy, rest
  <2>3. AnswerTrue'
    BY <1>25 DEF HostOK, RunOK, Sessions, NoSession, SessionTrue, PathTrue,
       AnswerTrue, Occupy, rest
  <2> QED
    BY <1>0, <2>1, <2>2, <2>3
<1>26. CASE Crash
  <2>1. AttachKnown'
    BY <1>26 DEF HostOK, RunOK, Sessions, NoSession, SessionTrue, AttachKnown,
       ChildTrue, Crash
  <2>2. ChildTrue'
    BY <1>26 DEF HostOK, RunOK, Sessions, NoSession, SessionTrue, AttachKnown,
       ChildTrue, Crash
  <2>3. AnswerTrue'
    BY <1>26 DEF HostOK, RunOK, Sessions, NoSession, SessionTrue, PathTrue,
       AnswerTrue, Crash
  <2> QED
    BY <1>0, <2>1, <2>2, <2>3
<1>27. CASE UNCHANGED vars
  <2>1. AttachKnown'
    BY <1>27 DEF HostOK, RunOK, Sessions, NoSession, SessionTrue, AttachKnown,
       ChildTrue, vars, host
  <2>2. ChildTrue'
    BY <1>27 DEF HostOK, RunOK, Sessions, NoSession, SessionTrue, AttachKnown,
       ChildTrue, vars, host
  <2>3. AnswerTrue'
    BY <1>27 DEF HostOK, RunOK, Sessions, NoSession, SessionTrue, PathTrue,
       AnswerTrue, vars, host
  <2> QED
    BY <1>0, <2>1, <2>2, <2>3
<1> QED
  BY <1>1, <1>2, <1>3, <1>4, <1>4a, <1>5, <1>6, <1>7, <1>8, <1>9, <1>10, <1>11,
     <1>12, <1>13, <1>14, <1>15, <1>16, <1>17, <1>18, <1>19, <1>20, <1>21,
     <1>22, <1>23, <1>24, <1>25, <1>26, <1>27 DEF Next, Run, Acquire, Closure,
     Release

(* Every step of the broker is a step of the contract, or none. *)
LEMMA StepNative == RefInv /\ [Next]_vars => [Contract!Next]_(Contract!vars)
<1> SUFFICES ASSUME RefInv, [Next]_vars
             PROVE Contract!Next \/ UNCHANGED Contract!vars
  OBVIOUS
<1> USE DEF RefInv, IndInv, TypeOK, Contract!Next, Contract!vars
<1>1. CASE AcquireBegin
  BY <1>1 DEF HostOK, RunOK, Sessions, SessionTrue, PathTrue, AttachKnown,
     ChildTrue, AnswerTrue, Releasing, Holding, Contract!Request, Contract!Condemn,
     AcquireBegin, Begin, host
<1>2. CASE AttachBegin
  BY <1>2 DEF HostOK, RunOK, Sessions, SessionTrue, PathTrue, AttachKnown,
     ChildTrue, AnswerTrue, Releasing, Holding, Contract!Request, Contract!Condemn, AttachBegin,
     Begin, host
<1>3. CASE \E d \in BOOLEAN : ReleaseBegin(d)
  BY <1>3 DEF HostOK, RunOK, Sessions, SessionTrue, PathTrue, AttachKnown,
     ChildTrue, AnswerTrue, Releasing, Holding, Contract!Request, Contract!Condemn,
     ReleaseBegin, Begin, host
<1>4. CASE PrepareStaleMount
  BY <1>4 DEF HostOK, RunOK, Sessions, SessionTrue, PathTrue, AttachKnown,
     ChildTrue, AnswerTrue, Releasing, Holding, Contract!Work,
     Contract!Unmount, Contract!Reply, Contract!True, PrepareStaleMount, At,
     On, Goto, Works, Fails, Fault, Refuse, Failed, Answer, OwnStalePoint, host
<1>4a. CASE ClearStaleMount
  BY <1>4a DEF HostOK, RunOK, Sessions, SessionTrue, PathTrue, AttachKnown,
     ChildTrue, AnswerTrue, Releasing, Holding, Contract!Work,
     Contract!Unmount, Contract!Reply, Contract!True, ClearStaleMount, At,
     On, Goto, Works, Fails, Fault, Refuse, Failed, Answer
<1>5. CASE MountDirectory
  BY <1>5 DEF HostOK, RunOK, Sessions, SessionTrue, PathTrue, AttachKnown,
     ChildTrue, AnswerTrue, Releasing, Holding, Contract!Reply, Contract!True,
     MountDirectory, At, On, Goto, Works, Fault, Refuse, Failed, Answer
<1>6. CASE Create
  BY <1>6 DEF HostOK, RunOK, Sessions, SessionTrue, PathTrue, AttachKnown,
     ChildTrue, AnswerTrue, Releasing, Holding, Contract!Work,
     Contract!Create, Contract!Reply, Contract!True, Create, Created, At, On,
     Goto, Works, Fault, Fail
<1>7. CASE Open
  BY <1>7 DEF HostOK, RunOK, Sessions, SessionTrue, PathTrue, AttachKnown,
     ChildTrue, AnswerTrue, Releasing, Holding, Contract!Reply, Contract!True,
     Open, At, On, Goto, Works, Fault, Fail, Refuse, Failed, Answer, host
<1>8. CASE Attach
  BY <1>8 DEF HostOK, RunOK, Sessions, SessionTrue, PathTrue, AttachKnown,
     ChildTrue, AnswerTrue, Releasing, Holding, Contract!Work,
     Contract!Attach, Contract!Reply, Contract!True, Attach, At, On, Goto,
     Works, Fails, Fault, Fail
<1>9. CASE Resolve
  BY <1>9 DEF HostOK, RunOK, Sessions, SessionTrue, PathTrue, AttachKnown,
     ChildTrue, AnswerTrue, Releasing, Holding, Resolve, At, On, Goto, Works,
     Fault, Fail, host
<1>10. CASE Mount
  BY <1>10 DEF HostOK, RunOK, Sessions, SessionTrue, PathTrue, AttachKnown,
     ChildTrue, AnswerTrue, Releasing, Holding, Contract!Work, Contract!Mount,
     Contract!Reply, Contract!True, Mount, At, On, Goto, Works, Fails, Fault,
     Fail
<1>11. CASE Hold
  BY <1>11 DEF HostOK, RunOK, Sessions, SessionTrue, PathTrue, AttachKnown,
     ChildTrue, AnswerTrue, Releasing, Holding, Contract!Work, Contract!Reply,
     Contract!True, Contract!GoOn, Contract!Condemn, Hold, At, Goto, Works, Fault, Fail, Answer, host
<1>12. CASE FailUnmount
  <2>1. answer = "none" /\ UNCHANGED <<file, attached, answer, doomed>>
    BY <1>12 DEF FailUnmount, At, Goto, AnswerTrue
  <2>2. mnt' = mnt \/ mnt' = "dir"
    BY <1>12 DEF FailUnmount, PathTrue
  <2>3. CASE mnt = "point" /\ mnt' = "dir"
    BY <2>1, <2>3 DEF Contract!Work, Contract!Unmount
  <2>4. CASE mnt' = mnt \/ mnt # "point"
    BY <2>1, <2>2, <2>4
  <2> QED
    BY <2>2, <2>3, <2>4
<1>13. CASE FailDetach
  BY <1>13 DEF HostOK, RunOK, Sessions, SessionTrue, PathTrue, AttachKnown,
     ChildTrue, AnswerTrue, Releasing, Holding, Contract!Work,
     Contract!Detach, Contract!Reply, Contract!True, FailDetach, At, Goto,
     CleanupWorks, CleanupFails, Works, Fault
<1>14. CASE FailClose
  BY <1>14 DEF HostOK, RunOK, Sessions, SessionTrue, PathTrue, AttachKnown,
     ChildTrue, AnswerTrue, Releasing, Holding, Contract!Work,
     Contract!Detach, Contract!Reply, Contract!True, FailClose, At, Goto,
     CleanupWorks, CleanupFails, Works, Fault
<1>15. CASE FailChild
  BY <1>15 DEF HostOK, RunOK, Sessions, SessionTrue, PathTrue, AttachKnown,
     ChildTrue, AnswerTrue, Releasing, Holding, Contract!Work,
     Contract!Delete, Contract!Reply, Contract!True, FailChild,
     ChildRemovable, At, Goto, CleanupWorks, CleanupFails, Works, Fault
<1>16. CASE FailMount
  BY <1>16 DEF HostOK, RunOK, Sessions, SessionTrue, PathTrue, AttachKnown,
     ChildTrue, AnswerTrue, Releasing, Holding, Contract!Work,
     Contract!Unmount, Contract!Reply, Contract!True, FailMount, At,
     CleanupWorks, CleanupFails, Works, Fault, Failed, Answer
<1>17. CASE ReleaseUnmount
  BY <1>17 DEF HostOK, RunOK, Sessions, SessionTrue, PathTrue, AttachKnown,
     ChildTrue, AnswerTrue, Releasing, Holding, Contract!Work,
     Contract!Unmount, Contract!Reply, Contract!True, ReleaseUnmount,
     Unmounts, At, On, Goto, Works, Fails, Fault, Stop, StopWith, Kept,
     Failed, Answer
<1>18. CASE ReleaseDetach
  BY <1>18 DEF HostOK, RunOK, Sessions, SessionTrue, PathTrue, AttachKnown,
     ChildTrue, AnswerTrue, Releasing, Holding, Contract!Work,
     Contract!Detach, Contract!Reply, Contract!True, ReleaseDetach, Detached,
     At, On, Goto, Works, Fails, Fault, Stop, StopWith, Kept, Failed, Answer
<1>19. CASE ReleaseClose
  BY <1>19 DEF HostOK, RunOK, Sessions, SessionTrue, PathTrue, AttachKnown,
     ChildTrue, AnswerTrue, Releasing, Holding, Contract!Reply, Contract!True,
     ReleaseClose, At, On, Goto, Works, Fault, StopWith, Kept, Failed, Answer,
     host
<1>20. CASE ReleaseWait
  BY <1>20 DEF HostOK, RunOK, Sessions, SessionTrue, PathTrue, AttachKnown,
     ChildTrue, AnswerTrue, Releasing, Holding, Contract!Reply, Contract!True,
     ReleaseWait, At, On, Goto, Works, Fails, Fault, Stop, StopWith, Kept,
     Failed, Answer, host
<1>21. CASE ReleaseChild
  BY <1>21 DEF HostOK, RunOK, Sessions, SessionTrue, PathTrue, AttachKnown,
     ChildTrue, AnswerTrue, Releasing, Holding, Contract!Work,
     Contract!Delete, Contract!Reply, Contract!True, ReleaseChild,
     ChildDeleted, At, On, Goto, Works, Fault, Stop, StopWith, Kept, Failed,
     Answer
<1>22. CASE ReleaseMount
  BY <1>22 DEF HostOK, RunOK, Sessions, SessionTrue, PathTrue, AttachKnown,
     ChildTrue, AnswerTrue, Releasing, Holding, Contract!Work,
     Contract!Unmount, Contract!Reply, Contract!True, ReleaseMount, At, Works,
     Fails, Fault, Stop, StopWith, Kept, Failed, Answer
<1>23. CASE Vanish
  BY <1>23 DEF HostOK, RunOK, Sessions, SessionTrue, PathTrue, AttachKnown,
     ChildTrue, AnswerTrue, Releasing, Holding, Vanish, rest
<1>24. CASE \E n \in Numbers : OtherDisk(n)
  BY <1>24 DEF HostOK, RunOK, Sessions, SessionTrue, PathTrue, AttachKnown,
     ChildTrue, AnswerTrue, Releasing, Holding, OtherDisk, rest
<1>25. CASE Occupy
  BY <1>25 DEF HostOK, RunOK, Sessions, SessionTrue, PathTrue, AttachKnown,
     ChildTrue, AnswerTrue, Releasing, Holding, Contract!Clear, Occupy, rest
<1>26. CASE Crash
  BY <1>26 DEF HostOK, RunOK, Sessions, SessionTrue, PathTrue, AttachKnown,
     ChildTrue, AnswerTrue, Releasing, Holding, Contract!Crash,
     Contract!Detach, Crash
<1>27. CASE UNCHANGED vars
  BY <1>27 DEF HostOK, RunOK, Sessions, SessionTrue, PathTrue, AttachKnown,
     ChildTrue, AnswerTrue, Releasing, Holding, vars, host
<1> QED
  BY <1>1, <1>2, <1>3, <1>4, <1>4a, <1>5, <1>6, <1>7, <1>8, <1>9, <1>10, <1>11,
     <1>12, <1>13, <1>14, <1>15, <1>16, <1>17, <1>18, <1>19, <1>20, <1>21,
     <1>22, <1>23, <1>24, <1>25, <1>26, <1>27 DEF Next, Run, Acquire, Closure,
     Release

(* The system calls and scripts of the broker implement the picture of the  *)
(* disk that its handlers act on: whatever fails, and whenever the broker   *)
(* dies, a lease that is held is attached and mounted, and a child that was *)
(* reported as released or retained is neither.                             *)
THEOREM NativeContractKept == Spec => NativeContract
<1>1. Init => Contract!Init
  BY DEF Init, Contract!Init
<1> QED
  BY <1>1, InitRef, StepRef, StepNative, PTL DEF Spec, NativeContract, Contract!Spec

(* Every step keeps what a failed acquire has to undo within its flags. *)
LEMMA StepUndo == UndoInv /\ [Next]_vars => UndoInv'
<1> SUFFICES ASSUME UndoInv, [Next]_vars PROVE UndoInv'
  OBVIOUS
<1>0. RefInv /\ RefInv'
  BY StepRef DEF UndoInv
<1> USE DEF UndoInv, RefInv, IndInv, TypeOK, Releasing, Undoing
<1>1. CASE AcquireBegin
  BY <1>0, <1>1 DEF HostOK, RunOK, Sessions, NoSession, PathTrue, ChildTrue,
     UndoTrue, UndoneLeavesNothing, AcquireBegin, Begin, host
<1>2. CASE AttachBegin
  BY <1>0, <1>2 DEF HostOK, RunOK, Sessions, NoSession, PathTrue, ChildTrue,
     UndoTrue, UndoneLeavesNothing, AttachBegin, Begin, host
<1>3. CASE \E d \in BOOLEAN : ReleaseBegin(d)
  BY <1>0, <1>3 DEF HostOK, RunOK, Sessions, NoSession, PathTrue, ChildTrue,
     UndoTrue, UndoneLeavesNothing, ReleaseBegin, Begin, host
<1>4. CASE PrepareStaleMount
  BY <1>0, <1>4 DEF HostOK, RunOK, Sessions, NoSession, PathTrue, ChildTrue,
     UndoTrue, UndoneLeavesNothing, PrepareStaleMount, At, On, Goto, Works,
     Fails, Fault, Refuse, Failed, Answer, OwnStalePoint, host
<1>4a. CASE ClearStaleMount
  BY <1>0, <1>4a DEF HostOK, RunOK, Sessions, NoSession, PathTrue, ChildTrue,
     UndoTrue, UndoneLeavesNothing, ClearStaleMount, At, On, Goto, Works,
     Fails, Fault, Refuse, Failed, Answer
<1>5. CASE MountDirectory
  BY <1>0, <1>5 DEF HostOK, RunOK, Sessions, NoSession, PathTrue, ChildTrue,
     UndoTrue, UndoneLeavesNothing, MountDirectory, At, On, Goto, Works,
     Fault, Refuse, Failed, Answer
<1>6. CASE Create
  BY <1>0, <1>6 DEF HostOK, RunOK, Sessions, NoSession, PathTrue, ChildTrue,
     UndoTrue, UndoneLeavesNothing, Create, Created, At, On, Goto, Works,
     Fault, Fail
<1>7. CASE Open
  BY <1>0, <1>7 DEF HostOK, RunOK, Sessions, NoSession, PathTrue, ChildTrue,
     UndoTrue, UndoneLeavesNothing, Open, At, On, Goto, Works, Fault, Fail,
     Refuse, Failed, Answer, host
<1>8. CASE Attach
  BY <1>0, <1>8 DEF HostOK, RunOK, Sessions, NoSession, PathTrue, ChildTrue,
     UndoTrue, UndoneLeavesNothing, Attach, At, On, Goto, Works, Fails, Fault,
     Fail
<1>9. CASE Resolve
  BY <1>0, <1>9 DEF HostOK, RunOK, Sessions, NoSession, PathTrue, ChildTrue,
     UndoTrue, UndoneLeavesNothing, Resolve, At, On, Goto, Works, Fault, Fail,
     host
<1>10. CASE Mount
  BY <1>0, <1>10 DEF HostOK, RunOK, Sessions, NoSession, PathTrue, ChildTrue,
     UndoTrue, UndoneLeavesNothing, Mount, At, On, Goto, Works, Fails, Fault,
     Fail
<1>11. CASE Hold
  BY <1>0, <1>11 DEF HostOK, RunOK, Sessions, NoSession, PathTrue, ChildTrue,
     UndoTrue, UndoneLeavesNothing, Hold, At, Goto, Works, Fault, Fail,
     Answer, host
<1>12. CASE FailUnmount
  BY <1>0, <1>12 DEF HostOK, RunOK, Sessions, NoSession, PathTrue, ChildTrue,
     UndoTrue, UndoneLeavesNothing, FailUnmount, At, Goto, CleanupWorks,
     CleanupFails, Works, Fault
<1>13. CASE FailDetach
  BY <1>0, <1>13 DEF HostOK, RunOK, Sessions, NoSession, PathTrue, ChildTrue,
     UndoTrue, UndoneLeavesNothing, FailDetach, At, Goto, CleanupWorks,
     CleanupFails, Works, Fault
<1>14. CASE FailClose
  BY <1>0, <1>14 DEF HostOK, RunOK, Sessions, NoSession, PathTrue, ChildTrue,
     UndoTrue, UndoneLeavesNothing, FailClose, At, Goto, CleanupWorks,
     CleanupFails, Works, Fault
<1>15. CASE FailChild
  BY <1>0, <1>15 DEF HostOK, RunOK, Sessions, NoSession, PathTrue, ChildTrue,
     UndoTrue, UndoneLeavesNothing, FailChild, ChildRemovable, At, Goto,
     CleanupWorks, CleanupFails, Works, Fault
<1>16. CASE FailMount
  BY <1>0, <1>16 DEF HostOK, RunOK, Sessions, NoSession, PathTrue, ChildTrue,
     UndoTrue, UndoneLeavesNothing, FailMount, At, CleanupWorks, CleanupFails,
     Works, Fault, Failed, Answer
<1>17. CASE ReleaseUnmount
  BY <1>0, <1>17 DEF HostOK, RunOK, Sessions, NoSession, PathTrue, ChildTrue,
     UndoTrue, UndoneLeavesNothing, ReleaseUnmount, Unmounts, At, On, Goto,
     Works, Fails, Fault, Stop, StopWith, Kept, Failed, Answer
<1>18. CASE ReleaseDetach
  BY <1>0, <1>18 DEF HostOK, RunOK, Sessions, NoSession, PathTrue, ChildTrue,
     UndoTrue, UndoneLeavesNothing, ReleaseDetach, Detached, At, On, Goto,
     Works, Fails, Fault, Stop, StopWith, Kept, Failed, Answer
<1>19. CASE ReleaseClose
  BY <1>0, <1>19 DEF HostOK, RunOK, Sessions, NoSession, PathTrue, ChildTrue,
     UndoTrue, UndoneLeavesNothing, ReleaseClose, At, On, Goto, Works, Fault,
     StopWith, Kept, Failed, Answer, host
<1>20. CASE ReleaseWait
  BY <1>0, <1>20 DEF HostOK, RunOK, Sessions, NoSession, PathTrue, ChildTrue,
     UndoTrue, UndoneLeavesNothing, ReleaseWait, At, On, Goto, Works, Fails,
     Fault, Stop, StopWith, Kept, Failed, Answer, host
<1>21. CASE ReleaseChild
  BY <1>0, <1>21 DEF HostOK, RunOK, Sessions, NoSession, PathTrue, ChildTrue,
     UndoTrue, UndoneLeavesNothing, ReleaseChild, ChildDeleted, At, On, Goto,
     Works, Fault, Stop, StopWith, Kept, Failed, Answer
<1>22. CASE ReleaseMount
  BY <1>0, <1>22 DEF HostOK, RunOK, Sessions, NoSession, PathTrue, ChildTrue,
     UndoTrue, UndoneLeavesNothing, ReleaseMount, At, Works, Fails, Fault, Stop,
     StopWith, Kept, Failed, Answer
<1>23. CASE Vanish
  BY <1>0, <1>23 DEF HostOK, RunOK, Sessions, NoSession, PathTrue, ChildTrue,
     UndoTrue, UndoneLeavesNothing, Vanish, rest
<1>24. CASE \E n \in Numbers : OtherDisk(n)
  BY <1>0, <1>24 DEF HostOK, RunOK, Sessions, NoSession, PathTrue, ChildTrue,
     UndoTrue, UndoneLeavesNothing, OtherDisk, rest
<1>25. CASE Occupy
  BY <1>0, <1>25 DEF HostOK, RunOK, Sessions, NoSession, PathTrue, ChildTrue,
     UndoTrue, UndoneLeavesNothing, Occupy, rest
<1>26. CASE Crash
  BY <1>0, <1>26 DEF HostOK, RunOK, Sessions, NoSession, PathTrue, ChildTrue,
     UndoTrue, UndoneLeavesNothing, Crash
<1>27. CASE UNCHANGED vars
  BY <1>0, <1>27 DEF HostOK, RunOK, Sessions, NoSession, PathTrue, ChildTrue,
     UndoTrue, UndoneLeavesNothing, vars, host
<1> QED
  BY <1>1, <1>2, <1>3, <1>4, <1>4a, <1>5, <1>6, <1>7, <1>8, <1>9, <1>10, <1>11,
     <1>12, <1>13, <1>14, <1>15, <1>16, <1>17, <1>18, <1>19, <1>20, <1>21,
     <1>22, <1>23, <1>24, <1>25, <1>26, <1>27 DEF Next, Run, Acquire, Closure,
     Release

(* A failed acquire leaves nothing behind, wherever it failed, unless its   *)
(* own cleanup failed.                                                      *)
THEOREM FailedAcquireUndone == Spec => []UndoneLeavesNothing
<1>1. Init => UndoTrue
  BY DEF Init, UndoTrue, Undoing, Releasing, UndoneLeavesNothing, NoSession
<1>2. Init => UndoInv
  BY <1>1, InitRef DEF UndoInv
<1>3. UndoInv => UndoneLeavesNothing
  BY DEF UndoInv, UndoTrue
<1> QED
  BY <1>2, <1>3, StepUndo, PTL DEF Spec
=============================================================================
