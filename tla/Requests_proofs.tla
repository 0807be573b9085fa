--------------------------- MODULE Requests_proofs ---------------------------
(***************************************************************************)
(* Proofs about Requests, for any number of callers, request IDs, payloads, *)
(* connections and restarts:                                                *)
(*                                                                          *)
(*   TypeCorrect    Spec => []TypeOK                                        *)
(*   ExecutedOnce   Spec => []AtMostOnce                                    *)
(*   ContractKept   Spec => OneOutcome                                      *)
(*   AnswersAreOwn  Spec => []AnswerIsOwn                                   *)
(***************************************************************************)
EXTENDS Requests, TLAPS

(* The goroutine that executes an ID is the one the ID is in flight on. *)
OneServes ==
    /\ \A i \in Ids : inflight[i] # None =>
          /\ conn[inflight[i]].id = i
          /\ conn[inflight[i]].st \in {"run", "store"}
          /\ requests[i] = Zero
    /\ \A k \in Conns : conn[k].st \in {"run", "store"} =>
          inflight[conn[k].id] = k
    /\ \A k \in Conns : conn[k].st = "store" => conn[k].ans \in Outcome

(* An ID was executed when its outcome is stored or about to be. *)
Once ==
    \A i \in Ids :
        /\ executed[i] \in {0, 1}
        /\ executed[i] = 1 /\ requests[i] = Zero =>
              inflight[i] # None /\ conn[inflight[i]].st = "store"

(* A server that is about to end may still be started again. *)
RestartLeft == server # "up" => crashes < MaxCrashes

IndInv == TypeOK /\ OneServes /\ Once /\ RestartLeft

(* A caller that waits has a connection to itself, with its own ID. *)
OwnConn ==
    /\ \A c \in Callers : caller[c].conn # None =>
          /\ conn[caller[c].conn].st # "free"
          /\ conn[caller[c].conn].id = caller[c].id
          /\ At(c, "await")
    /\ \A c, d \in Callers :
          caller[c].conn # None /\ caller[c].conn = caller[d].conn => c = d

(* An answer on its way is the stored outcome, or no outcome at all. *)
AnswerStored ==
    \A k \in Conns :
        /\ conn[k].st = "answer" /\ conn[k].ans # Refusal =>
              conn[k].ans = requests[conn[k].id] /\ conn[k].ans # Zero
        /\ conn[k].st = "wait" =>
              inflight[conn[k].id] # None \/ requests[conn[k].id] # Zero

RefInv == IndInv /\ OwnConn /\ AnswerStored

(* What the steps below use of the constants. *)
LEMMA Constants ==
    /\ MaxCalls \in Nat /\ MaxCrashes \in Nat
    /\ None \notin Conns /\ None \notin Payloads
  BY ConstantsAssumption DEF ConstantsAssumption, None

(* Nothing is an outcome that did not come from an execution. *)
LEMMA Kinds ==
    /\ Zero \notin Outcome /\ Refusal \notin Outcome /\ Zero # Refusal
    /\ \A kind \in {"ok", "fail"} : \A p \in Payloads : [kind |-> kind, of |-> p] \in Outcome
  BY DEF Outcome, Zero, Refusal

(* Records of callers and goroutines. *)
LEMMA Records ==
    /\ Away \in Processes /\ Free \in Goroutines
    /\ Away.pc = "idle" /\ Free.st = "free"
    /\ \A r \in Processes : r.pc \in {"idle", "claim", "fill", "flush", "read", "hello", "send", "await"}
  BY DEF Away, Free, Processes, Goroutines, Zero

(* The server starts idle. *)
LEMMA InitInd == Init => IndInv
<1> SUFFICES ASSUME Init PROVE IndInv
  OBVIOUS
<1>1. ClientOK
  BY Constants, Records DEF Init, ClientOK, At
<1>2. ServerOK
  BY Constants DEF Init, ServerOK
<1>3. ConnOK
  BY Records DEF Init, ConnOK
<1>4. OneServes
  BY Records DEF Init, OneServes
<1>5. Once /\ RestartLeft
  BY DEF Init, Once, RestartLeft
<1> QED
  BY <1>1, <1>2, <1>3, <1>4, <1>5 DEF IndInv, TypeOK

(* A step of a caller's own keeps the types of the callers, and the server  *)
(* does not notice it.                                                      *)
LEMMA CallerStep ==
    ASSUME IndInv, NEW c \in Callers,
           \/ \E r \in Request, b \in BOOLEAN : Call(c, r, b)
           \/ ClaimCreate(c)
           \/ ClaimFill(c)
           \/ ClaimFlush(c)
           \/ ClaimRead(c)
           \/ Hello(c)
           \/ GiveUp(c)
           \/ CallerDies(c)
    PROVE  ClientOK' /\ UNCHANGED <<serverVars, conn>>
<1> USE Constants, Records DEF IndInv, TypeOK
<1>1. CASE \E r \in Request, b \in BOOLEAN : Call(c, r, b)
  BY <1>1 DEF ClientOK, Processes, At, Goto, Call, Request
<1>2. CASE ClaimCreate(c)
  BY <1>2 DEF ClientOK, Processes, At, Goto, ClaimCreate, Refused
<1>3. CASE ClaimFill(c)
  BY <1>3 DEF ClientOK, Processes, At, Goto, ClaimFill, Unclaimed, Refused
<1>4. CASE ClaimFlush(c)
  BY <1>4 DEF ClientOK, Processes, At, Goto, ClaimFlush, Unclaimed, Connect,
     Refused
<1>5. CASE ClaimRead(c)
  BY <1>5 DEF ClientOK, Processes, At, Goto, ClaimRead, Connect, clientVars,
     Refused
<1>6. CASE Hello(c)
  BY <1>6 DEF ClientOK, Processes, At, Goto, Hello, clientVars, Refused
<1>7. CASE GiveUp(c)
  BY <1>7 DEF ClientOK, Processes, At, Goto, GiveUp, clientVars, Refused
<1>8. CASE CallerDies(c)
  BY <1>8 DEF ClientOK, Processes, At, Goto, CallerDies, clientVars
<1> QED
  BY <1>1, <1>2, <1>3, <1>4, <1>5, <1>6, <1>7, <1>8

(* A goroutine's step keeps the execution of an ID with one goroutine and   *)
(* counts it once.                                                          *)
LEMMA ServeStep ==
    ASSUME IndInv, NEW k \in Conns, Serve(k)
    PROVE  ClientOK' /\ ServerOK' /\ ConnOK' /\ OneServes' /\ Once'
           /\ UNCHANGED <<server, crashes>>
<1> USE Constants, Kinds, Records DEF IndInv, TypeOK
<1>1. CASE Lookup(k)
  <2>1. ClientOK'
    BY <1>1 DEF ClientOK, clientVars, At, Processes, Lookup
  <2>2. ServerOK' /\ UNCHANGED <<server, crashes>>
    BY <1>1 DEF ServerOK, ConnOK, OneServes, Lookup, LockFree, Answer,
       SamePayload, Running
  <2>3. ConnOK'
    BY <1>1 DEF ConnOK, ServerOK, Goroutines, Lookup, LockFree, Answer,
       SamePayload, Running
  <2>4. OneServes'
    BY <1>1 DEF ConnOK, ServerOK, OneServes, Goroutines, Lookup, LockFree,
       Answer, SamePayload, Running
  <2>5. Once'
    BY <1>1 DEF ConnOK, ServerOK, OneServes, Once, Goroutines, Lookup,
       LockFree, Answer, SamePayload, Running
  <2> QED
    BY <2>1, <2>2, <2>3, <2>4, <2>5
<1>2. CASE Execute(k)
  <2>1. ClientOK'
    BY <1>2 DEF ClientOK, clientVars, At, Processes, Execute
  <2>2. ServerOK' /\ UNCHANGED <<server, crashes>>
    BY <1>2 DEF ServerOK, ConnOK, OneServes, Execute
  <2>3. ConnOK'
    <3>1. PICK kind \in {"ok", "fail"} :
              conn' = [conn EXCEPT ![k].st = "store",
                                   ![k].ans = [kind |-> kind, of |-> conn[k].payload]]
      BY <1>2 DEF Execute
    <3>2. conn[k].payload \in Payloads
      BY <1>2 DEF Execute, ConnOK
    <3>3. [kind |-> kind, of |-> conn[k].payload] \in Outcome
      BY <3>2
    <3>4. conn'[k] \in Goroutines
      BY <3>1, <3>3 DEF ConnOK, Goroutines
    <3>5. conn' \in [Conns -> Goroutines]
      BY <3>1, <3>4 DEF ConnOK
    <3>6. \A j \in Conns : conn'[j].id = conn[j].id /\ conn'[j].payload = conn[j].payload
                            /\ (conn'[j].st # "free" => conn[j].st # "free")
      BY <3>1, <1>2 DEF ConnOK, Goroutines, Execute
    <3> QED
      BY <3>5, <3>6 DEF ConnOK
  <2>4. OneServes'
    BY <1>2 DEF ConnOK, ServerOK, OneServes, Goroutines, Execute
  <2>5. Once'
    BY <1>2 DEF ConnOK, ServerOK, OneServes, Once, Goroutines, Execute
  <2> QED
    BY <2>1, <2>2, <2>3, <2>4, <2>5
<1>3. CASE Store(k)
  <2>1. ClientOK'
    BY <1>3 DEF ClientOK, clientVars, At, Processes, Store
  <2>2. ServerOK' /\ UNCHANGED <<server, crashes>>
    BY <1>3 DEF ServerOK, ConnOK, OneServes, Store, Recorded, Closed, Answer
  <2>3. ConnOK'
    BY <1>3 DEF ConnOK, ServerOK, Goroutines, Store, Recorded, Closed, Answer
  <2>4. OneServes'
    BY <1>3 DEF ConnOK, ServerOK, OneServes, Goroutines, Store, Recorded,
       Closed, Answer
  <2>5. Once'
    BY <1>3 DEF ConnOK, ServerOK, OneServes, Once, Goroutines, Store,
       Recorded, Closed, Answer
  <2> QED
    BY <2>1, <2>2, <2>3, <2>4, <2>5
<1>4. CASE Wake(k)
  <2>1. ClientOK'
    BY <1>4 DEF ClientOK, clientVars, At, Processes, Wake
  <2>2. ServerOK' /\ UNCHANGED <<server, crashes>>
    BY <1>4 DEF ServerOK, ConnOK, OneServes, Wake, Answer, Running, serverVars
  <2>3. ConnOK'
    BY <1>4 DEF ConnOK, ServerOK, Goroutines, Wake, Answer, Running,
       serverVars
  <2>4. OneServes'
    <3>1. PICK ans : conn' = [conn EXCEPT ![k].st = "answer", ![k].ans = ans]
      BY <1>4 DEF Wake, Answer
    <3>2. conn[k].st = "wait" /\ UNCHANGED <<inflight, requests>>
      BY <1>4 DEF Wake, serverVars
    <3> QED
      BY <3>1, <3>2 DEF ConnOK, ServerOK, OneServes, Goroutines
  <2>5. Once'
    BY <1>4 DEF ConnOK, ServerOK, OneServes, Once, Goroutines, Wake, Answer,
       Running, serverVars
  <2> QED
    BY <2>1, <2>2, <2>3, <2>4, <2>5
<1>5. CASE Respond(k)
  <2>1. ClientOK'
    BY <1>5 DEF ClientOK, clientVars, At, Processes, Respond
  <2>2. ServerOK' /\ UNCHANGED <<server, crashes>>
    BY <1>5 DEF ServerOK, ConnOK, OneServes, Respond, serverVars
  <2>3. ConnOK'
    BY <1>5 DEF ConnOK, ServerOK, Goroutines, Respond, serverVars
  <2>4. OneServes'
    BY <1>5 DEF ConnOK, ServerOK, OneServes, Goroutines, Respond, serverVars
  <2>5. Once'
    BY <1>5 DEF ConnOK, ServerOK, OneServes, Once, Goroutines, Respond,
       serverVars
  <2> QED
    BY <2>1, <2>2, <2>3, <2>4, <2>5
<1> QED
  BY <1>1, <1>2, <1>3, <1>4, <1>5 DEF Serve

(* Every step of callers, goroutines and the process keeps IndInv. *)
LEMMA StepInd == IndInv /\ [Next]_vars => IndInv'
<1> SUFFICES ASSUME IndInv, [Next]_vars PROVE IndInv'
  OBVIOUS
<1> USE Constants, Kinds, Records DEF IndInv, TypeOK
<1>1. CASE Crash
  <2>1. ClientOK'
    BY <1>1 DEF ClientOK, At, Processes, Crash, Exit, serverVars, clientVars
  <2>2. ServerOK' /\ RestartLeft'
    BY <1>1 DEF ServerOK, RestartLeft, Crash, Exit, serverVars, clientVars
  <2>3. ConnOK'
    BY <1>1 DEF ConnOK, ClientOK, At, Goroutines, Crash, Exit, serverVars,
       clientVars
  <2>4. OneServes' /\ Once'
    BY <1>1 DEF ConnOK, ServerOK, OneServes, Once, Crash, Exit, serverVars,
       clientVars
  <2> QED
    BY <2>1, <2>2, <2>3, <2>4
<1>2. CASE Stop
  <2>1. ClientOK'
    BY <1>2 DEF ClientOK, At, Processes, Stop, clientVars
  <2>2. ServerOK' /\ RestartLeft'
    BY <1>2 DEF ServerOK, RestartLeft, Stop, clientVars
  <2>3. ConnOK'
    BY <1>2 DEF ConnOK, ClientOK, At, Goroutines, Stop, clientVars
  <2>4. OneServes' /\ Once'
    BY <1>2 DEF ConnOK, ServerOK, OneServes, Once, Stop, clientVars
  <2> QED
    BY <2>1, <2>2, <2>3, <2>4
<1>3. CASE StopListener
  <2>1. ClientOK'
    BY <1>3 DEF ClientOK, At, Processes, StopListener, clientVars
  <2>2. ServerOK' /\ RestartLeft'
    BY <1>3 DEF ServerOK, RestartLeft, StopListener, clientVars
  <2>3. ConnOK'
    BY <1>3 DEF ConnOK, ClientOK, At, Goroutines, StopListener, clientVars
  <2>4. OneServes' /\ Once'
    BY <1>3 DEF ConnOK, ServerOK, OneServes, Once, StopListener, clientVars
  <2> QED
    BY <2>1, <2>2, <2>3, <2>4
<1>4. CASE Stopped
  <2>1. ClientOK'
    BY <1>4 DEF ClientOK, At, Processes, Stopped, Exit, clientVars
  <2>2. ServerOK' /\ RestartLeft'
    BY <1>4 DEF ServerOK, RestartLeft, Stopped, Exit, clientVars
  <2>3. ConnOK'
    BY <1>4 DEF ConnOK, ClientOK, At, Goroutines, Stopped, Exit, clientVars
  <2>4. OneServes' /\ Once'
    BY <1>4 DEF ConnOK, ServerOK, OneServes, Once, Stopped, Exit, clientVars
  <2> QED
    BY <2>1, <2>2, <2>3, <2>4
<1>5. CASE Start
  <2>1. ClientOK'
    BY <1>5 DEF ClientOK, At, Processes, Start, clientVars
  <2>2. ServerOK' /\ RestartLeft'
    BY <1>5 DEF ServerOK, RestartLeft, Start, clientVars
  <2>3. ConnOK'
    BY <1>5 DEF ConnOK, ClientOK, At, Goroutines, Start, clientVars
  <2>4. OneServes' /\ Once'
    BY <1>5 DEF ConnOK, ServerOK, OneServes, Once, Start, clientVars
  <2> QED
    BY <2>1, <2>2, <2>3, <2>4
<1>6. CASE \E c \in Callers : Send(c)
  <2>1. ClientOK'
    BY <1>6 DEF ClientOK, At, Processes, Send, NewConn, Refused, clientVars
  <2>2. ServerOK' /\ RestartLeft'
    BY <1>6 DEF ServerOK, RestartLeft, Send, NewConn, Refused, clientVars
  <2>3. ConnOK'
    BY <1>6 DEF ConnOK, ClientOK, At, Goroutines, Send, NewConn, Refused,
       clientVars
  <2>4. OneServes' /\ Once'
    BY <1>6 DEF ConnOK, ServerOK, OneServes, Once, Send, NewConn, Refused,
       clientVars
  <2> QED
    BY <2>1, <2>2, <2>3, <2>4
<1>7. ASSUME NEW c \in Callers,
             \/ \E r \in Request, b \in BOOLEAN : Call(c, r, b)
             \/ ClaimCreate(c) \/ ClaimFill(c) \/ ClaimFlush(c) \/ ClaimRead(c)
             \/ Hello(c) \/ GiveUp(c) \/ CallerDies(c)
      PROVE  IndInv'
  <2>1. ClientOK' /\ UNCHANGED <<serverVars, conn>>
    BY <1>7, CallerStep
  <2> QED
    BY <2>1 DEF serverVars, ServerOK, ConnOK, OneServes, Once, RestartLeft
<1>8. ASSUME NEW k \in Conns, Serve(k) PROVE IndInv'
  BY <1>8, ServeStep DEF RestartLeft
<1>9. CASE UNCHANGED vars
  BY <1>9 DEF vars, clientVars, serverVars, ClientOK, ServerOK, ConnOK,
     OneServes, Once, RestartLeft, At
<1> QED
  BY <1>1, <1>2, <1>3, <1>4, <1>5, <1>6, <1>7, <1>8, <1>9 DEF Next, Client

(* However callers, goroutines and restarts interleave, whoever is at work  *)
(* has a request, and only outcomes of executions are kept for the          *)
(* duplicates to come.                                                      *)
THEOREM TypeCorrect == Spec => []TypeOK
<1>1. IndInv => TypeOK
  BY DEF IndInv
<1> QED
  BY <1>1, InitInd, StepInd, PTL DEF Spec

(* No server ever executes a request ID twice, for any number of callers,   *)
(* IDs and connections: neither while the first execution runs, nor after   *)
(* it succeeded or failed.                                                  *)
THEOREM ExecutedOnce == Spec => []AtMostOnce
<1>1. IndInv => AtMostOnce
  BY DEF IndInv, Once, AtMostOnce
<1> QED
  BY <1>1, InitInd, StepInd, PTL DEF Spec

(* A caller's own step keeps callers and connections paired. *)
LEMMA CallerRef ==
    ASSUME RefInv, NEW c \in Callers,
           \/ \E r \in Request, b \in BOOLEAN : Call(c, r, b)
           \/ ClaimCreate(c) \/ ClaimFill(c) \/ ClaimFlush(c) \/ ClaimRead(c)
           \/ Hello(c) \/ GiveUp(c) \/ CallerDies(c)
    PROVE  OwnConn' /\ UNCHANGED <<conn, requests, inflight, answers>>
<1> USE Constants, Records DEF RefInv, IndInv, TypeOK, ClientOK, OwnConn, At, Goto
<1>1. CASE \E r \in Request, b \in BOOLEAN : Call(c, r, b)
  BY <1>1 DEF Processes, Away, serverVars, Call, Request
<1>2. CASE ClaimCreate(c)
  BY <1>2 DEF Processes, Away, serverVars, ClaimCreate, Refused
<1>3. CASE ClaimFill(c)
  BY <1>3 DEF Processes, Away, serverVars, ClaimFill, Unclaimed, Refused
<1>4. CASE ClaimFlush(c)
  BY <1>4 DEF Processes, Away, serverVars, ClaimFlush, Unclaimed, Connect,
     Refused
<1>5. CASE ClaimRead(c)
  BY <1>5 DEF Processes, Away, serverVars, ClaimRead, Connect, clientVars,
     Refused
<1>6. CASE Hello(c)
  BY <1>6 DEF Processes, Away, serverVars, Hello, clientVars, Refused
<1>7. CASE GiveUp(c)
  BY <1>7 DEF Processes, Away, serverVars, GiveUp, clientVars, Refused
<1>8. CASE CallerDies(c)
  BY <1>8 DEF Processes, Away, serverVars, CallerDies, clientVars
<1> QED
  BY <1>1, <1>2, <1>3, <1>4, <1>5, <1>6, <1>7, <1>8

(* A new connection is one that nobody uses. *)
LEMMA NewIsFree ==
    ASSUME NEW k \in Conns, k = NewConn PROVE conn[k].st = "free"
<1> DEFINE free == {j \in Conns : conn[j] = Free}
<1>1. free # {}
  BY Constants DEF NewConn
<1>2. NewConn = CHOOSE j \in free : TRUE
  BY <1>1 DEF NewConn
<1>3. NewConn \in free
  BY <1>1, <1>2
<1> QED
  BY <1>3, Records

(* Every step keeps callers and connections paired, and every answer on     *)
(* its way the stored one.                                                  *)
LEMMA StepRef == RefInv /\ [Next]_vars => RefInv'
<1> SUFFICES ASSUME RefInv, [Next]_vars PROVE RefInv'
  OBVIOUS
<1>0. IndInv /\ IndInv'
  BY StepInd DEF RefInv
<1> USE Constants, Kinds, Records DEF RefInv, IndInv, TypeOK
<1>1. CASE Crash
  <2>1. OwnConn'
    BY <1>1 DEF OwnConn, ClientOK, ConnOK, At, Processes, Goroutines, Away,
       Crash, Exit, serverVars, clientVars
  <2>2. AnswerStored'
    BY <1>1 DEF AnswerStored, ConnOK, ServerOK, OneServes, Goroutines, Crash,
       Exit, serverVars, clientVars
  <2> QED
    BY <1>0, <2>1, <2>2
<1>2. CASE Stop
  <2>1. OwnConn'
    BY <1>2 DEF OwnConn, ClientOK, ConnOK, At, Processes, Goroutines, Away,
       Stop, clientVars
  <2>2. AnswerStored'
    BY <1>2 DEF AnswerStored, ConnOK, ServerOK, OneServes, Goroutines, Stop,
       clientVars
  <2> QED
    BY <1>0, <2>1, <2>2
<1>3. CASE StopListener
  <2>1. OwnConn'
    BY <1>3 DEF OwnConn, ClientOK, ConnOK, At, Processes, Goroutines, Away,
       StopListener, clientVars
  <2>2. AnswerStored'
    BY <1>3 DEF AnswerStored, ConnOK, ServerOK, OneServes, Goroutines,
       StopListener, clientVars
  <2> QED
    BY <1>0, <2>1, <2>2
<1>4. CASE Stopped
  <2>1. OwnConn'
    BY <1>4 DEF OwnConn, ClientOK, ConnOK, At, Processes, Goroutines, Away,
       Stopped, Exit, clientVars
  <2>2. AnswerStored'
    BY <1>4 DEF AnswerStored, ConnOK, ServerOK, OneServes, Goroutines,
       Stopped, Exit, clientVars
  <2> QED
    BY <1>0, <2>1, <2>2
<1>5. CASE Start
  <2>1. OwnConn'
    BY <1>5 DEF OwnConn, ClientOK, ConnOK, At, Processes, Goroutines, Away,
       Start, clientVars
  <2>2. AnswerStored'
    BY <1>5 DEF AnswerStored, ConnOK, ServerOK, OneServes, Goroutines, Start,
       clientVars
  <2> QED
    BY <1>0, <2>1, <2>2
<1>6. CASE \E c \in Callers : Send(c)
  <2>1. OwnConn'
    <3>1. PICK c \in Callers : Send(c)
      BY <1>6
    <3>2. CASE caller' = [caller EXCEPT ![c] = Away] /\ UNCHANGED conn
      BY <3>2 DEF OwnConn, ClientOK, At, Processes, Away
    <3>3. CASE \E k \in Conns :
                  /\ k = NewConn
                  /\ conn' = [conn EXCEPT ![k] = [st |-> "received",
                                 id |-> caller[c].id, payload |-> caller[c].payload,
                                 ans |-> Zero]]
                  /\ \/ caller' = [caller EXCEPT ![c].pc = "await", ![c].conn = k]
                     \/ caller' = [caller EXCEPT ![c] = Away]
      <4>1. PICK k \in Conns :
                  /\ k = NewConn
                  /\ conn' = [conn EXCEPT ![k] = [st |-> "received",
                                 id |-> caller[c].id, payload |-> caller[c].payload,
                                 ans |-> Zero]]
                  /\ \/ caller' = [caller EXCEPT ![c].pc = "await", ![c].conn = k]
                     \/ caller' = [caller EXCEPT ![c] = Away]
        BY <3>3
      <4>2. conn[k].st = "free"
        BY <4>1, NewIsFree
      <4>3. \A d \in Callers : caller[d].conn # k
        BY <4>2 DEF OwnConn
      <4>4. At(c, "send")
        BY <3>1 DEF Send
      <4> QED
        BY <4>1, <4>3, <4>4 DEF OwnConn, ClientOK, ConnOK, At, Processes, Away
    <3> QED
      BY <3>1, <3>2, <3>3 DEF Send, Refused
  <2>2. AnswerStored'
    BY <1>6 DEF AnswerStored, ConnOK, ServerOK, OneServes, Goroutines, Send,
       NewConn, Refused, clientVars
  <2> QED
    BY <1>0, <2>1, <2>2
<1>7. CASE \E k \in Conns : Lookup(k)
  <2>1. OwnConn'
    <3>1. UNCHANGED caller
      BY <1>7 DEF Lookup
    <3>2. \A j \in Conns : /\ conn'[j].id = conn[j].id
                           /\ conn[j].st # "free" => conn'[j].st # "free"
      BY <1>7 DEF Lookup, Answer, ConnOK, Goroutines
    <3> QED
      BY <3>1, <3>2 DEF OwnConn, ClientOK, At, Processes
  <2>2. AnswerStored'
    BY <1>7 DEF AnswerStored, ConnOK, ServerOK, OneServes, Goroutines, Lookup,
       LockFree, Answer, SamePayload, Running
  <2> QED
    BY <1>0, <2>1, <2>2
<1>8. CASE \E k \in Conns : Execute(k)
  <2>1. OwnConn'
    BY <1>8 DEF OwnConn, ClientOK, ConnOK, At, Processes, Goroutines, Away,
       Execute
  <2>2. AnswerStored'
    BY <1>8 DEF AnswerStored, ConnOK, ServerOK, OneServes, Goroutines, Execute
  <2> QED
    BY <1>0, <2>1, <2>2
<1>9. CASE \E k \in Conns : Store(k)
  <2>1. OwnConn'
    BY <1>9 DEF OwnConn, ClientOK, ConnOK, At, Processes, Goroutines, Away,
       Store, Recorded, Closed, Answer
  <2>2. AnswerStored'
    BY <1>9 DEF AnswerStored, ConnOK, ServerOK, OneServes, Goroutines, Store,
       Recorded, Closed, Answer
  <2> QED
    BY <1>0, <2>1, <2>2
<1>10. CASE \E k \in Conns : Wake(k)
  <2>1. OwnConn'
    BY <1>10 DEF OwnConn, ClientOK, ConnOK, At, Processes, Goroutines, Away,
       Wake, Answer, Running, serverVars
  <2>2. AnswerStored'
    BY <1>10 DEF AnswerStored, ConnOK, ServerOK, OneServes, Goroutines, Wake,
       Answer, Running, serverVars
  <2> QED
    BY <1>0, <2>1, <2>2
<1>11. CASE \E k \in Conns : Respond(k)
  <2>1. OwnConn'
    <3>1. PICK k \in Conns : Respond(k)
      BY <1>11
    <3>2. CASE UNCHANGED caller /\ \A c \in Callers : caller[c].conn # k
      BY <3>1, <3>2 DEF Respond, OwnConn, ConnOK, ClientOK, At, Processes
    <3>3. CASE \E c \in Callers : caller[c].conn = k
                                  /\ caller' = [caller EXCEPT ![c] = Away]
      <4>1. PICK c \in Callers : caller[c].conn = k
                                 /\ caller' = [caller EXCEPT ![c] = Away]
        BY <3>3
      <4>2. \A d \in Callers \ {c} : caller[d].conn # k /\ caller'[d] = caller[d]
        BY <4>1 DEF OwnConn, ClientOK
      <4>3. caller'[c].conn = None
        BY <4>1 DEF ClientOK, Away
      <4>4. \A j \in Conns \ {k} : conn'[j] = conn[j]
        BY <3>1 DEF Respond, ConnOK
      <4> QED
        BY <4>2, <4>3, <4>4 DEF OwnConn, ClientOK, At, Processes
    <3> QED
      BY <3>1, <3>2, <3>3 DEF Respond
  <2>2. AnswerStored'
    BY <1>11 DEF AnswerStored, ConnOK, ServerOK, OneServes, Goroutines,
       Respond, serverVars
  <2> QED
    BY <1>0, <2>1, <2>2
<1>12. ASSUME NEW c \in Callers,
             \/ \E r \in Request, b \in BOOLEAN : Call(c, r, b)
             \/ ClaimCreate(c) \/ ClaimFill(c) \/ ClaimFlush(c) \/ ClaimRead(c)
             \/ Hello(c) \/ GiveUp(c) \/ CallerDies(c)
      PROVE  RefInv'
  BY <1>0, <1>12, CallerRef DEF AnswerStored
<1>13. CASE UNCHANGED vars
  BY <1>0, <1>13 DEF vars, serverVars, clientVars, OwnConn, AnswerStored, At
<1> QED
  BY <1>1, <1>2, <1>3, <1>4, <1>5, <1>6, <1>7, <1>8, <1>9, <1>10, <1>11,
     <1>12, <1>13 DEF Next, Client, Serve

(* Steps that neither end an execution nor deliver an answer decide nothing. *)
LEMMA NothingDecided ==
    ASSUME RefInv, UNCHANGED <<requests, inflight, answers>>,
           \A k \in Conns : conn[k].st \in {"run", "store"} => conn'[k] = conn[k]
    PROVE  UNCHANGED Contract!vars
<1>1. Decided' = Decided
  BY DEF Decided, RefInv, IndInv, TypeOK, ServerOK, OneServes
<1>2. ToldOutcomes' = ToldOutcomes
  BY DEF ToldOutcomes
<1> QED
  BY <1>1, <1>2 DEF Contract!vars

(* A goroutine's step decides, tells, or changes nothing of the contract. *)
LEMMA ServeContract ==
    ASSUME RefInv, NEW k \in Conns, Serve(k)
    PROVE  Contract!Next \/ UNCHANGED Contract!vars
<1> USE Constants, Kinds, Records DEF RefInv, IndInv, TypeOK
<1>1. CASE Lookup(k)
  <2>1. UNCHANGED <<requests, answers>>
    BY <1>1 DEF Lookup
  <2>2. \A j \in Conns \ {k} : conn'[j] = conn[j]
    BY <1>1 DEF Lookup, Answer, ConnOK
  <2>3. conn[k].st = "received" /\ conn'[k].st # "store"
    BY <1>1 DEF Lookup, Answer, ConnOK, Goroutines
  <2>4. \A i \in Ids : inflight'[i] = inflight[i] \/ (inflight[i] = None /\ inflight'[i] = k)
    BY <1>1 DEF Lookup, Running, ServerOK
  <2>5. Decided' = Decided
    BY <2>1, <2>2, <2>3, <2>4 DEF Decided, ServerOK, OneServes
  <2> QED
    BY <2>1, <2>5 DEF Contract!vars, ToldOutcomes
<1>2. CASE Execute(k)
  <2> DEFINE i == conn[k].id
  <2>1. i \in Ids /\ inflight[i] = k /\ requests[i] = Zero /\ conn[k].st = "run"
    BY <1>2 DEF Execute, ConnOK, OneServes
  <2>2. UNCHANGED <<requests, inflight, answers>>
    BY <1>2 DEF Execute
  <2>3. conn'[k].st = "store" /\ conn'[k].ans \in Outcome
    <3>1. PICK kind \in {"ok", "fail"} :
              conn' = [conn EXCEPT ![k].st = "store",
                                   ![k].ans = [kind |-> kind, of |-> conn[k].payload]]
      BY <1>2 DEF Execute
    <3>2. conn[k].payload \in Payloads
      BY <1>2 DEF Execute, ConnOK
    <3>3. [kind |-> kind, of |-> conn[k].payload] \in Outcome
      BY <3>2
    <3> QED
      BY <3>1, <3>3 DEF ConnOK, Goroutines
  <2>4. \A j \in Conns \ {k} : conn'[j] = conn[j]
    BY <1>2 DEF Execute, ConnOK
  <2>5. \A h \in Ids \ {i} : inflight[h] # k
    BY DEF OneServes
  <2>6. Decided[i] = Zero /\ Decided'[i] = conn'[k].ans
    BY <2>1, <2>2, <2>3 DEF Decided
  <2>7. \A h \in Ids \ {i} : Decided'[h] = Decided[h]
    BY <2>2, <2>4, <2>5 DEF Decided, ServerOK
  <2>8. Decided' = [Decided EXCEPT ![i] = conn'[k].ans]
    BY <2>6, <2>7 DEF Decided
  <2>9. Contract!Decide(i)
    BY <2>2, <2>3, <2>6, <2>8 DEF Contract!Decide, ToldOutcomes
  <2> QED
    BY <2>1, <2>9 DEF Contract!Next
<1>3. CASE Store(k)
  <2> DEFINE i == conn[k].id
  <2>1. i \in Ids /\ inflight[i] = k /\ conn[k].st = "store"
    BY <1>3 DEF Store, ConnOK, OneServes
  <2>2. requests' = [requests EXCEPT ![i] = conn[k].ans]
        /\ inflight' = [inflight EXCEPT ![i] = None] /\ UNCHANGED answers
    BY <1>3 DEF Store, Recorded, Closed
  <2>3. \A j \in Conns \ {k} : conn'[j] = conn[j]
    BY <1>3 DEF Store, Answer, ConnOK
  <2>4. \A h \in Ids \ {i} : inflight[h] # k
    BY DEF OneServes
  <2>5. \A h \in Ids : Decided'[h] = Decided[h]
    BY <2>1, <2>2, <2>3, <2>4 DEF Decided, ServerOK
  <2>6. Decided' = Decided
    BY <2>5 DEF Decided
  <2> QED
    BY <2>2, <2>6 DEF Contract!vars, ToldOutcomes
<1>4. CASE Wake(k)
  BY <1>4, NothingDecided DEF Wake, Answer, serverVars, ConnOK
<1>5. CASE Respond(k)
  <2>1. conn[k].st = "answer" /\ conn' = [conn EXCEPT ![k] = Free]
        /\ UNCHANGED <<requests, inflight>>
    BY <1>5 DEF Respond, serverVars
  <2>2. Decided' = Decided
    BY <2>1 DEF Decided, ServerOK, OneServes, ConnOK
  <2>3. CASE UNCHANGED answers
    BY <2>2, <2>3 DEF Contract!vars, ToldOutcomes
  <2>4. CASE ~UNCHANGED answers
    <3>1. PICK c \in Callers :
              /\ caller[c].conn = k
              /\ answers' = answers \cup Told(c, Translated(c, conn[k].ans))
      BY <1>5, <2>4 DEF Respond
    <3> DEFINE i == caller[c].id
    <3>2. Translated(c, conn[k].ans) = conn[k].ans /\ conn[k].ans # Refusal
      BY <3>1, <2>4 DEF Told, Translated
    <3>3. i = conn[k].id /\ i \in Ids
      BY <3>1, <2>1 DEF OwnConn, ConnOK
    <3>4. conn[k].ans = requests[i] /\ requests[i] # Zero
      BY <2>1, <3>2, <3>3 DEF AnswerStored
    <3>5. Decided[i] = requests[i]
      BY <3>3, <3>4 DEF Decided, OneServes
    <3>6. answers' = answers \cup {[id |-> i, payload |-> caller[c].payload,
                              adapted |-> caller[c].adapted, ans |-> conn[k].ans]}
      BY <3>1, <3>2 DEF Told
    <3>7. ToldOutcomes' = ToldOutcomes \cup {[id |-> i, outcome |-> Decided[i]]}
      <4> DEFINE a == [id |-> i, payload |-> caller[c].payload,
                       adapted |-> caller[c].adapted, ans |-> conn[k].ans]
      <4>1. answers' = answers \cup {a} /\ [id |-> a.id, outcome |-> a.ans]
                                            = [id |-> i, outcome |-> Decided[i]]
        BY <3>4, <3>5, <3>6
      <4> HIDE DEF a
      <4>2. {[id |-> b.id, outcome |-> b.ans] : b \in answers \cup {a}}
            = {[id |-> b.id, outcome |-> b.ans] : b \in answers}
              \cup {[id |-> a.id, outcome |-> a.ans]}
        OBVIOUS
      <4> QED
        BY <4>1, <4>2, Zenon DEF ToldOutcomes
    <3>8. Contract!Tell(i)
      BY <2>2, <3>4, <3>5, <3>7 DEF Contract!Tell
    <3> QED
      BY <3>3, <3>8 DEF Contract!Next
  <2> QED
    BY <2>3, <2>4
<1> QED
  BY <1>1, <1>2, <1>3, <1>4, <1>5 DEF Serve

(* The end of a server forgets, and nothing else of it is seen. *)
LEMMA StepContract == RefInv /\ [Next]_vars => [Contract!Next]_(Contract!vars)
<1> SUFFICES ASSUME RefInv, [Next]_vars
             PROVE  Contract!Next \/ UNCHANGED Contract!vars
  OBVIOUS
<1>1. ASSUME NEW c \in Callers,
             \/ \E r \in Request, b \in BOOLEAN : Call(c, r, b)
             \/ ClaimCreate(c) \/ ClaimFill(c) \/ ClaimFlush(c) \/ ClaimRead(c)
             \/ Hello(c) \/ GiveUp(c) \/ CallerDies(c)
      PROVE  UNCHANGED Contract!vars
  BY <1>1, CallerRef, NothingDecided
<1>2. ASSUME NEW c \in Callers, Send(c) PROVE UNCHANGED Contract!vars
  <2>1. UNCHANGED <<requests, inflight, answers>>
    BY <1>2 DEF Send, Refused
  <2>2. \A k \in Conns : conn[k].st \in {"run", "store"} => conn'[k] = conn[k]
    BY <1>2, NewIsFree DEF Send, RefInv, IndInv, TypeOK, ConnOK
  <2> QED
    BY <2>1, <2>2, NothingDecided
<1>3. ASSUME NEW k \in Conns, Serve(k) PROVE Contract!Next \/ UNCHANGED Contract!vars
  BY <1>3, ServeContract
<1>4. CASE Crash \/ Stopped
  <2>1. Exit
    BY <1>4 DEF Crash, Stopped
  <2>2. Decided' = [i \in Ids |-> Zero]
    BY <2>1 DEF Exit, Decided
  <2>3. Contract!Forget
    BY <2>1, <2>2 DEF Exit, Contract!Forget, ToldOutcomes
  <2> QED
    BY <2>3 DEF Contract!Next
<1>5. CASE Stop \/ StopListener \/ Start
  BY <1>5, NothingDecided DEF Stop, StopListener, Start
<1>6. CASE UNCHANGED vars
  BY <1>6, NothingDecided DEF vars, serverVars
<1> QED
  BY <1>1, <1>2, <1>3, <1>4, <1>5, <1>6 DEF Next, Client

(* Broker and daemon implement the contract of a request ID: one outcome    *)
(* for each, told to everyone who is told any.                              *)
THEOREM ContractKept == Spec => OneOutcome
<1>1. Init => RefInv
  <2> SUFFICES ASSUME Init PROVE RefInv
    OBVIOUS
  <2>1. OwnConn /\ AnswerStored
    BY DEF Init, OwnConn, AnswerStored, Away, Free
  <2> QED
    BY <2>1, InitInd DEF RefInv
<1>2. Init => Contract!Init
  BY DEF Init, Contract!Init, Decided, ToldOutcomes
<1> QED
  BY <1>1, <1>2, StepRef, StepContract, PTL DEF Spec, OneOutcome, Contract!Spec
-----------------------------------------------------------------------------
(* Whose answer it is *)

(* One call at a time writes the claim file of an ID. *)
OneClaims ==
    /\ \A c \in Callers :
          /\ At(c, "fill") => claim[caller[c].id] = "torn"
          /\ At(c, "flush") => claim[caller[c].id] = caller[c].payload
    /\ \A c, d \in Callers :
          /\ caller[c].pc \in {"fill", "flush"} /\ caller[d].pc \in {"fill", "flush"}
          /\ caller[c].id = caller[d].id
          => c = d

(* On Windows a lasting claim says which request an ID stands for: to the   *)
(* callers that got past it, on their connections and in the broker's cache. *)
ClaimAgrees ==
    provider = "windows" =>
        /\ \A c \in Callers :
              caller[c].pc \in {"hello", "send", "await"} /\ caller[c].id \notin unsafe
                => claim[caller[c].id] = caller[c].payload
        /\ \A k \in Conns :
              conn[k].st # "free" /\ conn[k].id \notin unsafe
                => claim[conn[k].id] = conn[k].payload
        /\ \A i \in Ids \ unsafe : requests[i] # Zero => requests[i].of = claim[i]

(* An outcome on its way is about the request of its connection; no request *)
(* ever waits for another one of its ID on Unix, where the mutex is held.   *)
OwnAnswers ==
    \A k \in Conns :
        /\ /\ conn[k].ans \in Outcome
           /\ provider = "unix" \/ conn[k].id \notin unsafe
           => conn[k].ans.of = conn[k].payload
        /\ provider = "unix" => conn[k].st # "wait"

(* The connection of a caller carries the caller's request. *)
OwnRequest ==
    \A c \in Callers : caller[c].conn # None =>
        conn[caller[c].conn].payload = caller[c].payload

AnswerInv ==
    RefInv /\ OneClaims /\ ClaimAgrees /\ OwnAnswers /\ OwnRequest /\ AnswerIsOwn

(* A caller's own step keeps the claims: only an ID that nobody relies on   *)
(* gets another claim.                                                      *)
LEMMA CallerOwn ==
    ASSUME AnswerInv, NEW c \in Callers,
           \/ \E r \in Request, b \in BOOLEAN : Call(c, r, b)
           \/ ClaimCreate(c) \/ ClaimFill(c) \/ ClaimFlush(c) \/ ClaimRead(c)
           \/ Hello(c) \/ GiveUp(c) \/ CallerDies(c)
    PROVE  OneClaims' /\ ClaimAgrees' /\ OwnRequest' /\ unsafe \subseteq unsafe'
           /\ UNCHANGED <<provider, conn, requests, answers>>
<1>1. /\ ClientOK /\ ServerOK /\ ConnOK /\ OneClaims /\ ClaimAgrees /\ OwnRequest
      /\ OwnConn /\ UNCHANGED <<conn, requests, answers>>
  BY CallerRef DEF AnswerInv, RefInv, IndInv, TypeOK
<1>2. None \notin Payloads /\ "torn" \notin Payloads
  BY ConstantsAssumption DEF ConstantsAssumption, None
<1>3. \A i \in Ids : requests[i] # Zero => requests[i].of \in Payloads
  BY <1>1 DEF ServerOK, Outcome
<1> DEFINE Leaves == caller' = [caller EXCEPT ![c] = Away]
           Goes(pc) == caller' = [caller EXCEPT ![c].pc = pc]
<1>4. ASSUME Leaves, UNCHANGED <<provider, claim, unsafe>>
      PROVE  OneClaims' /\ ClaimAgrees' /\ OwnRequest'
  BY <1>1, <1>4 DEF OneClaims, ClaimAgrees, OwnRequest, ClientOK, Away, At
<1>5. CASE \E r \in Request, b \in BOOLEAN : Call(c, r, b)
  BY <1>1, <1>5 DEF Call, Request, OneClaims, ClaimAgrees, OwnRequest, ClientOK,
     At, Processes
<1>6. CASE ClaimCreate(c)
  <2>1. CASE Leaves /\ UNCHANGED claim
    BY <1>1, <1>4, <1>6, <2>1 DEF ClaimCreate
  <2>2. CASE Goes("read") /\ UNCHANGED claim
    BY <1>1, <1>6, <2>2 DEF ClaimCreate, OneClaims, ClaimAgrees, OwnRequest,
       ClientOK, At, Processes
  <2>3. CASE /\ claim[caller[c].id] = None /\ Goes("fill")
             /\ claim' = [claim EXCEPT ![caller[c].id] = "torn"]
    <3>0. \A d \in Callers \ {c} :
              caller'[d] = caller[d] /\ (caller[d].pc \in {"fill", "flush"} => caller[d].id # caller[c].id)
      BY <1>1, <1>2, <2>3 DEF OneClaims, ClientOK, At, None
    <3>1. OneClaims'
      BY <1>1, <1>6, <2>3, <3>0 DEF ClaimCreate, OneClaims, ClientOK, At, Processes
    <3>2. ClaimAgrees'
      BY <1>1, <1>2, <1>3, <1>6, <2>3 DEF ClaimCreate, ClaimAgrees, ClientOK,
         ConnOK, At, Processes
    <3>3. OwnRequest'
      BY <1>1, <2>3 DEF OwnRequest, ClientOK, Processes
    <3> QED
      BY <1>1, <1>6, <3>1, <3>2, <3>3 DEF ClaimCreate
  <2> QED
    BY <1>6, <2>1, <2>2, <2>3 DEF ClaimCreate, Refused, Goto
<1>7. CASE ClaimFill(c)
  <2>1. claim[caller[c].id] = "torn" /\ caller[c].id \in Ids /\ caller[c].payload \in Payloads
    BY <1>1, <1>7 DEF ClaimFill, OneClaims, ClientOK, At
  <2>2. /\ \A d \in Callers :
              caller[d].pc \in {"hello", "send", "await"} /\ caller[d].id \notin unsafe
              /\ provider = "windows" => caller[d].id # caller[c].id
        /\ \A k \in Conns : conn[k].st # "free" /\ conn[k].id \notin unsafe
              /\ provider = "windows" => conn[k].id # caller[c].id
        /\ caller[c].id \notin unsafe /\ provider = "windows" => requests[caller[c].id] = Zero
    BY <1>1, <1>2, <1>3, <2>1 DEF ClaimAgrees, ClientOK, ConnOK, At
  <2>3. \A i \in Ids : i # caller[c].id => claim'[i] = claim[i]
    BY <1>1, <1>7 DEF ClaimFill, Unclaimed, ClientOK
  <2>4. claim' \in [Ids -> Payloads \cup {None, "torn"}]
    BY <1>1, <1>7, <2>1 DEF ClaimFill, Unclaimed, ClientOK
  <2>5. \A d \in Callers \ {c} :
            caller'[d] = caller[d] /\ (caller[d].pc \in {"fill", "flush"} => caller[d].id # caller[c].id)
    BY <1>1, <1>7 DEF ClaimFill, Refused, Goto, OneClaims, ClientOK, At
  <2>6. \/ caller'[c] = Away
        \/ /\ caller'[c].pc = "flush" /\ caller'[c].id = caller[c].id
           /\ caller'[c].payload = caller[c].payload /\ caller'[c].conn = caller[c].conn
           /\ claim'[caller[c].id] = caller[c].payload
    BY <1>1, <1>7, <2>1 DEF ClaimFill, Refused, Goto, ClientOK, Processes
  <2>7. OneClaims'
    BY <1>1, <2>3, <2>5, <2>6 DEF OneClaims, ClientOK, At, Away
  <2>8. ClaimAgrees'
    BY <1>1, <1>7, <2>2, <2>3, <2>5, <2>6
       DEF ClaimFill, ClaimAgrees, ClientOK, ConnOK, At, Away
  <2>9. OwnRequest'
    BY <1>1, <2>5, <2>6 DEF OwnRequest, Away
  <2> QED
    BY <1>1, <1>7, <2>7, <2>8, <2>9 DEF ClaimFill
<1>8. CASE ClaimFlush(c)
  <2>1. CASE Leaves /\ claim' \in Unclaimed(caller[c].id) /\ unsafe' = unsafe \cup {caller[c].id}
    <3>1. \A i \in Ids : i # caller[c].id => claim'[i] = claim[i]
      BY <1>1, <2>1 DEF Unclaimed, ClientOK
    <3>2. \A d \in Callers \ {c} :
              caller'[d] = caller[d] /\ (caller[d].pc \in {"fill", "flush"} => caller[d].id # caller[c].id)
      BY <1>1, <1>8, <2>1 DEF ClaimFlush, OneClaims, ClientOK, At
    <3>3. caller'[c] = Away
      BY <1>1, <2>1 DEF ClientOK
    <3>4. OneClaims'
      BY <1>1, <3>1, <3>2, <3>3 DEF OneClaims, ClientOK, At, Away
    <3>5. ClaimAgrees'
      BY <1>1, <1>8, <2>1, <3>1, <3>2, <3>3
         DEF ClaimFlush, ClaimAgrees, ClientOK, ConnOK, At, Away
    <3>6. OwnRequest'
      BY <1>1, <3>2, <3>3 DEF OwnRequest, Away
    <3> QED
      BY <1>1, <1>8, <2>1, <3>4, <3>5, <3>6 DEF ClaimFlush
  <2>2. CASE Goes(Connect(c, caller[c].payload)) /\ UNCHANGED <<claim, unsafe>>
    BY <1>1, <1>8, <2>2 DEF ClaimFlush, Connect, OneClaims, ClaimAgrees, OwnRequest,
       ClientOK, At, Processes
  <2> QED
    BY <1>8, <2>1, <2>2 DEF ClaimFlush, Refused, Goto
<1>9. CASE ClaimRead(c)
  <2>1. CASE Leaves
    BY <1>1, <1>4, <1>9, <2>1 DEF ClaimRead, clientVars
  <2>2. CASE ClaimMatches(c) /\ Goes(Connect(c, caller[c].payload))
    BY <1>1, <1>9, <2>2 DEF ClaimRead, ClaimMatches, Connect, clientVars, OneClaims,
       ClaimAgrees, OwnRequest, ClientOK, At, Processes
  <2> QED
    BY <1>9, <2>1, <2>2 DEF ClaimRead, Refused, Goto
<1>10. CASE Hello(c)
  <2>1. CASE Leaves
    BY <1>1, <1>4, <1>10, <2>1 DEF Hello, clientVars
  <2>2. CASE Goes("send")
    BY <1>1, <1>10, <2>2 DEF Hello, clientVars, OneClaims, ClaimAgrees, OwnRequest,
       ClientOK, At, Processes
  <2> QED
    BY <1>10, <2>1, <2>2 DEF Hello, Refused, Goto
<1>11. CASE GiveUp(c) \/ CallerDies(c)
  BY <1>1, <1>4, <1>11 DEF GiveUp, CallerDies, Refused, clientVars
<1> QED
  BY <1>5, <1>6, <1>7, <1>8, <1>9, <1>10, <1>11

(* A goroutine answers with the outcome of its own request. *)
LEMMA ServeOwn ==
    ASSUME AnswerInv, NEW k \in Conns,
           Lookup(k) \/ Execute(k) \/ Store(k) \/ Wake(k)
    PROVE  ClaimAgrees' /\ OwnAnswers' /\ OwnRequest'
           /\ UNCHANGED <<provider, claim, unsafe, caller, answers>>
<1>1. /\ ClientOK /\ ServerOK /\ ConnOK /\ OneServes /\ AnswerStored
      /\ ClaimAgrees /\ OwnAnswers /\ OwnRequest
  BY DEF AnswerInv, RefInv, IndInv, TypeOK
<1>2. UNCHANGED <<provider, claim, unsafe, caller, answers>>
  BY DEF Lookup, Execute, Store, Wake, clientVars
<1>3. conn[k].st # "free" /\ conn[k].id \in Ids /\ conn[k].payload \in Payloads
  BY <1>1 DEF Lookup, Execute, Store, Wake, ConnOK
<1>4. /\ \A j \in Conns \ {k} : conn'[j] = conn[j]
      /\ conn'[k].id = conn[k].id /\ conn'[k].payload = conn[k].payload
      /\ conn'[k].st # "free"
  BY <1>1 DEF Lookup, Execute, Store, Wake, Answer, ConnOK, Goroutines
<1>5. OwnRequest'
  BY <1>1, <1>2, <1>4 DEF OwnRequest, ClientOK, Processes
<1>6. \/ conn'[k].ans = conn[k].ans
      \/ conn'[k].ans = Refusal
      \/ conn'[k].ans = requests[conn[k].id] /\ (provider = "windows" \/ SamePayload(k))
      \/ conn'[k].ans.of = conn[k].payload
  <2>1. CASE Lookup(k)
    BY <1>1, <2>1 DEF Lookup, Answer, ConnOK, Goroutines
  <2>2. CASE Execute(k)
    BY <1>1, <2>2 DEF Execute, ConnOK, Goroutines
  <2>3. CASE Store(k)
    BY <1>1, <2>3 DEF Store, Answer, ConnOK, Goroutines
  <2>4. CASE Wake(k)
    <3>1. provider = "windows"
      BY <1>1, <2>4 DEF Wake, OwnAnswers, ClientOK
    <3> QED
      BY <1>1, <2>4, <3>1 DEF Wake, Answer, ConnOK, Goroutines
  <2> QED
    BY <2>1, <2>2, <2>3, <2>4
<1>7. OwnAnswers'
  <2>1. provider = "unix" => conn'[k].st # "wait"
    BY <1>1 DEF Lookup, Execute, Store, Wake, Answer, LockFree, ConnOK, Goroutines
  <2>2. /\ conn'[k].ans \in Outcome
        /\ provider = "unix" \/ conn[k].id \notin unsafe
        => conn'[k].ans.of = conn[k].payload
    <3> SUFFICES ASSUME conn'[k].ans \in Outcome,
                        provider = "unix" \/ conn[k].id \notin unsafe
                 PROVE  conn'[k].ans.of = conn[k].payload
      OBVIOUS
    <3>1. CASE conn'[k].ans = conn[k].ans
      BY <1>1, <3>1 DEF OwnAnswers
    <3>2. CASE conn'[k].ans = Refusal
      BY <3>2, Kinds
    <3>3. CASE conn'[k].ans = requests[conn[k].id] /\ (provider = "windows" \/ SamePayload(k))
      <4>1. CASE provider = "windows"
        BY <1>1, <1>3, <3>3, <4>1, Kinds DEF ClaimAgrees
      <4>2. CASE provider = "unix"
        BY <3>3, <4>2 DEF SamePayload
      <4> QED
        BY <1>1, <4>1, <4>2 DEF ClientOK
    <3> QED
      BY <1>6, <3>1, <3>2, <3>3
  <2> QED
    BY <1>1, <1>2, <1>4, <2>1, <2>2 DEF OwnAnswers
<1>8. ClaimAgrees'
  <2>1. \A i \in Ids : \/ requests'[i] = requests[i]
                       \/ conn[k].st = "store" /\ i = conn[k].id /\ requests'[i] = conn[k].ans
    BY <1>1 DEF Lookup, Execute, Store, Wake, Recorded, ServerOK, serverVars
  <2>2. conn[k].st = "store" => conn[k].ans \in Outcome
    BY <1>1 DEF OneServes
  <2>3. conn[k].id \notin unsafe /\ provider = "windows" /\ conn[k].st = "store" =>
            conn[k].ans.of = claim[conn[k].id]
    BY <1>1, <1>3, <2>2 DEF OwnAnswers, ClaimAgrees
  <2> QED
    BY <1>1, <1>2, <1>3, <1>4, <2>1, <2>3 DEF ClaimAgrees
<1> QED
  BY <1>2, <1>5, <1>7, <1>8

(* What a caller is told is about its own request. *)
LEMMA ToldOwn ==
    ASSUME AnswerInv, NEW k \in Conns, Respond(k)
    PROVE  OneClaims' /\ ClaimAgrees' /\ OwnAnswers' /\ OwnRequest' /\ AnswerIsOwn'
<1>1. /\ ClientOK /\ ServerOK /\ ConnOK /\ OwnConn /\ OneClaims
      /\ ClaimAgrees /\ OwnAnswers /\ OwnRequest /\ AnswerIsOwn
  BY DEF AnswerInv, RefInv, IndInv, TypeOK
<1>2. UNCHANGED <<provider, claim, unsafe, requests>>
  BY DEF Respond, clientVars, serverVars
<1>3. \A j \in Conns : conn'[j] = IF j = k THEN Free ELSE conn[j]
  BY <1>1 DEF Respond, ConnOK
<1>4. \A d \in Callers : caller'[d] = Away \/ (caller'[d] = caller[d] /\ caller[d].conn # k)
  <2>1. CASE UNCHANGED caller /\ \A c \in Callers : caller[c].conn # k
    BY <2>1
  <2>2. ASSUME NEW c \in Callers, caller[c].conn = k, caller' = [caller EXCEPT ![c] = Away]
        PROVE  \A d \in Callers : caller'[d] = Away \/ (caller'[d] = caller[d] /\ caller[d].conn # k)
    BY <1>1, <2>2, Constants DEF OwnConn, ClientOK
  <2> QED
    BY <2>1, <2>2 DEF Respond
<1>5. OneClaims'
  BY <1>1, <1>2, <1>4 DEF OneClaims, At, Away
<1>6. ClaimAgrees'
  BY <1>1, <1>2, <1>3, <1>4 DEF ClaimAgrees, Away, Free
<1>7. OwnAnswers'
  BY <1>1, <1>2, <1>3, Kinds DEF OwnAnswers, Free
<1>8. OwnRequest'
  BY <1>1, <1>3, <1>4 DEF OwnRequest, ClientOK, Processes, Away
<1>9. AnswerIsOwn'
  <2>1. CASE UNCHANGED answers
    BY <1>1, <1>2, <2>1 DEF AnswerIsOwn
  <2>2. ASSUME NEW c \in Callers, caller[c].conn = k,
               answers' = answers \cup Told(c, Translated(c, conn[k].ans))
        PROVE  AnswerIsOwn'
    <3>1. conn[k].id = caller[c].id /\ conn[k].payload = caller[c].payload
      BY <1>1, <2>2, Constants DEF OwnConn, OwnRequest
    <3>2. ASSUME NEW a \in Told(c, Translated(c, conn[k].ans)),
                 a.ans.kind = "ok", a.adapted,
                 a.id \notin unsafe \/ (a.payload \in Acquires /\ a.ans.of \in Leased)
          PROVE  a.ans.of = a.payload
      <4>1. Translated(c, conn[k].ans) # Refusal
        BY DEF Told
      <4>2. Translated(c, conn[k].ans) = conn[k].ans
        BY <4>1 DEF Translated
      <4>3. a = [id |-> caller[c].id, payload |-> caller[c].payload,
                 adapted |-> caller[c].adapted, ans |-> conn[k].ans]
        BY <4>1, <4>2 DEF Told
      <4>4. /\ a.id = caller[c].id /\ a.payload = caller[c].payload
            /\ a.adapted = caller[c].adapted /\ a.ans = conn[k].ans
        BY <4>3
      <4>5. conn[k].ans \in Outcome
        BY <1>1, <3>2, <4>4 DEF ConnOK, Goroutines, Zero, Refusal
      <4>6. CASE provider = "unix" \/ conn[k].id \notin unsafe
        BY <1>1, <3>1, <4>4, <4>5, <4>6 DEF OwnAnswers
      <4>7. CASE provider = "windows" /\ conn[k].id \in unsafe
        <5>1. Claims(c) /\ caller[c].payload \in Acquires /\ conn[k].ans.of \in Leased
          BY <3>1, <3>2, <4>4, <4>7 DEF Claims
        <5>2. conn[k].ans.kind = "ok"
          BY <3>2, <4>4
        <5>3. conn[k].ans.of = caller[c].payload
          BY <4>1, <5>1, <5>2 DEF Translated
        <5> QED
          BY <4>4, <5>3
      <4> QED
        BY <1>1, <4>6, <4>7 DEF ClientOK
    <3> QED
      BY <1>1, <1>2, <2>2, <3>2 DEF AnswerIsOwn
  <2> QED
    BY <2>1, <2>2 DEF Respond
<1> QED
  BY <1>5, <1>6, <1>7, <1>8, <1>9

(* A request sent on a new connection carries the caller's payload. *)
LEMMA SendOwn ==
    ASSUME AnswerInv, NEW c \in Callers, Send(c)
    PROVE  OneClaims' /\ ClaimAgrees' /\ OwnAnswers' /\ OwnRequest' /\ AnswerIsOwn'
<1>1. /\ ClientOK /\ ServerOK /\ ConnOK /\ OwnConn /\ OneClaims
      /\ ClaimAgrees /\ OwnAnswers /\ OwnRequest /\ AnswerIsOwn
  BY DEF AnswerInv, RefInv, IndInv, TypeOK
<1>2. UNCHANGED <<provider, claim, unsafe, requests, answers>>
  BY DEF Send, Refused, clientVars
<1>3. AnswerIsOwn'
  BY <1>1, <1>2 DEF AnswerIsOwn
<1>4. At(c, "send") /\ caller[c].id \in Ids /\ caller[c].payload \in Payloads
  BY <1>1 DEF Send, ClientOK, At
<1>5. CASE caller' = [caller EXCEPT ![c] = Away] /\ UNCHANGED conn
  <2>1. OneClaims' /\ ClaimAgrees'
    BY <1>1, <1>2, <1>5 DEF OneClaims, ClaimAgrees, ClientOK, At, Away
  <2>2. OwnAnswers' /\ OwnRequest'
    BY <1>1, <1>2, <1>5 DEF OwnAnswers, OwnRequest, ClientOK, Away
  <2> QED
    BY <1>3, <2>1, <2>2
<1>6. ASSUME NEW k \in Conns, k = NewConn,
             conn' = [conn EXCEPT ![k] = [st |-> "received", id |-> caller[c].id,
                                          payload |-> caller[c].payload, ans |-> Zero]],
             \/ caller' = [caller EXCEPT ![c].pc = "await", ![c].conn = k]
             \/ caller' = [caller EXCEPT ![c] = Away]
      PROVE  OneClaims' /\ ClaimAgrees' /\ OwnAnswers' /\ OwnRequest'
  <2>1. conn[k].st = "free"
    BY <1>6, NewIsFree
  <2>2. \A d \in Callers : caller[d].conn # k
    BY <1>1, <1>6, <2>1, Constants DEF OwnConn
  <2>3. /\ \A j \in Conns \ {k} : conn'[j] = conn[j]
        /\ conn'[k] = [st |-> "received", id |-> caller[c].id,
                       payload |-> caller[c].payload, ans |-> Zero]
    BY <1>1, <1>6 DEF ConnOK
  <2>4. /\ \A d \in Callers \ {c} : caller'[d] = caller[d]
        /\ \/ caller'[c] = Away
           \/ /\ caller'[c].pc = "await" /\ caller'[c].conn = k
              /\ caller'[c].id = caller[c].id /\ caller'[c].payload = caller[c].payload
    BY <1>1, <1>6 DEF ClientOK, Processes
  <2>5. OneClaims'
    BY <1>1, <1>2, <2>4 DEF OneClaims, At, Away
  <2>6. ClaimAgrees'
    BY <1>1, <1>2, <1>4, <2>3, <2>4 DEF ClaimAgrees, At, Away
  <2>7. OwnAnswers'
    BY <1>1, <1>2, <2>3, Kinds DEF OwnAnswers
  <2>8. OwnRequest'
    BY <1>1, <2>2, <2>3, <2>4 DEF OwnRequest, ClientOK, Processes, Away
  <2> QED
    BY <2>5, <2>6, <2>7, <2>8
<1> QED
  BY <1>3, <1>5, <1>6 DEF Send, Refused

(* When the server ends, its memory goes and the claims stay. *)
LEMMA LifeOwn ==
    ASSUME AnswerInv, Crash \/ Stop \/ StopListener \/ Stopped \/ Start
    PROVE  OneClaims' /\ ClaimAgrees' /\ OwnAnswers' /\ OwnRequest' /\ AnswerIsOwn'
<1>1. /\ ClientOK /\ ServerOK /\ ConnOK /\ OwnConn /\ OneClaims
      /\ ClaimAgrees /\ OwnAnswers /\ OwnRequest /\ AnswerIsOwn
  BY DEF AnswerInv, RefInv, IndInv, TypeOK
<1>2. UNCHANGED <<provider, claim, unsafe, answers>>
  BY DEF Crash, Stop, StopListener, Stopped, Start, Exit, clientVars
<1>3. AnswerIsOwn'
  BY <1>1, <1>2 DEF AnswerIsOwn
<1>4. CASE Exit
  <2>1. \A c \in Callers : caller'[c] = Away \/ (caller'[c] = caller[c] /\ ~At(c, "await"))
    BY <1>4 DEF Exit
  <2>2. OneClaims'
    BY <1>1, <1>2, <2>1 DEF OneClaims, At, Away
  <2>3. ClaimAgrees'
    BY <1>1, <1>2, <1>4, <2>1 DEF Exit, ClaimAgrees, Away, Free
  <2>4. OwnAnswers'
    BY <1>4, Kinds DEF Exit, OwnAnswers, Free
  <2>5. OwnRequest'
    BY <1>1, <2>1 DEF OwnRequest, OwnConn, Away
  <2> QED
    BY <1>3, <2>2, <2>3, <2>4, <2>5
<1>5. CASE UNCHANGED <<requests, conn, caller>>
  BY <1>1, <1>2, <1>3, <1>5 DEF OneClaims, ClaimAgrees, OwnAnswers, OwnRequest, At
<1> QED
  BY <1>4, <1>5 DEF Crash, Stop, StopListener, Stopped, Start

(* Every step keeps AnswerInv. *)
LEMMA StepOwn == AnswerInv /\ [Next]_vars => AnswerInv'
<1> SUFFICES ASSUME AnswerInv, [Next]_vars PROVE AnswerInv'
  OBVIOUS
<1>0. RefInv' /\ RefInv /\ OneClaims /\ ClaimAgrees /\ OwnAnswers /\ OwnRequest /\ AnswerIsOwn
  BY StepRef DEF AnswerInv
<1>1. ASSUME NEW c \in Callers,
             \/ \E r \in Request, b \in BOOLEAN : Call(c, r, b)
             \/ ClaimCreate(c) \/ ClaimFill(c) \/ ClaimFlush(c) \/ ClaimRead(c)
             \/ Hello(c) \/ GiveUp(c) \/ CallerDies(c)
      PROVE  AnswerInv'
  <2>1. OneClaims' /\ ClaimAgrees' /\ OwnRequest' /\ unsafe \subseteq unsafe'
        /\ UNCHANGED <<provider, conn, requests, answers>>
    BY <1>1, CallerOwn
  <2>2. OwnAnswers' /\ AnswerIsOwn'
    BY <1>0, <2>1 DEF OwnAnswers, AnswerIsOwn
  <2> QED
    BY <1>0, <2>1, <2>2 DEF AnswerInv
<1>2. ASSUME NEW c \in Callers, Send(c) PROVE AnswerInv'
  BY <1>0, <1>2, SendOwn DEF AnswerInv
<1>3. ASSUME NEW k \in Conns, Lookup(k) \/ Execute(k) \/ Store(k) \/ Wake(k)
      PROVE  AnswerInv'
  <2>1. ClaimAgrees' /\ OwnAnswers' /\ OwnRequest'
        /\ UNCHANGED <<provider, claim, unsafe, caller, answers>>
    BY <1>3, ServeOwn
  <2>2. OneClaims' /\ AnswerIsOwn'
    BY <1>0, <2>1 DEF OneClaims, AnswerIsOwn, At
  <2> QED
    BY <1>0, <2>1, <2>2 DEF AnswerInv
<1>4. ASSUME NEW k \in Conns, Respond(k) PROVE AnswerInv'
  BY <1>0, <1>4, ToldOwn DEF AnswerInv
<1>5. CASE Crash \/ Stop \/ StopListener \/ Stopped \/ Start
  BY <1>0, <1>5, LifeOwn DEF AnswerInv
<1>6. CASE UNCHANGED vars
  BY <1>0, <1>6 DEF AnswerInv, vars, serverVars, clientVars, OneClaims, ClaimAgrees,
     OwnAnswers, OwnRequest, AnswerIsOwn, At
<1> QED
  BY <1>1, <1>2, <1>3, <1>4, <1>5, <1>6 DEF Next, Client, Serve

(* A schema-2 caller that is told OK is told so about its own request,      *)
(* however IDs are repeated with other payloads by callers that race for    *)
(* the claim file, die while they write it or come back after a restart.    *)
THEOREM AnswersAreOwn == Spec => []AnswerIsOwn
<1>1. Init => AnswerInv
  <2> SUFFICES ASSUME Init PROVE AnswerInv
    OBVIOUS
  <2>1. OwnConn /\ AnswerStored
    BY DEF Init, OwnConn, AnswerStored, Away, Free
  <2>2. OneClaims /\ ClaimAgrees
    BY DEF Init, OneClaims, ClaimAgrees, At, Away, Free
  <2>3. OwnAnswers /\ OwnRequest /\ AnswerIsOwn
    BY Kinds DEF Init, OwnAnswers, OwnRequest, AnswerIsOwn, Away, Free
  <2> QED
    BY <2>1, <2>2, <2>3, InitInd DEF AnswerInv, RefInv
<1>2. AnswerInv => AnswerIsOwn
  BY DEF AnswerInv
<1> QED
  BY <1>1, <1>2, StepOwn, PTL DEF Spec
=============================================================================
