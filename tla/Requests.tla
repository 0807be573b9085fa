------------------------------ MODULE Requests ------------------------------
(***************************************************************************)
(* A schema-2 request on its way from a caller to its single execution.     *)
(*                                                                          *)
(* contract/v2/windows_adapter.go       claim file, hello, translation      *)
(* workspace/pipe_windows.go            named pipe client and server        *)
(* workspace/broker.go                  Handle: cached and running requests *)
(* internal/workspaced/server_unix.go   socket client and server            *)
(* internal/workspaced/manager_unix.go  Handle: cached requests, one mutex  *)
(*                                                                          *)
(* The provider is the platform the process was built for.  Callers are     *)
(* processes: they race for the claim file of an ID, lose their connection, *)
(* give up, die in the middle and repeat an ID with the same or another     *)
(* payload.  Every connection has a goroutine of its own, which goes on     *)
(* when its caller is gone.  An execution is one step here; modules         *)
(* UnixLeases, UnixParents, BrokerLeases and BrokerParents take it apart.   *)
(***************************************************************************)
EXTENDS Naturals

CONSTANTS Callers,    \* client processes
          Ids,        \* request IDs (valid ones; others are refused unserved)
          Payloads,   \* requests without their ID
          Acquires,   \* workspace-acquire requests
          Leased,     \* requests answered with a lease, each with another one
          Begins,     \* parent-begin requests
          Legacy,     \* those the broker's own client makes on Windows, too
          Conns,      \* connections; bound on the goroutines at work
          IOFaults,   \* whether a system call may fail
          MaxCalls,   \* bound on the calls that are made
          MaxCrashes  \* bound on the restarts of the server

ASSUME ConstantsAssumption ==
    /\ Leased \subseteq Payloads /\ Acquires \subseteq Leased
    /\ Begins \subseteq Payloads \ Leased
    /\ Legacy \subseteq Payloads
    /\ {"none", "torn"} \cap Payloads = {}
    /\ "none" \notin Conns
    /\ IOFaults \in BOOLEAN
    /\ MaxCalls \in Nat /\ MaxCrashes \in Nat

VARIABLES
    provider,   \* "windows" or "unix"
    claim,      \* the claim file of an ID: absent, half written or a payload
    server,     \* "up", "stopping" (listener still open), "draining", "down"
    requests,   \* Broker.requests or Manager.requests: the outcome of an ID
    inflight,   \* the connection that executes an ID
    conn,       \* the goroutines of the connections
    caller,     \* the callers' program counters and requests
    \* history
    executed,   \* how often the server has executed each ID
    answers,    \* outcomes callers were told
    unsafe,     \* IDs used without a lasting claim
    calls, crashes

clientVars  == <<claim, unsafe, calls>>
serverVars  == <<requests, inflight, server, executed, crashes>>
vars == <<provider, clientVars, serverVars, conn, caller, answers>>

None == "none"

Outcome == [kind : {"ok", "fail"}, of : Payloads]
\* The zero Response, and the errors that are not an execution's outcome.
Zero    == [kind |-> "zero", of |-> None]
Refusal == [kind |-> "refused", of |-> None]

Request == [id : Ids, payload : Payloads]

Away == [pc |-> "idle", id |-> None, payload |-> None, adapted |-> TRUE,
         conn |-> None]
Free == [st |-> "free", id |-> None, payload |-> None, ans |-> Zero]

Init ==
    /\ provider \in {"windows", "unix"}
    /\ claim = [i \in Ids |-> None]
    /\ server = "up"
    /\ requests = [i \in Ids |-> Zero]
    /\ inflight = [i \in Ids |-> None]
    /\ conn = [k \in Conns |-> Free]
    /\ caller = [c \in Callers |-> Away]
    /\ executed = [i \in Ids |-> 0] /\ answers = {} /\ unsafe = {}
    /\ calls = 0 /\ crashes = 0

At(c, pc) == caller[c].pc = pc

Goto(c, pc) == caller' = [caller EXCEPT ![c].pc = pc]

(* Call returns an error that is not the outcome of an execution: a claim   *)
(* or a connection that failed, or another use of the ID.                   *)
Refused(c) ==
    /\ caller' = [caller EXCEPT ![c] = Away]
    /\ UNCHANGED answers

-----------------------------------------------------------------------------
(* The Windows adapter: one claim file for each request ID *)

Claims(c) == provider = "windows" /\ caller[c].adapted

Connect(c, p) == IF Claims(c) /\ p \in Begins THEN "hello" ELSE "send"

(* A call of the adapter or of the socket client, or on Windows one of the  *)
(* broker's own client, which makes no claim.                               *)
Call(c, r, adapted) ==
    /\ At(c, "idle") /\ calls < MaxCalls
    /\ adapted \/ (r.payload \in Legacy /\ provider = "windows")
    /\ caller' = [caller EXCEPT ![c] =
                    [pc |-> IF provider = "windows" /\ adapted
                            THEN "claim" ELSE "send",
                     id |-> r.id, payload |-> r.payload, adapted |-> adapted,
                     conn |-> None]]
    /\ calls' = calls + 1
    /\ unsafe' = IF adapted THEN unsafe ELSE unsafe \cup {r.id}
    /\ UNCHANGED <<provider, claim, serverVars, conn, answers>>

(* WriteExclusiveDurable: create. *)
ClaimCreate(c) ==
    LET i == caller[c].id
    IN  /\ At(c, "claim")
        /\ \/ /\ claim[i] = None
              /\ claim' = [claim EXCEPT ![i] = "torn"]
              /\ Goto(c, "fill") /\ UNCHANGED answers
           \/ claim[i] # None /\ Goto(c, "read") /\ UNCHANGED <<claim, answers>>
           \/ IOFaults /\ Refused(c) /\ UNCHANGED claim
        /\ UNCHANGED <<provider, serverVars, conn, unsafe, calls>>

(* A failed write, flush, close or read-back removes the claim again, and a *)
(* failure to remove it is ignored.                                         *)
Unclaimed(i) == {[claim EXCEPT ![i] = x] : x \in {None, claim[i]}}

(* Write. *)
ClaimFill(c) ==
    LET i == caller[c].id
    IN  /\ At(c, "fill")
        /\ \/ /\ claim' = [claim EXCEPT ![i] = caller[c].payload]
              /\ Goto(c, "flush") /\ UNCHANGED answers
           \/ /\ IOFaults
              /\ claim' \in Unclaimed(i)
              /\ Refused(c)
        /\ UNCHANGED <<provider, serverVars, conn, unsafe, calls>>

(* Flush, close and read back: others may have read the claim already. *)
ClaimFlush(c) ==
    LET i == caller[c].id
    IN  /\ At(c, "flush")
        /\ \/ /\ Goto(c, Connect(c, caller[c].payload))
              /\ UNCHANGED <<claim, unsafe, answers>>
           \/ /\ IOFaults
              /\ claim' \in Unclaimed(i)
              /\ unsafe' = unsafe \cup {i}
              /\ Refused(c)
        /\ UNCHANGED <<provider, serverVars, conn, calls>>

ClaimMatches(c) == claim[caller[c].id] = caller[c].payload

(* The claim of another call: 50 attempts to read it, while it may be half  *)
(* written or vanish.                                                       *)
ClaimRead(c) ==
    /\ At(c, "read")
    /\ \/ ClaimMatches(c) /\ Goto(c, Connect(c, caller[c].payload))
          /\ UNCHANGED answers
       \/ /\ claim[caller[c].id] \in Payloads /\ ~ClaimMatches(c)
          /\ Refused(c)
       \/ /\ claim[caller[c].id] \in {None, "torn"} \/ IOFaults
          /\ Refused(c)
    /\ UNCHANGED <<provider, clientVars, serverVars, conn>>

(* parent-begin first asks the broker for the workspace root, under an ID   *)
(* of its own, and makes the staging workspace there.                       *)
Hello(c) ==
    /\ At(c, "hello")
    /\ \/ server \in {"up", "stopping"} /\ Goto(c, "send") /\ UNCHANGED answers
       \/ /\ server # "up" \/ IOFaults
          /\ Refused(c)
    /\ UNCHANGED <<provider, clientVars, serverVars, conn>>

-----------------------------------------------------------------------------
(* Pipe and socket *)

(* A connection that is not in use; which one does not matter. *)
NewConn ==
    LET free == {k \in Conns : conn[k] = Free}
    IN  IF free = {} THEN None ELSE CHOOSE k \in free : TRUE

(* PipeClient.Call and SocketClient.Call up to the written request.  The    *)
(* pipe client waits for a pipe for five seconds and tries again when       *)
(* nothing was written; an error after that leaves open whether the server  *)
(* has the request.                                                         *)
Send(c) ==
    /\ At(c, "send")
    /\ \/ /\ server \in {"up", "stopping"}
          /\ server' = IF server = "up" THEN "up" ELSE "draining"
          /\ \E k \in Conns :
                /\ k = NewConn
                /\ conn' = [conn EXCEPT ![k] = [st |-> "received",
                               id |-> caller[c].id, payload |-> caller[c].payload,
                               ans |-> Zero]]
                /\ \/ caller' = [caller EXCEPT ![c].pc = "await", ![c].conn = k]
                      /\ UNCHANGED answers
                   \/ IOFaults /\ Refused(c)
       \/ /\ server # "up" \/ IOFaults
          /\ Refused(c)
          /\ UNCHANGED <<server, conn>>
    /\ UNCHANGED <<provider, clientVars, requests, inflight, executed, crashes>>

(* The socket has a deadline of 30 seconds; reading from a pipe has none    *)
(* and does not look at the context.                                        *)
GiveUp(c) ==
    /\ At(c, "await") /\ provider = "unix"
    /\ Refused(c)
    /\ UNCHANGED <<provider, clientVars, serverVars, conn>>

CallerDies(c) ==
    /\ ~At(c, "idle")
    /\ caller' = [caller EXCEPT ![c] = Away]
    /\ UNCHANGED <<provider, clientVars, serverVars, conn, answers>>

Mutant_Translated(c, ans) == ans

(* translateWindowsResponse: an acquire checks the lease it is given. *)
Translated(c, ans) ==
    IF /\ Claims(c) /\ caller[c].payload \in Acquires
       /\ ans.kind = "ok" /\ ans.of \in Leased /\ ans.of # caller[c].payload
    THEN Refusal ELSE ans

Told(c, ans) ==
    IF ans = Refusal THEN {}
    ELSE {[id |-> caller[c].id, payload |-> caller[c].payload,
           adapted |-> caller[c].adapted, ans |-> ans]}

(* The goroutine writes the response and closes the connection. *)
Respond(k) ==
    /\ conn[k].st = "answer"
    /\ conn' = [conn EXCEPT ![k] = Free]
    /\ \/ \E c \in Callers :
             /\ caller[c].conn = k
             /\ caller' = [caller EXCEPT ![c] = Away]
             /\ answers' = answers \cup Told(c, Translated(c, conn[k].ans))
       \/ /\ \A c \in Callers : caller[c].conn # k
          /\ UNCHANGED <<caller, answers>>
    /\ UNCHANGED <<provider, clientVars, serverVars>>

-----------------------------------------------------------------------------
(* Broker.Handle and Manager.Handle *)

Answer(k, ans) == conn' = [conn EXCEPT ![k].st = "answer", ![k].ans = ans]

Mutant_Running(i) == FALSE

(* A request of this ID is being executed. *)
Running(i) == inflight[i] # None

(* Manager.mu is held for the whole request; Broker.mu only for the maps.   *)
LockFree == provider = "windows" \/ \A i \in Ids : ~Running(i)

(* The manager compares the whole request, the broker leaves that to the    *)
(* adapter's claims.                                                        *)
SamePayload(k) ==
    provider = "windows" \/ requests[conn[k].id].of = conn[k].payload

Lookup(k) ==
    LET i == conn[k].id
    IN  /\ conn[k].st = "received" /\ LockFree
        /\ \/ /\ requests[i] # Zero
              /\ Answer(k, IF SamePayload(k) THEN requests[i] ELSE Refusal)
              /\ UNCHANGED inflight
           \/ /\ requests[i] = Zero /\ Running(i)
              /\ conn' = [conn EXCEPT ![k].st = "wait"]
              /\ UNCHANGED inflight
           \/ /\ requests[i] = Zero /\ ~Running(i)
              /\ inflight' = [inflight EXCEPT ![i] = k]
              /\ conn' = [conn EXCEPT ![k].st = "run"]
        /\ UNCHANGED <<provider, clientVars, requests, server, executed, crashes,
                       caller, answers>>

(* handleLocked, handle: the operation itself, successful or not. *)
Execute(k) ==
    /\ conn[k].st = "run"
    /\ executed' = [executed EXCEPT ![conn[k].id] = @ + 1]
    /\ \E kind \in {"ok", "fail"} :
          conn' = [conn EXCEPT ![k].st = "store",
                               ![k].ans = [kind |-> kind, of |-> conn[k].payload]]
    /\ UNCHANGED <<provider, clientVars, requests, inflight, server, crashes,
                   caller, answers>>

Mutant_Recorded_successes(ans) == IF ans.kind = "ok" THEN ans ELSE Zero

(* Failures are kept like successes. *)
Recorded(ans) == ans

Mutant_Closed(i) == inflight

(* delete(inflight) and close(wait); the manager unlocks. *)
Closed(i) == [inflight EXCEPT ![i] = None]

Store(k) ==
    LET i == conn[k].id
    IN  /\ conn[k].st = "store"
        /\ requests' = [requests EXCEPT ![i] = Recorded(conn[k].ans)]
        /\ inflight' = Closed(i)
        /\ Answer(k, conn[k].ans)
        /\ UNCHANGED <<provider, clientVars, server, executed, crashes, caller,
                       answers>>

(* A duplicate wakes up: on the closed channel, or on the end of the        *)
(* server's context.                                                        *)
Wake(k) ==
    /\ conn[k].st = "wait"
    /\ \/ ~Running(conn[k].id) /\ Answer(k, requests[conn[k].id])
       \/ server \in {"stopping", "draining"} /\ Answer(k, Refusal)
    /\ UNCHANGED <<provider, clientVars, serverVars, caller, answers>>

-----------------------------------------------------------------------------
(* The life of the server *)

(* The process is gone, and with it its memory and its connections: every   *)
(* caller that waits reads the end of the file.                             *)
Exit ==
    /\ server' = "down"
    /\ requests' = [i \in Ids |-> Zero]
    /\ inflight' = [i \in Ids |-> None]
    /\ executed' = [i \in Ids |-> 0]
    /\ conn' = [k \in Conns |-> Free]
    /\ caller' = [c \in Callers |-> IF At(c, "await") THEN Away ELSE caller[c]]
    /\ UNCHANGED <<provider, clientVars, crashes, answers>>

(* Killed; or, on Unix, stopped: Serve returns without waiting. *)
Crash ==
    /\ server # "down" /\ crashes < MaxCrashes
    /\ Exit

(* The service is stopped: the context ends, and a connection of its own    *)
(* wakes the listener up.                                                   *)
Stop ==
    /\ provider = "windows" /\ server = "up" /\ crashes < MaxCrashes
    /\ server' = "stopping"
    /\ UNCHANGED <<provider, clientVars, requests, inflight, executed, crashes,
                   conn, caller, answers>>

StopListener ==
    /\ server = "stopping"
    /\ server' = "draining"
    /\ UNCHANGED <<provider, clientVars, requests, inflight, executed, crashes,
                   conn, caller, answers>>

(* All goroutines have ended, or the ten seconds are over (Crash). *)
Stopped ==
    /\ server = "draining" /\ \A k \in Conns : conn[k] = Free
    /\ Exit

Start ==
    /\ server = "down"
    /\ server' = "up"
    /\ crashes' = crashes + 1
    /\ UNCHANGED <<provider, clientVars, requests, inflight, executed, conn,
                   caller, answers>>

-----------------------------------------------------------------------------
Client(c) ==
    \/ ClaimCreate(c) \/ ClaimFill(c) \/ ClaimFlush(c) \/ ClaimRead(c)
    \/ Hello(c) \/ Send(c)

Serve(k) == Lookup(k) \/ Execute(k) \/ Store(k) \/ Wake(k) \/ Respond(k)

Next ==
    \/ \E c \in Callers, r \in Request, b \in BOOLEAN : Call(c, r, b)
    \/ \E c \in Callers : Client(c) \/ GiveUp(c) \/ CallerDies(c)
    \/ \E k \in Conns : Serve(k)
    \/ Crash \/ Stop \/ StopListener \/ Stopped \/ Start

Spec == Init /\ [][Next]_vars

(* A process that is not killed goes on: callers in their call, goroutines  *)
(* in their request, a stopping service towards its end.                    *)
FairSpec ==
    /\ Spec
    /\ \A c \in Callers : WF_vars(Client(c))
    /\ \A k \in Conns : WF_vars(Serve(k))
    /\ WF_vars(StopListener \/ Stopped)

-----------------------------------------------------------------------------
(* Properties *)

Goroutines ==
    [st : {"free", "received", "wait", "run", "store", "answer"},
     id : Ids \cup {None}, payload : Payloads \cup {None},
     ans : Outcome \cup {Zero, Refusal}]

Processes ==
    [pc : {"idle", "claim", "fill", "flush", "read", "hello", "send", "await"},
     id : Ids \cup {None}, payload : Payloads \cup {None},
     adapted : BOOLEAN, conn : Conns \cup {None}]

ClientOK ==
    /\ provider \in {"windows", "unix"}
    /\ claim \in [Ids -> Payloads \cup {None, "torn"}]
    /\ unsafe \subseteq Ids /\ calls \in 0..MaxCalls
    /\ caller \in [Callers -> Processes]
    /\ \A c \in Callers : ~At(c, "idle") =>
          caller[c].id \in Ids /\ caller[c].payload \in Payloads

ServerOK ==
    /\ server \in {"up", "stopping", "draining", "down"}
    /\ requests \in [Ids -> Outcome \cup {Zero}]
    /\ inflight \in [Ids -> Conns \cup {None}]
    /\ executed \in [Ids -> Nat] /\ crashes \in 0..MaxCrashes

ConnOK ==
    /\ conn \in [Conns -> Goroutines]
    /\ \A k \in Conns : conn[k].st # "free" =>
          conn[k].id \in Ids /\ conn[k].payload \in Payloads

(* The types of the variables; whoever is at work has a request, and an     *)
(* entry of the response cache is the outcome of an execution.              *)
TypeOK == ClientOK /\ ServerOK /\ ConnOK

(* A server executes a request ID at most once, however often the request   *)
(* is repeated while it runs or afterwards, by callers that gave up, died   *)
(* or never saw the answer.                                                 *)
AtMostOnce == \A i \in Ids : executed[i] <= 1

(* A schema-2 caller that is told OK is told so about its own request.  On  *)
(* Windows this rests on the claim of the ID, or, for an acquire, on the    *)
(* lease in the answer; on Unix on the comparison with the cached request.  *)
AnswerIsOwn ==
    \A a \in answers :
        /\ a.ans.kind = "ok"
        /\ a.adapted
        /\ \/ a.id \notin unsafe
           \/ a.payload \in Acquires /\ a.ans.of \in Leased
        => a.ans.of = a.payload

(* No call of a caller that lives hangs: duplicates are woken up, and a     *)
(* server that stops or dies ends the calls it had.                         *)
CallEnds == \A c \in Callers : ~At(c, "idle") ~> At(c, "idle")

(* What an ID stands for: the outcome of its execution, from its end on. *)
Decided ==
    [i \in Ids |->
        IF inflight[i] # None /\ conn[inflight[i]].st = "store"
        THEN conn[inflight[i]].ans ELSE requests[i]]

ToldOutcomes ==
    {[id |-> a.id, outcome |-> a.ans] : a \in answers}

Contract == INSTANCE RequestContract
    WITH Outcomes <- Outcome, Undecided <- Zero,
         decided <- Decided, told <- ToldOutcomes

(* Both providers keep the contract of a request ID: the execution decides, *)
(* and everyone who is told an outcome, the duplicate that waited and the   *)
(* caller that comes back later included, is told that one.                 *)
OneOutcome == Contract!Spec
=============================================================================
