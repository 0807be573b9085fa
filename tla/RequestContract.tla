-------------------------- MODULE RequestContract --------------------------
(***************************************************************************)
(* What a request ID promises its callers, whoever serves it: while the     *)
(* server lives an ID names one execution with one outcome, and everyone    *)
(* who is told an outcome is told that one.  A server that restarts has     *)
(* forgotten its IDs; what it told before stays told.                       *)
(***************************************************************************)
CONSTANTS Ids,       \* request IDs
          Outcomes,  \* what an execution can end with
          Undecided  \* an ID that names no execution yet

VARIABLES decided,   \* the outcome each ID stands for
          told       \* [id, outcome] pairs callers have received

vars == <<decided, told>>

Init ==
    /\ decided = [i \in Ids |-> Undecided]
    /\ told = {}

Decide(i) ==
    /\ decided[i] = Undecided
    /\ decided' \in {[decided EXCEPT ![i] = o] : o \in Outcomes}
    /\ UNCHANGED told

Tell(i) ==
    /\ decided[i] # Undecided
    /\ told' = told \cup {[id |-> i, outcome |-> decided[i]]}
    /\ UNCHANGED decided

Forget ==
    /\ decided' = [i \in Ids |-> Undecided]
    /\ UNCHANGED told

Next ==
    \/ \E i \in Ids : Decide(i) \/ Tell(i)
    \/ Forget

Spec == Init /\ [][Next]_vars
=============================================================================
