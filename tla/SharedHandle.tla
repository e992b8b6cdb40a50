---------------------------- MODULE SharedHandle ----------------------------
(***************************************************************************)
(* What a user of a shared resource is promised, whatever keeps the        *)
(* counts: a resource is opened, held by users, closed once, and never     *)
(* closed under a holder nor handed out after its close has begun.         *)
(***************************************************************************)
EXTENDS Naturals

CONSTANTS Users, Resources

VARIABLES
    status,         \* of each resource
    holds           \* the resource each user holds, 0 if none

hvars == <<status, holds>>

Init ==
    /\ status = [r \in Resources |-> "none"]
    /\ holds = [u \in Users |-> 0]

Open(r) ==
    /\ status[r] = "none"
    /\ status' = [status EXCEPT ![r] = "open"]
    /\ UNCHANGED holds

Acquire(u, r) ==
    /\ status[r] = "open" /\ holds[u] = 0
    /\ holds' = [holds EXCEPT ![u] = r]
    /\ UNCHANGED status

Release(u) ==
    /\ holds[u] # 0
    /\ holds' = [holds EXCEPT ![u] = 0]
    /\ UNCHANGED status

BeginClose(r) ==
    /\ status[r] = "open"
    /\ \A u \in Users : holds[u] # r
    /\ status' = [status EXCEPT ![r] = "closing"]
    /\ UNCHANGED holds

EndClose(r) ==
    /\ status[r] = "closing"
    /\ status' = [status EXCEPT ![r] = "closed"]
    /\ UNCHANGED holds

Next ==
    \/ \E r \in Resources : Open(r) \/ BeginClose(r) \/ EndClose(r)
    \/ \E u \in Users : Release(u) \/ \E r \in Resources : Acquire(u, r)

Spec == Init /\ [][Next]_hvars
=============================================================================
