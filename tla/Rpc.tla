--------------------------------- MODULE Rpc ---------------------------------
(***************************************************************************)
(* What send_and_receive of TcpClient (src/client/tcp_client.rs) and send  *)
(* of TcpPeerClient (src/client/peer_client.rs) promise their callers: the *)
(* server executes a request at most once, and a call returns the response *)
(* to its own request, or an error. After an error the caller knows        *)
(* nothing: the request may have been executed, and may still be executed  *)
(* later.                                                                  *)
(***************************************************************************)
EXTENDS Naturals

CONSTANTS
    Calls,
    NoAnswer    \* the call has not returned, or has returned an error

VARIABLES
    stage,      \* "new", "pending", "answered" or "failed", of each call
    executions, \* how often the server executed the request of the call
    answer      \* the call whose response the call returned

vars == <<stage, executions, answer>>

Init ==
    /\ stage = [call \in Calls |-> "new"]
    /\ executions = [call \in Calls |-> 0]
    /\ answer = [call \in Calls |-> NoAnswer]

Invoke(call) ==
    /\ stage[call] = "new"
    /\ stage' = [stage EXCEPT ![call] = "pending"]
    /\ UNCHANGED <<executions, answer>>

\* The server executes the request, which may be after the call has failed.
Execute(call) ==
    /\ stage[call] # "new"
    /\ executions[call] = 0
    /\ executions' = [executions EXCEPT ![call] = 1]
    /\ UNCHANGED <<stage, answer>>

Answer(call) ==
    /\ stage[call] = "pending"
    /\ executions[call] = 1
    /\ stage' = [stage EXCEPT ![call] = "answered"]
    /\ answer' = [answer EXCEPT ![call] = call]
    /\ UNCHANGED executions

Fail(call) ==
    /\ stage[call] = "pending"
    /\ stage' = [stage EXCEPT ![call] = "failed"]
    /\ UNCHANGED <<executions, answer>>

Next == \E call \in Calls : Invoke(call) \/ Execute(call) \/ Answer(call) \/ Fail(call)

Spec == Init /\ [][Next]_vars
==============================================================================
