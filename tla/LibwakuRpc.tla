----------------------------- MODULE LibwakuRpc -----------------------------
(***************************************************************************)
(* What libwaku promises the program that uses it: a call on an instance   *)
(* is handed to the instance's node, which executes it at most once, and   *)
(* the call returns the node's answer to this very call or an error.  An   *)
(* error says nothing about the node: it may execute the call, even after  *)
(* the call returned.                                                      *)
(*                                                                         *)
(* LibwakuThread implements this with a thread for each node.              *)
(***************************************************************************)
EXTENDS Naturals

CONSTANTS
  Contexts,    \* the instances
  Error        \* what a call returns when it has no answer

VARIABLES
  calls,       \* the number of calls made on each instance
  inCall,      \* the instances on which the latest one is still under way
  executed,    \* the calls the instance's node executed
  result       \* the call whose answer the latest call returned, or Error

rpcVars == <<calls, inCall, executed, result>>

Init ==
  /\ calls = [c \in Contexts |-> 0]
  /\ inCall = {}
  /\ executed = [c \in Contexts |-> {}]
  /\ result = [c \in Contexts |-> Error]

Invoke(c) ==
  /\ c \notin inCall
  /\ calls' = [calls EXCEPT ![c] = @ + 1]
  /\ inCall' = inCall \cup {c}
  /\ UNCHANGED <<executed, result>>

Execute(c) ==
  /\ \E k \in 1..calls[c] :
       /\ k \notin executed[c]
       /\ executed' = [executed EXCEPT ![c] = @ \cup {k}]
  /\ UNCHANGED <<calls, inCall, result>>

Return(c) ==
  /\ c \in inCall
  /\ inCall' = inCall \ {c}
  /\ \/ result' = [result EXCEPT ![c] = Error]
     \/ /\ calls[c] \in executed[c]
        /\ result' = [result EXCEPT ![c] = calls[c]]
  /\ UNCHANGED <<calls, executed>>

Next == \E c \in Contexts : Invoke(c) \/ Execute(c) \/ Return(c)

Spec == Init /\ [][Next]_rpcVars
=============================================================================
