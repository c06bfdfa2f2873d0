------------------------ MODULE LibwakuThreadProofs -------------------------
(***************************************************************************)
(* Proofs about LibwakuThread, for every set of instances, number of calls *)
(* and number of failing signals.                                          *)
(*                                                                         *)
(* The inductive invariant describes one instance at a time: where a       *)
(* request can be, given where the two threads are.  It is an operator on  *)
(* the values of the instance's variables, so that a step on one instance  *)
(* obviously keeps it for the others.                                      *)
(***************************************************************************)
EXTENDS LibwakuThread, TLAPS

\* The instance's thread has nothing to do, and nothing is on its way.
Quiet(q, p, s, w) ==
  /\ w \in {"none", "loop", "waiting", "exited"}
  /\ ~q /\ ~s /\ p = 0

\* a: app, k: calls, rc: reqChannel, q: reqSignal, p: respChannel,
\* s: respSignal, w: worker, r: request, x: executed.
Holds(a, k, rc, q, p, s, w, r, x) ==
  /\ rc <= k
  /\ x \subseteq 1..k
  /\ rc # 0 => rc \notin x
  /\ w = "processing" => r \in 1..k /\ r \notin x /\ r # rc
  /\ w \in {"responding", "firing"} => r \in x
  /\ p # 0 => p \in x
  /\ a = "none" => k = 0
  /\ a \in {"none", "sending", "firing", "idle", "stopping", "lost"} => Quiet(q, p, s, w)
  /\ a = "sending" => k \notin x /\ rc < k
  /\ a = "firing" => rc = k
  /\ a = "waiting" =>
       /\ rc \in {0, k}
       /\ p \in {0, k}
       /\ w \in {"processing", "responding", "firing"} => r = k
       /\ w \in {"receiving", "processing", "responding", "firing"} => ~q /\ ~s
       /\ w \in {"receiving", "processing", "responding"} => p = 0
       /\ w = "firing" => p = k
       /\ s => p = k
       /\ s => ~q
       /\ q => p = 0
  /\ a = "gone" => w = "exited"

HoldsAt(c) ==
  Holds(app[c], calls[c], reqChannel[c], reqSignal[c], respChannel[c], respSignal[c],
        worker[c], request[c], executed[c])

Inv == TypeOK /\ \A c \in Contexts : HoldsAt(c)

-----------------------------------------------------------------------------
(* The invariant holds initially and is kept by every step.  A lemma for   *)
(* each action.                                                            *)

LEMMA InitInv == Init => Inv
<1> SUFFICES ASSUME Init PROVE Inv
  OBVIOUS
<1>1. TypeOK
  <2>1. reqSignal \in [Contexts -> BOOLEAN] /\ respSignal \in [Contexts -> BOOLEAN]
    BY Zenon DEF Init
  <2>2. 0 \in Places /\ 0 \in 0..MaxFailures
    BY BoundsAssumption DEF Places
  <2>3. "none" \in AppStates /\ "none" \in WorkerStates
    BY DEF AppStates, WorkerStates
  <2> QED
    BY <2>1, <2>2, <2>3, Zenon DEF Init, TypeOK
<1>2. ASSUME NEW c \in Contexts PROVE HoldsAt(c)
  BY BoundsAssumption DEF Init, HoldsAt, Holds, Quiet
<1> QED
  BY <1>1, <1>2 DEF Inv

\* A step on instance c leaves what another instance has.
Elsewhere(c) ==
  \A d \in Contexts \ {c} :
    /\ app'[d] = app[d] /\ calls'[d] = calls[d]
    /\ reqChannel'[d] = reqChannel[d] /\ reqSignal'[d] = reqSignal[d]
    /\ respChannel'[d] = respChannel[d] /\ respSignal'[d] = respSignal[d]
    /\ worker'[d] = worker[d] /\ request'[d] = request[d]
    /\ executed'[d] = executed[d]

LEMMA StepOn ==
  ASSUME Inv, NEW c \in Contexts, TypeOK', HoldsAt(c)', Elsewhere(c)
  PROVE  Inv'
<1>1. ASSUME NEW d \in Contexts, d # c PROVE HoldsAt(d)'
  <2>1. HoldsAt(d)
    BY DEF Inv
  <2> QED
    BY <1>1, <2>1 DEF HoldsAt, Elsewhere
<1> QED
  BY <1>1 DEF Inv

LEMMA WakuNewInv ==
  ASSUME Inv, NEW c \in Contexts, WakuNew(c)
  PROVE  Inv'
<1> USE BoundsAssumption, ErrorAssumption DEF WakuNew, channels, ghosts
<1>1. TypeOK /\ HoldsAt(c)
  BY DEF Inv
<1>2. TypeOK'
  BY <1>1 DEF TypeOK, HoldsAt, Holds, AppStates, WorkerStates, Places, Calls
<1>3. HoldsAt(c)'
  BY <1>1 DEF TypeOK, HoldsAt, Holds, Quiet, AppStates, WorkerStates, Places, Calls
<1>4. Elsewhere(c)
  BY <1>1 DEF TypeOK, Elsewhere
<1> QED
  BY <1>2, <1>3, <1>4, StepOn

LEMMA WakuNewFailsInv ==
  ASSUME Inv, NEW c \in Contexts, WakuNewFails(c)
  PROVE  Inv'
<1> USE BoundsAssumption, ErrorAssumption DEF WakuNewFails, channels, ghosts
<1>1. TypeOK /\ HoldsAt(c)
  BY DEF Inv
<1>2. TypeOK'
  BY <1>1 DEF TypeOK, HoldsAt, Holds, AppStates, WorkerStates, Places, Calls
<1>3. HoldsAt(c)'
  BY <1>1 DEF TypeOK, HoldsAt, Holds, Quiet, AppStates, WorkerStates, Places, Calls
<1>4. Elsewhere(c)
  BY <1>1 DEF TypeOK, Elsewhere
<1> QED
  BY <1>2, <1>3, <1>4, StepOn

LEMMA CallInv ==
  ASSUME Inv, NEW c \in Contexts, Call(c)
  PROVE  Inv'
<1> USE BoundsAssumption, ErrorAssumption DEF Call, channels, ghosts
<1>1. TypeOK /\ HoldsAt(c)
  BY DEF Inv
<1>2. TypeOK'
  BY <1>1 DEF TypeOK, HoldsAt, Holds, AppStates, WorkerStates, Places, Calls
<1>3. HoldsAt(c)'
  BY <1>1 DEF TypeOK, HoldsAt, Holds, Quiet, AppStates, WorkerStates, Places, Calls
<1>4. Elsewhere(c)
  BY <1>1 DEF TypeOK, Elsewhere
<1> QED
  BY <1>2, <1>3, <1>4, StepOn

LEMMA TrySendInv ==
  ASSUME Inv, NEW c \in Contexts, TrySend(c)
  PROVE  Inv'
<1> USE BoundsAssumption, ErrorAssumption DEF TrySend, Return, channels, ghosts
<1>1. TypeOK /\ HoldsAt(c)
  BY DEF Inv
<1>2. TypeOK'
  BY <1>1 DEF TypeOK, HoldsAt, Holds, AppStates, WorkerStates, Places, Calls
<1>3. HoldsAt(c)'
  BY <1>1 DEF TypeOK, HoldsAt, Holds, Quiet, AppStates, WorkerStates, Places, Calls
<1>4. Elsewhere(c)
  BY <1>1 DEF TypeOK, Elsewhere
<1> QED
  BY <1>2, <1>3, <1>4, StepOn

LEMMA FireRequestInv ==
  ASSUME Inv, NEW c \in Contexts, FireRequest(c)
  PROVE  Inv'
<1> USE BoundsAssumption, ErrorAssumption DEF FireRequest, Return, FireFails, channels, ghosts
<1>1. TypeOK /\ HoldsAt(c)
  BY DEF Inv
<1>2. TypeOK'
  <2>1. reqSignal' \in [Contexts -> BOOLEAN] /\ respSignal' \in [Contexts -> BOOLEAN]
    BY <1>1, Zenon DEF TypeOK
  <2> QED
    BY <1>1, <2>1 DEF TypeOK, HoldsAt, Holds, AppStates, WorkerStates, Places, Calls
<1>3. HoldsAt(c)'
  BY <1>1 DEF TypeOK, HoldsAt, Holds, Quiet, AppStates, WorkerStates, Places, Calls
<1>4. Elsewhere(c)
  BY <1>1 DEF TypeOK, Elsewhere
<1> QED
  BY <1>2, <1>3, <1>4, StepOn

LEMMA ReceiveResponseInv ==
  ASSUME Inv, NEW c \in Contexts, ReceiveResponse(c)
  PROVE  Inv'
<1> USE BoundsAssumption, ErrorAssumption DEF ReceiveResponse, Return, channels, ghosts
<1>1. TypeOK /\ HoldsAt(c)
  BY DEF Inv
<1>2. TypeOK'
  BY <1>1 DEF TypeOK, HoldsAt, Holds, AppStates, WorkerStates, Places, Calls
<1>3. HoldsAt(c)'
  BY <1>1 DEF TypeOK, HoldsAt, Holds, Quiet, AppStates, WorkerStates, Places, Calls
<1>4. Elsewhere(c)
  BY <1>1 DEF TypeOK, Elsewhere
<1> QED
  BY <1>2, <1>3, <1>4, StepOn

LEMMA WakuDestroyInv ==
  ASSUME Inv, NEW c \in Contexts, WakuDestroy(c)
  PROVE  Inv'
<1> USE BoundsAssumption, ErrorAssumption DEF WakuDestroy, channels, ghosts
<1>1. TypeOK /\ HoldsAt(c)
  BY DEF Inv
<1>2. TypeOK'
  BY <1>1 DEF TypeOK, HoldsAt, Holds, AppStates, WorkerStates, Places, Calls
<1>3. HoldsAt(c)'
  BY <1>1 DEF TypeOK, HoldsAt, Holds, Quiet, AppStates, WorkerStates, Places, Calls
<1>4. Elsewhere(c)
  BY <1>1 DEF TypeOK, Elsewhere
<1> QED
  BY <1>2, <1>3, <1>4, StepOn

LEMMA FireStopInv ==
  ASSUME Inv, NEW c \in Contexts, FireStop(c)
  PROVE  Inv'
<1> USE BoundsAssumption, ErrorAssumption DEF FireStop, FireFails, channels, ghosts
<1>1. TypeOK /\ HoldsAt(c)
  BY DEF Inv
<1>2. TypeOK'
  <2>1. reqSignal' \in [Contexts -> BOOLEAN] /\ respSignal' \in [Contexts -> BOOLEAN]
    BY <1>1, Zenon DEF TypeOK
  <2> QED
    BY <1>1, <2>1 DEF TypeOK, HoldsAt, Holds, AppStates, WorkerStates, Places, Calls
<1>3. HoldsAt(c)'
  BY <1>1 DEF TypeOK, HoldsAt, Holds, Quiet, AppStates, WorkerStates, Places, Calls
<1>4. Elsewhere(c)
  BY <1>1 DEF TypeOK, Elsewhere
<1> QED
  BY <1>2, <1>3, <1>4, StepOn

LEMMA JoinThreadInv ==
  ASSUME Inv, NEW c \in Contexts, JoinThread(c)
  PROVE  Inv'
<1> USE BoundsAssumption, ErrorAssumption DEF JoinThread, channels, ghosts
<1>1. TypeOK /\ HoldsAt(c)
  BY DEF Inv
<1>2. TypeOK'
  BY <1>1 DEF TypeOK, HoldsAt, Holds, AppStates, WorkerStates, Places, Calls
<1>3. HoldsAt(c)'
  BY <1>1 DEF TypeOK, HoldsAt, Holds, Quiet, AppStates, WorkerStates, Places, Calls
<1>4. Elsewhere(c)
  BY <1>1 DEF TypeOK, Elsewhere
<1> QED
  BY <1>2, <1>3, <1>4, StepOn

LEMMA CheckRunningInv ==
  ASSUME Inv, NEW c \in Contexts, CheckRunning(c)
  PROVE  Inv'
<1> USE BoundsAssumption, ErrorAssumption DEF CheckRunning, channels, ghosts
<1>1. TypeOK /\ HoldsAt(c)
  BY DEF Inv
<1>2. TypeOK'
  BY <1>1 DEF TypeOK, HoldsAt, Holds, AppStates, WorkerStates, Places, Calls
<1>3. HoldsAt(c)'
  BY <1>1 DEF TypeOK, HoldsAt, Holds, Quiet, AppStates, WorkerStates, Places, Calls
<1>4. Elsewhere(c)
  BY <1>1 DEF TypeOK, Elsewhere
<1> QED
  BY <1>2, <1>3, <1>4, StepOn

LEMMA AwaitRequestInv ==
  ASSUME Inv, NEW c \in Contexts, AwaitRequest(c)
  PROVE  Inv'
<1> USE BoundsAssumption, ErrorAssumption DEF AwaitRequest, channels, ghosts
<1>1. TypeOK /\ HoldsAt(c)
  BY DEF Inv
<1>2. TypeOK'
  BY <1>1 DEF TypeOK, HoldsAt, Holds, AppStates, WorkerStates, Places, Calls
<1>3. HoldsAt(c)'
  BY <1>1 DEF TypeOK, HoldsAt, Holds, Quiet, AppStates, WorkerStates, Places, Calls
<1>4. Elsewhere(c)
  BY <1>1 DEF TypeOK, Elsewhere
<1> QED
  BY <1>2, <1>3, <1>4, StepOn

LEMMA TryRecvInv ==
  ASSUME Inv, NEW c \in Contexts, TryRecv(c)
  PROVE  Inv'
<1> USE BoundsAssumption, ErrorAssumption DEF TryRecv, channels, ghosts
<1>1. TypeOK /\ HoldsAt(c)
  BY DEF Inv
<1>2. TypeOK'
  BY <1>1 DEF TypeOK, HoldsAt, Holds, AppStates, WorkerStates, Places, Calls
<1>3. HoldsAt(c)'
  BY <1>1 DEF TypeOK, HoldsAt, Holds, Quiet, AppStates, WorkerStates, Places, Calls
<1>4. Elsewhere(c)
  BY <1>1 DEF TypeOK, Elsewhere
<1> QED
  BY <1>2, <1>3, <1>4, StepOn

LEMMA ProcessInv ==
  ASSUME Inv, NEW c \in Contexts, Process(c)
  PROVE  Inv'
<1> USE BoundsAssumption, ErrorAssumption DEF Process, channels, ghosts
<1>1. TypeOK /\ HoldsAt(c)
  BY DEF Inv
<1>2. TypeOK'
  BY <1>1 DEF TypeOK, HoldsAt, Holds, AppStates, WorkerStates, Places, Calls
<1>3. HoldsAt(c)'
  BY <1>1 DEF TypeOK, HoldsAt, Holds, Quiet, AppStates, WorkerStates, Places, Calls
<1>4. Elsewhere(c)
  BY <1>1 DEF TypeOK, Elsewhere
<1> QED
  BY <1>2, <1>3, <1>4, StepOn

LEMMA RespondInv ==
  ASSUME Inv, NEW c \in Contexts, Respond(c)
  PROVE  Inv'
<1> USE BoundsAssumption, ErrorAssumption DEF Respond, channels, ghosts
<1>1. TypeOK /\ HoldsAt(c)
  BY DEF Inv
<1>2. TypeOK'
  BY <1>1 DEF TypeOK, HoldsAt, Holds, AppStates, WorkerStates, Places, Calls
<1>3. HoldsAt(c)'
  BY <1>1 DEF TypeOK, HoldsAt, Holds, Quiet, AppStates, WorkerStates, Places, Calls
<1>4. Elsewhere(c)
  BY <1>1 DEF TypeOK, Elsewhere
<1> QED
  BY <1>2, <1>3, <1>4, StepOn

LEMMA FireResponseInv ==
  ASSUME Inv, NEW c \in Contexts, FireResponse(c)
  PROVE  Inv'
<1> USE BoundsAssumption, ErrorAssumption DEF FireResponse, FireFails, channels, ghosts
<1>1. TypeOK /\ HoldsAt(c)
  BY DEF Inv
<1>2. TypeOK'
  <2>1. reqSignal' \in [Contexts -> BOOLEAN] /\ respSignal' \in [Contexts -> BOOLEAN]
    BY <1>1, Zenon DEF TypeOK
  <2> QED
    BY <1>1, <2>1 DEF TypeOK, HoldsAt, Holds, AppStates, WorkerStates, Places, Calls
<1>3. HoldsAt(c)'
  BY <1>1 DEF TypeOK, HoldsAt, Holds, Quiet, AppStates, WorkerStates, Places, Calls
<1>4. Elsewhere(c)
  BY <1>1 DEF TypeOK, Elsewhere
<1> QED
  BY <1>2, <1>3, <1>4, StepOn

LEMMA NextInv == Inv /\ [Next]_vars => Inv'
<1> SUFFICES ASSUME Inv, [Next]_vars PROVE Inv'
  OBVIOUS
<1>1. CASE Next
  <2>1. PICK c \in Contexts :
          \/ WakuNew(c) \/ WakuNewFails(c) \/ Call(c) \/ WakuDestroy(c)
          \/ AppStep(c) \/ WorkerStep(c)
    BY <1>1 DEF Next
  <2>2. CASE WakuNew(c) \/ WakuNewFails(c) \/ Call(c) \/ WakuDestroy(c)
    BY <2>2, WakuNewInv, WakuNewFailsInv, CallInv, WakuDestroyInv
  <2>3. CASE AppStep(c)
    BY <2>3, TrySendInv, FireRequestInv, ReceiveResponseInv, FireStopInv, JoinThreadInv
       DEF AppStep
  <2>4. CASE WorkerStep(c)
    BY <2>4, CheckRunningInv, AwaitRequestInv, TryRecvInv, ProcessInv, RespondInv,
       FireResponseInv DEF WorkerStep
  <2> QED
    BY <2>1, <2>2, <2>3, <2>4
<1>2. CASE UNCHANGED vars
  BY <1>2 DEF Inv, vars, channels, ghosts, TypeOK, HoldsAt
<1> QED
  BY <1>1, <1>2

LEMMA Invariance == Spec => []Inv
  BY InitInv, NextInv, PTL DEF Spec

\* The state of both threads keeps its shape; a request that run takes out of
\* the channel is always one that was put there, however many signals fail.
THEOREM TypeCorrect == Spec => []TypeOK
<1>1. Inv => TypeOK
  BY DEF Inv
<1> QED
  BY <1>1, Invariance, PTL

\* A caller that is woken up by the signal of an answer finds the answer to its
\* own call in the channel, so it never reads the request the instance's
\* thread has freed.
THEOREM SignalledAnswered == Spec => []AnswerComesWithSignal
<1>1. Inv => AnswerComesWithSignal
  <2> SUFFICES ASSUME Inv, NEW c \in Contexts, app[c] = "waiting", respSignal[c]
               PROVE  respChannel[c] = calls[c]
    BY DEF AnswerComesWithSignal
  <2>1. HoldsAt(c)
    BY DEF Inv
  <2> QED
    BY <2>1, Zenon DEF HoldsAt, Holds
<1> QED
  BY <1>1, Invariance, PTL

-----------------------------------------------------------------------------
(* What a step does to executed: only Process, on the request of the       *)
(* thread, and only while somebody waits for it or the instance is being   *)
(* destroyed.                                                              *)

LEMMA OnlyProcessExecutes ==
  ASSUME [Next]_vars, NEW d \in Contexts, executed'[d] # executed[d], TypeOK
  PROVE  Process(d)
<1>1. PICK c \in Contexts :
        \/ WakuNew(c) \/ WakuNewFails(c) \/ Call(c) \/ WakuDestroy(c)
        \/ AppStep(c) \/ WorkerStep(c)
  BY DEF Next, vars
<1>2. CASE Process(c)
  <2>1. d = c
    BY <1>2 DEF Process, TypeOK
  <2> QED
    BY <1>2, <2>1
<1>3. CASE ~Process(c)
  <2>1. UNCHANGED executed
    BY <1>1, <1>3 DEF WakuNew, WakuNewFails, Call, WakuDestroy, AppStep, TrySend, FireRequest,
       ReceiveResponse, FireStop, JoinThread, WorkerStep, CheckRunning, AwaitRequest,
       TryRecv, Respond, FireResponse
  <2> QED
    BY <2>1
<1> QED
  BY <1>2, <1>3

\* A call that failed for want of a signal is executed, if at all, only when
\* waku_destroy wakes the thread up.
THEOREM NoLateExecution == Spec => LateOnlyWhenDestroyed
<1>1. ASSUME Inv, [Next]_vars
      PROVE  [\A c \in Contexts :
                executed'[c] # executed[c] =>
                  \/ app[c] = "waiting" /\ executed'[c] = executed[c] \cup {calls[c]}
                  \/ app[c] = "joining"]_vars
  <2> SUFFICES ASSUME NEW c \in Contexts, executed'[c] # executed[c]
               PROVE  \/ app[c] = "waiting" /\ executed'[c] = executed[c] \cup {calls[c]}
                      \/ app[c] = "joining"
    OBVIOUS
  <2>1. TypeOK /\ HoldsAt(c)
    BY <1>1 DEF Inv
  <2>2. Process(c)
    BY <1>1, <2>1, OnlyProcessExecutes
  <2>3. /\ worker[c] = "processing"
        /\ executed'[c] = executed[c] \cup {request[c]}
    BY <2>1, <2>2 DEF Process, TypeOK
  <2>4. app[c] \in {"waiting", "joining"}
    BY <2>1, <2>3 DEF HoldsAt, Holds, Quiet, TypeOK, AppStates
  <2>5. app[c] = "waiting" => request[c] = calls[c]
    BY <2>1, <2>3 DEF HoldsAt, Holds
  <2> QED
    BY <2>3, <2>4, <2>5
<1> QED
  BY <1>1, Invariance, PTL DEF Spec, LateOnlyWhenDestroyed

-----------------------------------------------------------------------------
(* The two threads implement LibwakuRpc: Process is Execute, the steps     *)
(* that end a call are Return, and the others change nothing it sees.      *)

Calling == {c \in Contexts : InCall(c)}

\* A step that moves the program's thread of c to a place in (or out of) a
\* call.
LEMMA InCallMoves ==
  ASSUME TypeOK, NEW c \in Contexts, NEW a, app' = [app EXCEPT ![c] = a]
  PROVE  /\ a \in {"sending", "firing", "waiting"} =>
              Calling' = Calling \cup {c}
         /\ a \notin {"sending", "firing", "waiting"} =>
              Calling' = Calling \ {c}
         /\ (InCall(c) <=> a \in {"sending", "firing", "waiting"}) =>
              Calling' = Calling
  BY DEF Calling, InCall, TypeOK

\* The end of a call is a Return when its result is an error or its own
\* answer.
LEMMA ReturnIsReturn ==
  ASSUME TypeOK, NEW c \in Contexts, NEW r, Return(c, r), InCall(c),
         r = Error \/ (r = calls[c] /\ calls[c] \in executed[c]),
         UNCHANGED <<calls, executed>>
  PROVE  Rpc!Return(c)
<1>1. Calling' = Calling \ {c}
  <2>1. PICK a \in {"lost", "idle"} : app' = [app EXCEPT ![c] = a]
    BY DEF Return
  <2> QED
    BY <2>1, InCallMoves
<1>2. c \in Calling
  BY DEF Calling
<1> QED
  BY <1>1, <1>2 DEF Rpc!Return, Return, Calling

LEMMA InvokeIsInvoke ==
  ASSUME TypeOK, NEW c \in Contexts, ~InCall(c), app' = [app EXCEPT ![c] = "sending"],
         calls' = [calls EXCEPT ![c] = calls[c] + 1], UNCHANGED <<executed, result>>
  PROVE  Rpc!Invoke(c)
<1>1. Calling' = Calling \cup {c}
  BY InCallMoves
<1>2. c \notin Calling
  BY DEF Calling
<1> QED
  BY <1>1, <1>2 DEF Rpc!Invoke, Calling

LEMMA AppRefines ==
  ASSUME Inv, NEW c \in Contexts,
         \/ WakuNew(c) \/ WakuNewFails(c) \/ Call(c) \/ WakuDestroy(c) \/ AppStep(c)
  PROVE  Rpc!Invoke(c) \/ Rpc!Return(c) \/ UNCHANGED Rpc!rpcVars
<1>1. TypeOK /\ HoldsAt(c)
  BY DEF Inv
<1>2. CASE WakuNew(c)
  <2>1. calls[c] = 0
    BY <1>1, <1>2 DEF WakuNew, HoldsAt, Holds
  <2>2. calls' = [calls EXCEPT ![c] = calls[c] + 1]
    BY <1>2, <2>1 DEF WakuNew
  <2>3. /\ ~InCall(c) /\ app' = [app EXCEPT ![c] = "sending"]
        /\ UNCHANGED <<executed, result>>
    BY <1>2 DEF WakuNew, InCall
  <2> QED
    BY <1>1, <2>2, <2>3, InvokeIsInvoke
<1>3. CASE WakuNewFails(c)
  BY <1>1, <1>3, InCallMoves DEF WakuNewFails, InCall, Rpc!rpcVars, Calling
<1>4. CASE Call(c)
  BY <1>1, <1>4, InvokeIsInvoke DEF Call, InCall
<1>5. CASE WakuDestroy(c)
  BY <1>1, <1>5, InCallMoves DEF WakuDestroy, InCall, Rpc!rpcVars, Calling
<1>6. CASE TrySend(c)
  <2>1. CASE reqChannel[c] = 0
    BY <1>1, <1>6, <2>1, InCallMoves DEF TrySend, InCall, Rpc!rpcVars, Calling
  <2>2. CASE reqChannel[c] # 0
    BY <1>1, <1>6, <2>2, ReturnIsReturn DEF TrySend, InCall
  <2> QED
    BY <2>1, <2>2
<1>7. CASE FireRequest(c)
  <2>1. CASE app' = [app EXCEPT ![c] = "waiting"] /\ UNCHANGED result
    BY <1>1, <1>7, <2>1, InCallMoves DEF FireRequest, InCall, Rpc!rpcVars, Calling
  <2>2. CASE Return(c, Error)
    BY <1>1, <1>7, <2>2, ReturnIsReturn DEF FireRequest, InCall
  <2> QED
    BY <1>7, <2>1, <2>2 DEF FireRequest
<1>8. CASE ReceiveResponse(c)
  <2>1. respChannel[c] # 0 => respChannel[c] = calls[c] /\ calls[c] \in executed[c]
    BY <1>1, <1>8 DEF ReceiveResponse, HoldsAt, Holds
  <2> QED
    BY <1>1, <1>8, <2>1, ReturnIsReturn DEF ReceiveResponse, InCall
<1>9. CASE FireStop(c)
  <2>1. \E a \in {"joining", "idle"} : app' = [app EXCEPT ![c] = a]
    BY <1>9 DEF FireStop
  <2> QED
    BY <1>1, <1>9, <2>1, InCallMoves DEF FireStop, InCall, Rpc!rpcVars, Calling
<1>10. CASE JoinThread(c)
  BY <1>1, <1>10, InCallMoves DEF JoinThread, InCall, Rpc!rpcVars, Calling
<1> QED
  BY <1>2, <1>3, <1>4, <1>5, <1>6, <1>7, <1>8, <1>9, <1>10 DEF AppStep

LEMMA WorkerRefines ==
  ASSUME Inv, NEW c \in Contexts, WorkerStep(c)
  PROVE  Rpc!Execute(c) \/ UNCHANGED Rpc!rpcVars
<1>1. TypeOK /\ HoldsAt(c)
  BY DEF Inv
<1>2. UNCHANGED <<app, calls, result>>
  BY DEF WorkerStep, CheckRunning, AwaitRequest, TryRecv, Process, Respond, FireResponse
<1>3. Calling' = Calling
  BY <1>2 DEF Calling, InCall
<1>4. CASE Process(c)
  <2>1. request[c] \in 1..calls[c] /\ request[c] \notin executed[c]
    BY <1>1, <1>4 DEF Process, HoldsAt, Holds
  <2> QED
    BY <1>2, <1>3, <1>4, <2>1 DEF Process, Rpc!Execute, Calling
<1>5. CASE ~Process(c)
  <2>1. UNCHANGED executed
    BY <1>5 DEF WorkerStep, CheckRunning, AwaitRequest, TryRecv, Respond, FireResponse
  <2> QED
    BY <1>2, <1>3, <2>1 DEF Rpc!rpcVars, Calling
<1> QED
  BY <1>4, <1>5

\* The promise of libwaku holds for every number of instances, calls and
\* failing signals: each call is executed at most once and returns its own
\* answer or an error.
THEOREM ThreadsImplementRpc == Spec => ImplementsRpc
<1>1. Init => Rpc!Init
  BY DEF Init, Rpc!Init, InCall
<1>2. ASSUME Inv, [Next]_vars PROVE [Rpc!Next]_(Rpc!rpcVars)
  <2>1. CASE Next
    <3>1. PICK c \in Contexts :
            \/ WakuNew(c) \/ WakuNewFails(c) \/ Call(c) \/ WakuDestroy(c)
            \/ AppStep(c) \/ WorkerStep(c)
      BY <2>1 DEF Next
    <3>2. Rpc!Invoke(c) \/ Rpc!Execute(c) \/ Rpc!Return(c) \/ UNCHANGED Rpc!rpcVars
      BY <1>2, <3>1, AppRefines, WorkerRefines
    <3> QED
      BY <3>2 DEF Rpc!Next
  <2>2. CASE UNCHANGED vars
    BY <2>2 DEF vars, Rpc!rpcVars, InCall
  <2> QED
    BY <1>2, <2>1, <2>2
<1> QED
  BY <1>1, <1>2, Invariance, PTL DEF Spec, ImplementsRpc, Rpc!Spec
=============================================================================
