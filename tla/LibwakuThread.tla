--------------------------- MODULE LibwakuThread ----------------------------
(***************************************************************************)
(* The two threads of a libwaku instance (library/waku_thread/             *)
(* waku_thread.nim) and the life of an instance (waku_new and waku_destroy *)
(* of library/libwaku.nim).  The program's thread puts a request into a    *)
(* channel with one place, fires a signal and waits for a second signal;   *)
(* the instance's own thread runs the node and answers through a second    *)
(* channel.  Firing a signal is a system call and may fail.                *)
(*                                                                         *)
(* A process may have several instances, each used by one thread of the    *)
(* program; the flag that keeps their threads going is global.             *)
(*                                                                         *)
(* Requests are numbered on each instance; 0 is an empty place.  Call 1 is *)
(* the CREATE_NODE of waku_new.                                            *)
(***************************************************************************)
EXTENDS Naturals

CONSTANTS
  Contexts,       \* the instances
  Error,          \* what a call without an answer returns
  MaxCalls,       \* bound on the calls on an instance
  MaxFailures     \* bound on the signals that cannot be fired

ASSUME BoundsAssumption == MaxCalls \in Nat \ {0} /\ MaxFailures \in Nat
ASSUME ErrorAssumption == Error \notin Nat

Calls == 1..MaxCalls
Places == 0..MaxCalls

VARIABLES
  running,        \* the global flag
  app,            \* where the program's thread is in the library
  calls,          \* number of the latest call
  reqChannel, reqSignal, respChannel, respSignal,
  worker,         \* where the instance's thread is in its loop
  request,        \* the request it has taken
  executed,       \* the requests the node has executed
  result,         \* what the latest finished call returned
  failures,       \* signals that could not be fired so far
  muted,          \* history: the instances an answer's signal failed on
  destroyed       \* history: the instances waku_destroy was called on

channels == <<reqChannel, reqSignal, respChannel, respSignal>>
ghosts == <<muted, destroyed>>
vars == <<running, app, calls, channels, worker, request, executed, result,
          failures, ghosts>>

AppStates == {"none", "sending", "firing", "waiting", "idle",
              "stopping", "joining", "gone", "lost"}
WorkerStates == {"none", "loop", "waiting", "receiving", "processing",
                 "responding", "firing", "exited"}

InCall(c) == app[c] \in {"sending", "firing", "waiting"}
Stopping(c) == app[c] \in {"stopping", "joining"}

Init ==
  /\ running = FALSE
  /\ app = [c \in Contexts |-> "none"]
  /\ calls = [c \in Contexts |-> 0]
  /\ reqChannel = [c \in Contexts |-> 0]
  /\ reqSignal = [c \in Contexts |-> FALSE]
  /\ respChannel = [c \in Contexts |-> 0]
  /\ respSignal = [c \in Contexts |-> FALSE]
  /\ worker = [c \in Contexts |-> "none"]
  /\ request = [c \in Contexts |-> 0]
  /\ executed = [c \in Contexts |-> {}]
  /\ result = [c \in Contexts |-> Error]
  /\ failures = 0
  /\ muted = {}
  /\ destroyed = {}

-----------------------------------------------------------------------------
(* The program's thread.                                                   *)

\* createWakuThread, and waku_new up to its request.
WakuNew(c) ==
  /\ app[c] = "none"
  /\ running' = TRUE
  /\ worker' = [worker EXCEPT ![c] = "loop"]
  /\ app' = [app EXCEPT ![c] = "sending"]
  /\ calls' = [calls EXCEPT ![c] = 1]
  /\ UNCHANGED <<channels, request, executed, result, failures, ghosts>>

\* createWakuThread without the signals, or without the thread: the flag is
\* set before the thread is created.
WakuNewFails(c) ==
  /\ app[c] = "none"
  /\ running' \in {running, TRUE}
  /\ app' = [app EXCEPT ![c] = "lost"]
  /\ UNCHANGED <<calls, channels, worker, request, executed, result, failures, ghosts>>

\* Any other function that asks the node.
Call(c) ==
  /\ app[c] = "idle"
  /\ calls[c] < MaxCalls
  /\ calls' = [calls EXCEPT ![c] = @ + 1]
  /\ app' = [app EXCEPT ![c] = "sending"]
  /\ UNCHANGED <<running, channels, worker, request, executed, result, failures, ghosts>>

\* The end of a call.  waku_new returns nil when it fails: the program has
\* no pointer to the instance, whose thread goes on.
Return(c, r) ==
  /\ result' = [result EXCEPT ![c] = r]
  /\ app' = [app EXCEPT ![c] = IF r = Error /\ calls[c] = 1 THEN "lost" ELSE "idle"]

\* A signal cannot be fired.
FireFails ==
  /\ failures < MaxFailures
  /\ failures' = failures + 1

\* Faulty: fires and waits though the channel was full.
TrySendUnchecked(c) ==
  /\ app[c] = "sending"
  /\ reqChannel' = [reqChannel EXCEPT ![c] = IF @ = 0 THEN calls[c] ELSE @]
  /\ app' = [app EXCEPT ![c] = "firing"]
  /\ UNCHANGED <<running, calls, reqSignal, respChannel, respSignal, worker, request,
                 executed, result, failures, ghosts>>

\* sendRequestToWakuThread up to trySend.  A full channel holds a request
\* whose signal failed.
TrySend(c) ==
  /\ app[c] = "sending"
  /\ IF reqChannel[c] = 0
     THEN /\ reqChannel' = [reqChannel EXCEPT ![c] = calls[c]]
          /\ app' = [app EXCEPT ![c] = "firing"]
          /\ UNCHANGED result
     ELSE /\ Return(c, Error)
          /\ UNCHANGED reqChannel
  /\ UNCHANGED <<running, calls, reqSignal, respChannel, respSignal, worker, request,
                 executed, failures, ghosts>>

FireRequest(c) ==
  /\ app[c] = "firing"
  /\ \/ /\ reqSignal' = [reqSignal EXCEPT ![c] = TRUE]
        /\ app' = [app EXCEPT ![c] = "waiting"]
        /\ UNCHANGED <<result, failures>>
     \/ /\ FireFails
        /\ Return(c, Error)
        /\ UNCHANGED reqSignal
  /\ UNCHANGED <<running, calls, reqChannel, respChannel, respSignal, worker, request,
                 executed, ghosts>>

\* The answer's signal, then tryRecv.
ReceiveResponse(c) ==
  /\ app[c] = "waiting"
  /\ respSignal[c]
  /\ respSignal' = [respSignal EXCEPT ![c] = FALSE]
  /\ respChannel' = [respChannel EXCEPT ![c] = 0]
  /\ Return(c, IF respChannel[c] = 0 THEN Error ELSE respChannel[c])
  /\ UNCHANGED <<running, calls, reqChannel, reqSignal, worker, request, executed,
                 failures, ghosts>>

\* waku_destroy: stopWakuThread up to its signal.
WakuDestroy(c) ==
  /\ app[c] = "idle"
  /\ running' = FALSE
  /\ destroyed' = destroyed \cup {c}
  /\ app' = [app EXCEPT ![c] = "stopping"]
  /\ UNCHANGED <<calls, channels, worker, request, executed, result, failures, muted>>

\* Faulty: the signal goes off and the program is told it did not.
FireStopMisreported(c) ==
  /\ app[c] = "stopping"
  /\ reqSignal' = [reqSignal EXCEPT ![c] = TRUE]
  /\ \/ /\ app' = [app EXCEPT ![c] = "joining"]
        /\ UNCHANGED failures
     \/ /\ FireFails
        /\ app' = [app EXCEPT ![c] = "idle"]
  /\ UNCHANGED <<running, calls, reqChannel, respChannel, respSignal, worker, request,
                 executed, result, ghosts>>

\* Faulty: does not wake the thread up.
FireStopForgotten(c) ==
  /\ app[c] = "stopping"
  /\ app' = [app EXCEPT ![c] = "joining"]
  /\ UNCHANGED <<running, calls, channels, worker, request, executed, result, failures,
                 ghosts>>

\* When the signal fails the program keeps the instance.
FireStop(c) ==
  /\ app[c] = "stopping"
  /\ \/ /\ reqSignal' = [reqSignal EXCEPT ![c] = TRUE]
        /\ app' = [app EXCEPT ![c] = "joining"]
        /\ UNCHANGED failures
     \/ /\ FireFails
        /\ app' = [app EXCEPT ![c] = "idle"]
        /\ UNCHANGED reqSignal
  /\ UNCHANGED <<running, calls, reqChannel, respChannel, respSignal, worker, request,
                 executed, result, ghosts>>

\* joinThread; then the signals are closed and the memory is freed.
JoinThread(c) ==
  /\ app[c] = "joining"
  /\ worker[c] = "exited"
  /\ app' = [app EXCEPT ![c] = "gone"]
  /\ UNCHANGED <<running, calls, channels, worker, request, executed, result, failures,
                 ghosts>>

-----------------------------------------------------------------------------
(* The instance's thread.                                                  *)

\* The condition of the loop.
CheckRunning(c) ==
  /\ worker[c] = "loop"
  /\ worker' = [worker EXCEPT ![c] = IF running THEN "waiting" ELSE "exited"]
  /\ UNCHANGED <<running, app, calls, channels, request, executed, result, failures, ghosts>>

AwaitRequest(c) ==
  /\ worker[c] = "waiting"
  /\ reqSignal[c]
  /\ reqSignal' = [reqSignal EXCEPT ![c] = FALSE]
  /\ worker' = [worker EXCEPT ![c] = "receiving"]
  /\ UNCHANGED <<running, app, calls, reqChannel, respChannel, respSignal, request,
                 executed, result, failures, ghosts>>

\* Faulty: does not look at recvOk.
TryRecvUnchecked(c) ==
  /\ worker[c] = "receiving"
  /\ request' = [request EXCEPT ![c] = reqChannel[c]]
  /\ worker' = [worker EXCEPT ![c] = "processing"]
  /\ reqChannel' = [reqChannel EXCEPT ![c] = 0]
  /\ UNCHANGED <<running, app, calls, reqSignal, respChannel, respSignal, executed,
                 result, failures, ghosts>>

\* tryRecv: the signal of waku_destroy comes without a request.
TryRecv(c) ==
  /\ worker[c] = "receiving"
  /\ request' = [request EXCEPT ![c] = reqChannel[c]]
  /\ worker' = [worker EXCEPT ![c] = IF reqChannel[c] = 0 THEN "loop" ELSE "processing"]
  /\ reqChannel' = [reqChannel EXCEPT ![c] = 0]
  /\ UNCHANGED <<running, app, calls, reqSignal, respChannel, respSignal, executed,
                 result, failures, ghosts>>

\* InterThreadRequest.process; an error of the node is an answer, too.
Process(c) ==
  /\ worker[c] = "processing"
  /\ executed' = [executed EXCEPT ![c] = @ \cup {request[c]}]
  /\ worker' = [worker EXCEPT ![c] = "responding"]
  /\ UNCHANGED <<running, app, calls, channels, request, result, failures, ghosts>>

\* Faulty: wakes the caller up first and sends then.
RespondSignalFirst(c) ==
  /\ worker[c] = "responding"
  /\ IF respSignal[c]
     THEN /\ respChannel' = [respChannel EXCEPT ![c] = IF @ = 0 THEN request[c] ELSE @]
          /\ worker' = [worker EXCEPT ![c] = "firing"]
          /\ UNCHANGED respSignal
     ELSE /\ respSignal' = [respSignal EXCEPT ![c] = TRUE]
          /\ UNCHANGED <<respChannel, worker>>
  /\ UNCHANGED <<running, app, calls, reqChannel, reqSignal, request, executed, result,
                 failures, ghosts>>

\* trySend; that the channel is full would be ignored.
Respond(c) ==
  /\ worker[c] = "responding"
  /\ respChannel' = [respChannel EXCEPT ![c] = IF @ = 0 THEN request[c] ELSE @]
  /\ worker' = [worker EXCEPT ![c] = "firing"]
  /\ UNCHANGED <<running, app, calls, reqChannel, reqSignal, respSignal, request,
                 executed, result, failures, ghosts>>

\* Faulty: no signal.
FireResponseForgotten(c) ==
  /\ worker[c] = "firing"
  /\ worker' = [worker EXCEPT ![c] = "loop"]
  /\ UNCHANGED <<running, app, calls, channels, request, executed, result, failures,
                 ghosts>>

\* That the signal cannot be fired is ignored.
FireResponse(c) ==
  /\ worker[c] = "firing"
  /\ worker' = [worker EXCEPT ![c] = "loop"]
  /\ \/ /\ respSignal' = [respSignal EXCEPT ![c] = TRUE]
        /\ UNCHANGED <<failures, muted>>
     \/ /\ FireFails
        /\ muted' = muted \cup {c}
        /\ UNCHANGED respSignal
  /\ UNCHANGED <<running, app, calls, reqChannel, reqSignal, respChannel, request,
                 executed, result, destroyed>>

-----------------------------------------------------------------------------
AppStep(c) ==
  \/ TrySend(c) \/ FireRequest(c) \/ ReceiveResponse(c)
  \/ FireStop(c) \/ JoinThread(c)

WorkerStep(c) ==
  \/ CheckRunning(c) \/ AwaitRequest(c) \/ TryRecv(c)
  \/ Process(c) \/ Respond(c) \/ FireResponse(c)

Next ==
  \E c \in Contexts :
    \/ WakuNew(c) \/ WakuNewFails(c) \/ Call(c) \/ WakuDestroy(c)
    \/ AppStep(c) \/ WorkerStep(c)

Spec == Init /\ [][Next]_vars

(* The threads are scheduled by the system: one that can go on does.  The  *)
(* program need not make calls.                                            *)
Fairness ==
  \A c \in Contexts : WF_vars(AppStep(c)) /\ WF_vars(WorkerStep(c))

FairSpec == Spec /\ Fairness

-----------------------------------------------------------------------------
(* Properties.                                                             *)

\* The shape of the state.
TypeOK ==
  /\ running \in BOOLEAN
  /\ app \in [Contexts -> AppStates]
  /\ worker \in [Contexts -> WorkerStates]
  /\ calls \in [Contexts -> Places]
  /\ reqChannel \in [Contexts -> Places] /\ respChannel \in [Contexts -> Places]
  /\ reqSignal \in [Contexts -> BOOLEAN] /\ respSignal \in [Contexts -> BOOLEAN]
  /\ request \in [Contexts -> Places]
  /\ executed \in [Contexts -> SUBSET Calls]
  /\ result \in [Contexts -> Calls \cup {Error}]
  /\ failures \in 0..MaxFailures
  /\ muted \subseteq Contexts /\ destroyed \subseteq Contexts

\* The promise of the library, in terms of the two threads.
Rpc == INSTANCE LibwakuRpc WITH inCall <- {c \in Contexts : InCall(c)}

\* sendRequestToWakuThread and run implement it, whatever signals fail: a
\* request left in the channel by a failed signal is never answered to a
\* later call, and none is executed twice.
ImplementsRpc == Rpc!Spec

\* A caller that wakes up finds its own answer: when the signal of an answer is
\* set the answer is in the channel, also after calls that failed, and it is
\* that of the call waiting.  The branch of sendRequestToWakuThread for an empty
\* channel, which prints a request that process has freed, is never taken.
AnswerComesWithSignal ==
  \A c \in Contexts : app[c] = "waiting" /\ respSignal[c] => respChannel[c] = calls[c]

\* A call that failed for want of a signal stays in the channel.  The node
\* executes it, if at all, only when waku_destroy wakes the thread up: at any
\* other time what it executes is the call its caller waits for.
LateOnlyWhenDestroyed ==
  [][\A c \in Contexts :
       executed'[c] # executed[c] =>
         \/ app[c] = "waiting" /\ executed'[c] = executed[c] \cup {calls[c]}
         \/ app[c] = "joining"]_vars

\* While no instance of the process has been destroyed, every call returns,
\* unless the signal of its answer could not be fired (which run ignores).
CallsReturn ==
  \A c \in Contexts :
    InCall(c) ~> (~InCall(c) \/ destroyed # {} \/ c \in muted)

\* waku_destroy returns, unless a waku_new on another thread sets the flag
\* again before the instance's thread has seen it cleared.
DestroyReturns ==
  \A c \in Contexts :
    \/ <>(Stopping(c) /\ running)
    \/ Stopping(c) ~> ~Stopping(c)
=============================================================================
