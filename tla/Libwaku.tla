------------------------------ MODULE Libwaku -------------------------------
(***************************************************************************)
(* The functions of libwaku as a C program sees them (library/libwaku.h,   *)
(* implemented in library/libwaku.nim): what each may return and with      *)
(* which code it calls the callback it was given, which it does in the     *)
(* caller's thread before it returns.  The answer of the node is           *)
(* nondeterministic here; how it gets to the caller is LibwakuThread.      *)
(*                                                                         *)
(* Every client passes a callback, so RET_MISSING_CALLBACK does not occur. *)
(***************************************************************************)
EXTENDS Integers

RET_OK == 0
RET_ERR == 1
RET_MISSING_CALLBACK == 2
Codes == {RET_OK, RET_ERR, RET_MISSING_CALLBACK}

NotCalled == -1    \* instead of a code: the callback is not called
Crash == -2        \* instead of a code: the process dies

Functions ==
  {"waku_new", "waku_start", "waku_stop", "waku_destroy", "waku_version",
   "waku_set_event_callback", "waku_content_topic", "waku_pubsub_topic",
   "waku_default_pubsub_topic", "waku_relay_publish", "waku_relay_subscribe",
   "waku_relay_unsubscribe", "waku_connect", "waku_listen_addresses"}

Outcome(ret, callback) == [ret |-> ret, callback |-> callback]
Crashed == Outcome(Crash, NotCalled)

\* Answered without the node: the callback gets the answer.
AnsweredLocally == {"waku_version", "waku_content_topic", "waku_pubsub_topic",
                    "waku_default_pubsub_topic"}

\* The callback gets the node's answer or the error.
AnsweredByNode == {"waku_relay_publish", "waku_listen_addresses"}

\* The callback gets an error, and is not called without one.
ReportErrors == {"waku_relay_subscribe", "waku_relay_unsubscribe", "waku_connect",
                 "waku_destroy"}

\* The callback is not called and errors are dropped; the result variable is
\* zero.
Silent == {"waku_start", "waku_stop", "waku_set_event_callback"}

ASSUME FunctionsAssumption ==
  Functions = {"waku_new"} \cup AnsweredLocally \cup AnsweredByNode \cup ReportErrors \cup Silent

\* What depends on an answer of the node's thread; with a context that is none
\* there is no thread.
NeedAnswer == AnsweredByNode \cup ReportErrors

\* A call of f.  The context is "valid", "nil", or "wild" for a pointer to
\* something else: all functions access it at once.
Outcomes(f, context) ==
  LET normal ==
        CASE f \in AnsweredLocally -> {Outcome(RET_OK, RET_OK)}
          [] f \in AnsweredByNode -> {Outcome(c, c) : c \in {RET_OK, RET_ERR}}
          [] f \in ReportErrors -> {Outcome(RET_OK, NotCalled), Outcome(RET_ERR, RET_ERR)}
          [] f \in Silent -> {Outcome(RET_OK, NotCalled)}
  IN  CASE context = "valid" -> normal
        [] context = "nil" -> {Crashed}
        [] context = "wild" ->
             {Crashed} \cup {out \in normal : f \in NeedAnswer => out.ret = RET_ERR}

\* waku_new: RET_OK stands for a pointer to a context, RET_ERR for nil.
NewOutcomes == {Outcome(RET_OK, NotCalled), Outcome(RET_ERR, RET_ERR)}

\* relayEventCallback: whether a message of the relay is handed to the event
\* callback.
RelayEventHandled(eventCallback, eventUserData) ==
  eventCallback # "NULL" /\ eventUserData # "NULL"
=============================================================================
