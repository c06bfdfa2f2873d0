----------------------------- MODULE NodeAddon ------------------------------
(***************************************************************************)
(* The Node.js addon around libwaku (examples/nodejs/waku_addon.c): the    *)
(* functions it exports to JavaScript, the callbacks it hands to libwaku,  *)
(* and the thread-safe function that brings events to JavaScript.          *)
(*                                                                         *)
(* An exported function runs to its end in the JavaScript thread, with the *)
(* callbacks libwaku makes in it: one action.  Between two of them the     *)
(* event loop runs CallJs.  The thread of the node meets the addon only in *)
(* relayEventCallback.                                                     *)
(*                                                                         *)
(* The calls of exported functions are numbered.  The number of a call     *)
(* also names what is made in it: the JavaScript function it was given,    *)
(* the reference to it, the thread-safe function, the node.  A message is  *)
(* its bytes, a content topic its length; events are counted, and other    *)
(* strings are left out.                                                   *)
(***************************************************************************)
EXTENDS Libwaku, Base64, FiniteSets, FiniteSetsExt, SequencesExt, Functions

CONSTANTS
  Messages,       \* what JavaScript publishes, as bytes
  TopicNames,     \* content topic names, by length
  MaxCalls,       \* bound on the calls of exported functions
  MaxEvents       \* bound on the messages the relay receives

ASSUME InputsAssumption ==
  /\ Messages \subseteq Seq(Byte) /\ TopicNames \subseteq Nat
  /\ MaxCalls \in Nat /\ MaxEvents \in Nat

Calls == 1..MaxCalls
Slots == {"version", "topic", "error"}     \* the ref_..._callback globals
Blocks == {"string", "topic", "item"}

VARIABLES
  calls,
  status,         \* of the process: "running", "ended", "aborted", "crashed"
  ctx,            \* the node the global points to, or 0
  myEnv,          \* my_env is set
  ref,            \* the reference in each slot, or 0
  references,     \* the references that have not been deleted
  thsafe_fn,      \* the thread-safe function events go to, or 0
  queues,         \* number of events each thread-safe function still has to deliver
  contentTopic,   \* the global, or -1
  heap,           \* number of live blocks of each kind
  subscribed,     \* a subscription succeeded
  thrown,         \* calls that ended in a TypeError
  events,         \* messages the relay received
  jsCall,         \* the last call of a JavaScript function: [during, fn]
  published       \* the last message published: [given, payload]

vars == <<calls, status, ctx, myEnv, ref, references, thsafe_fn, queues, contentTopic,
          heap, subscribed, thrown, events, jsCall, published>>

userData == "NULL"
NoTopic == -1
MsgBuffer == 2048

\* Faulty: room for every message.
LargeJsonBuffer == 4096
JsonBuffer == 1024

Init ==
  /\ calls = 0
  /\ status = "running"
  /\ ctx = 0
  /\ myEnv = FALSE
  /\ ref = [s \in Slots |-> 0]
  /\ references = {}
  /\ thsafe_fn = 0
  /\ queues = [t \in Calls |-> 0]
  /\ contentTopic = NoTopic
  /\ heap = [b \in Blocks |-> 0]
  /\ subscribed = FALSE
  /\ thrown = 0
  /\ events = 0
  /\ jsCall = [during |-> 0, fn |-> 0]
  /\ published = [given |-> <<>>, payload |-> <<>>]

-----------------------------------------------------------------------------
(* Parts of the exported functions.                                        *)

\* JavaScript calls an exported function.
Exported ==
  /\ status = "running"
  /\ calls < MaxCalls
  /\ calls' = calls + 1

This == calls + 1

\* The argument lists that take different ways: right, one wrong, too short.
ArgLists(sig) ==
  {sig, SubSeq(sig, 1, Len(sig) - 1)} \cup {[sig EXCEPT ![i] = "other"] : i \in DOMAIN sig}

\* The position of the first argument that is refused, Len(sig) + 1 if none;
\* their number is checked before their types.
Refused(sig, args) ==
  IF Len(args) < Len(sig)
  THEN 1
  ELSE CHOOSE i \in 1..(Len(sig) + 1) :
         /\ \A k \in 1..(i - 1) : args[k] = sig[k]
         /\ i <= Len(sig) => args[i] # sig[i]

Accepted(sig, args) == Refused(sig, args) = Len(sig) + 1

\* The strings copied from the arguments before position i.
Copied(sig, i) == Cardinality({k \in 1..(i - 1) : sig[k] = "string"})

\* A TypeError at argument i: the function returns with the copies made; h is
\* the heap but for these.
Throw(sig, i, h) ==
  /\ thrown' = thrown + 1
  /\ heap' = [h EXCEPT !["string"] = @ + Copied(sig, i)]

\* A reference to the function given to this call, in place of an earlier
\* one, which is deleted.
ReplaceReference(slot) ==
  /\ myEnv' = TRUE
  /\ references' = (references \ {ref[slot]}) \cup {This}
  /\ ref' = [ref EXCEPT ![slot] = This]

\* The earlier one is forgotten, not deleted.
OverwriteReference(slot) ==
  /\ references' = references \cup {This}
  /\ ref' = [ref EXCEPT ![slot] = This]

Context == IF ctx = 0 THEN "nil" ELSE "valid"

\* How a handler's call of a JavaScript function may end: it returns; it
\* throws, which NAPI_CALL makes fatal; or it reads the second of the two
\* arguments announced past the end of the one there is.
JsOutcomes == {"running", "aborted", "crashed"}

\* The process after a library call with this outcome: the handler has called
\* JavaScript (env: through a valid my_env) and the code went through WAKU_CALL.
After(out, js, env) ==
  CASE out.ret = Crash -> "crashed"
    [] out.callback # NotCalled /\ ~env -> "aborted"
    [] out.callback # NotCalled /\ env /\ js # "running" -> js
    [] OTHER -> IF out.ret = RET_OK THEN "running" ELSE "aborted"

\* The handler calls the function its slot refers to, whatever the code.
Handle(out, slot, env) ==
  jsCall' = IF out.callback # NotCalled /\ env
            THEN [during |-> This, fn |-> ref'[slot]]
            ELSE jsCall

-----------------------------------------------------------------------------
(* Events.                                                                 *)

\* event_handler: without a thread-safe function it throws, goes on and aborts.
EventHandler ==
  IF thsafe_fn = 0
  THEN /\ status' = "aborted"
       /\ UNCHANGED <<queues, heap>>
  ELSE /\ queues' = [queues EXCEPT ![thsafe_fn] = @ + 1]
       /\ heap' = [heap EXCEPT !["item"] = @ + 1]
       /\ UNCHANGED status

\* Faulty: returns before the item is freed when there is no environment.
CallJsLeaky(t) ==
  /\ status \in {"running", "ended"}
  /\ queues[t] > 0
  /\ queues' = [queues EXCEPT ![t] = @ - 1]
  /\ heap' = [heap EXCEPT !["item"] = IF status = "running" THEN @ - 1 ELSE @]
  /\ IF status = "running"
     THEN /\ status' \in {"running", "aborted"}
          /\ jsCall' = [during |-> 0, fn |-> t]
     ELSE UNCHANGED <<status, jsCall>>
  /\ UNCHANGED <<calls, ctx, myEnv, ref, references, thsafe_fn, contentTopic, subscribed,
                 thrown, events, published>>

\* The event loop gives CallJs an item of a thread-safe function.  In
\* the cleanup phase there is no environment: the item is only freed.
CallJs(t) ==
  /\ status \in {"running", "ended"}
  /\ queues[t] > 0
  /\ queues' = [queues EXCEPT ![t] = @ - 1]
  /\ heap' = [heap EXCEPT !["item"] = @ - 1]
  /\ IF status = "running"
     THEN /\ status' \in {"running", "aborted"}
          /\ jsCall' = [during |-> 0, fn |-> t]
     ELSE UNCHANGED <<status, jsCall>>
  /\ UNCHANGED <<calls, ctx, myEnv, ref, references, thsafe_fn, contentTopic, subscribed,
                 thrown, events, published>>

\* A message arrives on a topic a node is subscribed to; relayEventCallback
\* looks at the user data.
RelayEvent ==
  /\ status = "running"
  /\ subscribed
  /\ events < MaxEvents
  /\ events' = events + 1
  /\ IF RelayEventHandled("event_handler", userData)
     THEN EventHandler
     ELSE UNCHANGED <<status, queues, heap>>
  /\ UNCHANGED <<calls, ctx, myEnv, ref, references, thsafe_fn, contentTopic, subscribed,
                 thrown, jsCall, published>>

\* The script ends: Node.js enters its cleanup phase.
Cleanup ==
  /\ status = "running"
  /\ status' = "ended"
  /\ UNCHANGED <<calls, ctx, myEnv, ref, references, thsafe_fn, queues, contentTopic, heap,
                 subscribed, thrown, events, jsCall, published>>

-----------------------------------------------------------------------------
(* The exported functions.                                                 *)

\* The type of the argument is not checked: the size and the contents of the
\* copy are then whatever was in memory, which waku_new takes as it comes.
WakuNew(args) ==
  /\ Exported
  /\ IF args = <<>>
     THEN /\ Throw(<<"string">>, 1, heap)
          /\ UNCHANGED <<status, ctx, queues>>
     ELSE \E out \in NewOutcomes \cup (IF args = <<"other">> THEN {Crashed} ELSE {}) :
            /\ ctx' = IF out.ret = RET_OK THEN This ELSE 0
            /\ CASE out.ret = Crash -> status' = "crashed" /\ UNCHANGED <<queues, heap>>
                 [] out.ret = RET_ERR -> EventHandler
                 [] out.ret = RET_OK -> UNCHANGED <<status, queues, heap>>
            /\ UNCHANGED thrown
  /\ UNCHANGED <<myEnv, ref, references, thsafe_fn, contentTopic, subscribed, events,
                 jsCall, published>>

FunctionSig == <<"function">>

\* WakuVersion and WakuDefaultPubsubTopic.
Ask(f, slot, args) ==
  /\ Exported
  /\ IF Accepted(FunctionSig, args)
     THEN /\ ReplaceReference(slot)
          /\ \E out \in Outcomes(f, Context), js \in JsOutcomes :
               /\ Handle(out, slot, TRUE)
               /\ status' = After(out, js, TRUE)
          /\ UNCHANGED <<thrown, heap>>
     ELSE /\ Throw(FunctionSig, 1, heap)
          /\ UNCHANGED <<myEnv, ref, references, jsCall, status>>
  /\ UNCHANGED <<ctx, thsafe_fn, queues, contentTopic, subscribed, events, published>>

\* Faulty: deletes the earlier reference before it checks the argument.
WakuVersionEager(args) ==
  IF Accepted(FunctionSig, args)
  THEN Ask("waku_version", "version", args)
  ELSE /\ Exported
       /\ references' = references \ {ref["version"]}
       /\ Throw(FunctionSig, 1, heap)
       /\ UNCHANGED <<status, ctx, myEnv, ref, thsafe_fn, queues, contentTopic, subscribed,
                      events, jsCall, published>>

WakuVersion(args) == Ask("waku_version", "version", args)

\* Faulty: keeps the function it was given first.
WakuDefaultPubsubTopicOnce(args) ==
  IF ref["topic"] # 0 /\ Accepted(FunctionSig, args)
  THEN /\ Exported
       /\ jsCall' = [during |-> This, fn |-> ref["topic"]]
       /\ UNCHANGED <<status, ctx, myEnv, ref, references, thsafe_fn, queues, contentTopic,
                      heap, subscribed, thrown, events, published>>
  ELSE Ask("waku_default_pubsub_topic", "topic", args)

WakuDefaultPubsubTopic(args) == Ask("waku_default_pubsub_topic", "topic", args)

\* A new thread-safe function takes the place of the earlier one, which is
\* not released and delivers what it has.  waku_set_event_callback is given
\* one argument less than libwaku.h declares: the handler as the context.
\* Both ways out of that are here: the call as it is, which writes through a
\* wild context, and the call with the context the other functions pass.
WakuSetEventCallback(args) ==
  /\ Exported
  /\ IF Accepted(FunctionSig, args)
     THEN /\ myEnv' = TRUE
          /\ thsafe_fn' = This
          /\ status' \in IF ctx = 0 THEN {"crashed"} ELSE {status, "crashed"}
          /\ UNCHANGED <<thrown, heap>>
     ELSE /\ Throw(FunctionSig, 1, heap)
          /\ UNCHANGED <<myEnv, thsafe_fn, status>>
  /\ UNCHANGED <<ctx, ref, references, queues, contentTopic, subscribed, events,
                 jsCall, published>>

\* Looks at neither its arguments nor the result.
WakuStart ==
  /\ Exported
  /\ status' = IF ctx = 0 THEN "crashed" ELSE status
  /\ UNCHANGED <<ctx, myEnv, ref, references, thsafe_fn, queues, contentTopic, heap,
                 subscribed, thrown, events, jsCall, published>>

\* WakuConnect and WakuRelaySubscribe: strings are copied, onError is
\* referred to, and the copies are freed at the end.
Request(sig, args, out) ==
  /\ Exported
  /\ IF Accepted(sig, args)
     THEN /\ myEnv' = TRUE
          /\ OverwriteReference("error")
          /\ Handle(out, "error", TRUE)
          /\ \E js \in JsOutcomes : status' = After(out, js, TRUE)
          /\ UNCHANGED <<thrown, heap>>
     ELSE /\ Throw(sig, Refused(sig, args), heap)
          /\ UNCHANGED <<myEnv, ref, references, jsCall, status>>

ConnectSig == <<"string", "number", "function">>

WakuConnect(args) ==
  /\ \E out \in Outcomes("waku_connect", Context) :
       Request(ConnectSig, args, out)
  /\ UNCHANGED <<ctx, thsafe_fn, queues, contentTopic, subscribed, events, published>>

SubscribeSig == <<"string", "function">>

WakuRelaySubscribe(args) ==
  /\ \E out \in Outcomes("waku_relay_subscribe", Context) :
       /\ Request(SubscribeSig, args, out)
       /\ subscribed' = (subscribed \/ (Accepted(SubscribeSig, args) /\ out.ret = RET_OK))
  /\ UNCHANGED <<ctx, thsafe_fn, queues, contentTopic, events, published>>

-----------------------------------------------------------------------------
(* WakuRelayPublish.                                                       *)

PublishSig == <<"string", "string", "message", "number", "function">>

\* What strlen sees: the bytes before the first zero.
CString(bytes) ==
  LET zeros == {i \in DOMAIN bytes : bytes[i] = 0}
  IN  IF zeros = {} THEN bytes ELSE SubSeq(bytes, 1, Min(zeros) - 1)

\* The part of the message in the buffer msg.
Text(message) ==
  CString(SubSeq(message, 1, IF Len(message) < MsgBuffer THEN Len(message) ELSE MsgBuffer - 1))

\* The length of jsonWakuMsg before snprintf cuts it; b64_encode makes NULL
\* of an empty text, which is printed as "(null)".
JsonLength(text, topic) ==
  33 + (IF text = <<>> THEN 6 ELSE EncodedSize(Len(text))) + topic

\* waku_relay_publish.  A cut JSON text does not parse, and its copy is freed
\* twice; "(null)" parses and is not base64.
PublishOutcomes(text, topic) ==
  CASE JsonLength(text, topic) >= JsonBuffer -> {Outcome(RET_ERR, RET_ERR), Crashed}
    [] text = <<>> /\ JsonLength(text, topic) < JsonBuffer -> {Outcome(RET_ERR, RET_ERR)}
    [] OTHER -> Outcomes("waku_relay_publish", "valid")

\* handle_content_topic frees the earlier content topic.
StoreContentTopic(h) == [h EXCEPT !["topic"] = IF contentTopic = NoTopic THEN @ + 1 ELSE @]

\* waku_relay_publish, with the JSON text in place.
Publish(message, text, topic) ==
  \E out \in PublishOutcomes(text, topic) \cup {Crashed}, js \in JsOutcomes :
    /\ OverwriteReference("error")
    /\ Handle(out, "error", myEnv)
    /\ status' = After(out, js, myEnv)
    /\ published' = IF out.ret = RET_OK
                    THEN [given |-> message, payload |-> Encode(text)]
                    ELSE published

\* The content topic is asked for once the message is there, before the rest
\* of the arguments is looked at.  The timeout is written with twice the width
\* of its variable, over whatever lies behind it: the process may crash.
WakuRelayPublish(message, name, args) ==
  LET i == Refused(PublishSig, args)
      topic == 20 + name               \* "/appName/1/" name "/encoding"
  IN  /\ Exported
      /\ CASE i <= 3 ->
                /\ Throw(PublishSig, i, heap)
                /\ UNCHANGED <<status, contentTopic, ref, references, jsCall, published>>
           [] i > 3 /\ ctx = 0 ->
                /\ status' = "crashed"
                /\ UNCHANGED <<thrown, heap, contentTopic, ref, references, jsCall, published>>
           [] i \in {4, 5} /\ ctx # 0 ->
                /\ contentTopic' = topic
                /\ Throw(PublishSig, i, StoreContentTopic(heap))
                /\ status' \in {"running"} \cup (IF i = 5 THEN {"crashed"} ELSE {})
                /\ UNCHANGED <<ref, references, jsCall, published>>
           [] i = 6 /\ ctx # 0 ->
                /\ contentTopic' = topic
                /\ heap' = StoreContentTopic(heap)
                /\ Publish(message, Text(message), topic)
                /\ UNCHANGED thrown
      /\ UNCHANGED <<ctx, myEnv, thsafe_fn, queues, subscribed, events>>

-----------------------------------------------------------------------------
Export ==
  \/ \E args \in {<<>>, <<"string">>, <<"other">>} : WakuNew(args)
  \/ \E args \in ArgLists(FunctionSig) : WakuVersion(args)
  \/ \E args \in ArgLists(FunctionSig) : WakuDefaultPubsubTopic(args)
  \/ \E args \in ArgLists(FunctionSig) : WakuSetEventCallback(args)
  \/ WakuStart
  \/ \E args \in ArgLists(ConnectSig) : WakuConnect(args)
  \/ \E args \in ArgLists(SubscribeSig) : WakuRelaySubscribe(args)
  \/ \E args \in ArgLists(PublishSig), message \in Messages, name \in TopicNames :
       WakuRelayPublish(message, name, args)

Next ==
  \/ Export
  \/ \E t \in Calls : CallJs(t)
  \/ RelayEvent
  \/ Cleanup

Spec == Init /\ [][Next]_vars

-----------------------------------------------------------------------------
(* Properties.                                                             *)

Alive == status \in {"running", "ended"}

\* The shape of the state.
TypeOK ==
  /\ calls \in 0..MaxCalls
  /\ status \in {"running", "ended", "aborted", "crashed"}
  /\ ctx \in 0..MaxCalls /\ thsafe_fn \in 0..MaxCalls
  /\ myEnv \in BOOLEAN /\ subscribed \in BOOLEAN
  /\ ref \in [Slots -> 0..MaxCalls]
  /\ references \subseteq Calls
  /\ queues \in [Calls -> Nat]
  /\ contentTopic \in Nat \cup {NoTopic}
  /\ heap \in [Blocks -> Nat]
  /\ thrown \in Nat /\ events \in 0..MaxEvents
  /\ jsCall \in [during : 0..MaxCalls, fn : 0..MaxCalls]

\* Every block is freed once and in time, through any sequence of calls: the
\* items are those still queued, also when CallJs runs without environment,
\* the content topic is the one in the global, and copies of arguments are
\* left behind only by calls that threw a TypeError.
HeapBalanced ==
  Alive =>
    /\ heap["item"] = SumFunction(queues)
    /\ heap["topic"] = (IF contentTopic = NoTopic THEN 0 ELSE 1)
    /\ heap["string"] <= 2 * thrown

\* A handler never uses a deleted reference: what the globals hold is live,
\* whichever calls threw or replaced it.
ReferencesLive == \A s \in Slots : ref[s] # 0 => ref[s] \in references

\* The addon's memory is sound: blocks, references and globals agree.
MemorySound == TypeOK /\ HeapBalanced /\ ReferencesLive

\* A handler calls the JavaScript function given to the call it runs in,
\* never one of an earlier call.
CallbackIsOwn == jsCall.during # 0 => jsCall.fn = jsCall.during

\* The buffers msg and jsonWakuMsg never cut a message that is published: what
\* was put into the JSON text is the whole message, up to its first zero byte;
\* one that would be cut makes the call fail.  Topic names are lengths here: a
\* name whose characters change the JSON text is outside this property.
PublishedWhole == Decode(published.payload) = CString(published.given)
=============================================================================
