---------------------------- MODULE WakuExample -----------------------------
(***************************************************************************)
(* The C program that shows how to use libwaku                             *)
(* (examples/cbindings/waku_example.c): its options, the calls main makes  *)
(* one after the other, the menu it then serves for ever, and the messages *)
(* of the relay, which the node's thread hands to event_handler.           *)
(*                                                                         *)
(* A step of main is a call of the library with its callback.  The         *)
(* configuration is the set of its fields that have a value; host, port    *)
(* and relay have defaults, key and peers are read uninitialised when no   *)
(* option gives them.                                                      *)
(***************************************************************************)
EXTENDS Libwaku

CONSTANT MaxEvents      \* bound on the messages the relay receives

VARIABLES
  pc,             \* the next step of main; "exited" and "crashed" at its end
  cfgNode,        \* the fields that have a value
  arguments,      \* positional arguments so far
  eventCallback, eventUserData,      \* the fields of the context
  subscribed,
  events,         \* messages the relay received
  shown           \* those event_handler printed

vars == <<pc, cfgNode, arguments, eventCallback, eventUserData, subscribed, events, shown>>

options == {"host", "port", "key", "relay", "peers"}
userData == "NULL"

Init ==
  /\ pc = "options"
  /\ cfgNode = {"host", "port", "relay"}
  /\ arguments = 0
  /\ eventCallback = "NULL"
  /\ eventUserData = "NULL"
  /\ subscribed = FALSE
  /\ events = 0
  /\ shown = 0

-----------------------------------------------------------------------------
(* The command line: argp calls parse_opt for each option and argument.    *)

ParseOption(field) ==
  /\ pc = "options"
  /\ cfgNode' = cfgNode \cup {field}
  /\ UNCHANGED <<pc, arguments, eventCallback, eventUserData, subscribed, events, shown>>

\* One positional argument is let pass, a second one is an error.
ParseArgument ==
  /\ pc = "options"
  /\ arguments' = arguments + 1
  /\ pc' = IF arguments >= 1 THEN "exited" ELSE "options"
  /\ UNCHANGED <<cfgNode, eventCallback, eventUserData, subscribed, events, shown>>

ParseEnd(known) ==
  /\ pc = "options"
  /\ pc' = IF known THEN "new" ELSE "exited"
  /\ UNCHANGED <<cfgNode, arguments, eventCallback, eventUserData, subscribed, events, shown>>

-----------------------------------------------------------------------------
(* The library calls.                                                      *)

\* event_handler ends the program when it gets an error, WAKU_CALL when the
\* call it is around returns one.
Exits(out, callback, checked) ==
  \/ callback = "event_handler" /\ out.callback = RET_ERR
  \/ checked /\ out.ret # RET_OK

\* A call from step s, and the step that follows.
Calls(s, outcomes, callback, checked, next) ==
  /\ pc = s
  /\ \E out \in outcomes :
       pc' = CASE out.ret = Crash -> "crashed"
               [] out.ret # Crash /\ Exits(out, callback, checked) -> "exited"
               [] OTHER -> next
  /\ UNCHANGED <<cfgNode, arguments>>

\* Reading a field that has no value may run past its end.
Reading(field, outcomes) ==
  IF field \in cfgNode THEN outcomes ELSE outcomes \cup {Crashed}

\* The context main passes: waku_new returned a pointer, or event_handler
\* ended the program.
Main(f) == Outcomes(f, "valid")

New ==
  /\ Calls("new", Reading("key", NewOutcomes), "event_handler", FALSE, "topic")
  /\ UNCHANGED <<eventCallback, eventUserData, subscribed, events, shown>>

Greet ==
  /\ \/ Calls("topic", Main("waku_default_pubsub_topic"), "print", TRUE, "version")
     \/ Calls("version", Main("waku_version"), "print", TRUE, "callback")
  /\ UNCHANGED <<eventCallback, eventUserData, subscribed, events, shown>>

SetEventCallback ==
  /\ Calls("callback", Main("waku_set_event_callback"), "event_handler", FALSE, "start")
  /\ eventCallback' = "event_handler"
  /\ eventUserData' = userData
  /\ UNCHANGED <<subscribed, events, shown>>

\* Whether the node started is not known.
Start ==
  /\ \/ Calls("start", Main("waku_start"), "event_handler", FALSE, "listen")
     \/ Calls("listen", Main("waku_listen_addresses"), "event_handler", FALSE, "connect")
     \/ Calls("connect", Reading("peers", Main("waku_connect")), "event_handler", TRUE,
              "subscribe")
  /\ UNCHANGED <<eventCallback, eventUserData, subscribed, events, shown>>

Subscribe ==
  /\ Calls("subscribe", Main("waku_relay_subscribe"), "event_handler", TRUE, "menu")
  /\ subscribed' = (pc' = "menu")
  /\ UNCHANGED <<eventCallback, eventUserData, events, shown>>

-----------------------------------------------------------------------------
(* The menu.                                                               *)

\* Subscribing and connecting pass the address of ctx for the context.
MenuRequest(f) ==
  /\ Calls("menu", Outcomes(f, "wild"), "event_handler", TRUE, "menu")
  /\ UNCHANGED <<eventCallback, eventUserData, subscribed, events, shown>>

\* publish_message asks for the content topic with RET_OK for the context,
\* which is a null pointer, and then publishes with the address of ctx.
PublishMessage ==
  /\ \/ Calls("menu", Outcomes("waku_content_topic", "nil"), "handle_content_topic", TRUE,
              "publish")
     \/ Calls("publish", Outcomes("waku_relay_publish", "wild"), "event_handler", TRUE,
              "menu")
  /\ UNCHANGED <<eventCallback, eventUserData, subscribed, events, shown>>

\* Other input is ignored.
HandleUserInput ==
  \/ \E f \in {"waku_relay_subscribe", "waku_connect"} : MenuRequest(f)
  \/ PublishMessage

\* A message arrives on the topic; relayEventCallback runs in the node's
\* thread.
RelayEvent ==
  /\ subscribed /\ pc \notin {"exited", "crashed"}
  /\ events < MaxEvents
  /\ events' = events + 1
  /\ shown' = IF RelayEventHandled(eventCallback, eventUserData) THEN shown + 1 ELSE shown
  /\ UNCHANGED <<pc, cfgNode, arguments, eventCallback, eventUserData, subscribed>>

Next ==
  \/ \E field \in options : ParseOption(field)
  \/ ParseArgument
  \/ \E known \in BOOLEAN : ParseEnd(known)
  \/ New \/ Greet \/ SetEventCallback \/ Start \/ Subscribe
  \/ HandleUserInput
  \/ RelayEvent

Spec == Init /\ [][Next]_vars

-----------------------------------------------------------------------------
\* Every message that arrives on the topic main subscribed to is shown: "we
\* don't need to store a particular userData" says that the NULL main passes
\* along with event_handler does no harm.
EventsShown == shown = events
=============================================================================
