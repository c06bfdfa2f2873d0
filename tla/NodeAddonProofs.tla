--------------------------- MODULE NodeAddonProofs ---------------------------
(***************************************************************************)
(* What the Node.js addon does with its memory and callbacks, for every    *)
(* number of calls, and with the messages it publishes.                    *)
(*                                                                         *)
(* The heap is counted (HeapBalanced): the items allocated and not freed   *)
(* are those queued, a sum of which each step changes one term             *)
(* (InductionLemmas).  A slot's reference is live and no other slot has it *)
(* (ReferencesOwn), so deleting one never deletes what another handler     *)
(* calls.                                                                  *)
(*                                                                         *)
(* The encoder of Base64 loses nothing: the decoder of RFC 4648 makes the  *)
(* same bytes of what b64_encode wrote, for inputs of every length.  With  *)
(* that, what is published decodes to the C string that was given: a       *)
(* message is never cut on its way through the buffers.                    *)
(***************************************************************************)
EXTENDS NodeAddon, InductionLemmas

\* Each slot has a reference of its own, made in some call so far.
ReferencesOwn ==
  /\ \A s \in Slots : ref[s] <= calls
  /\ \A s, u \in Slots : ref[s] = ref[u] /\ ref[s] # 0 => s = u

\* The inductive invariant.
IInv ==
  /\ TypeOK
  /\ HeapBalanced
  /\ ReferencesLive
  /\ CallbackIsOwn
  /\ ReferencesOwn
-----------------------------------------------------------------------------
(* Arguments.                                                              *)

\* What the exported functions check their arguments against.
Signatures == {<<"string">>, FunctionSig, ConnectSig, SubscribeSig, PublishSig}

\* Some argument is the first one refused, or all are accepted.
LEMMA RefusedFacts ==
  ASSUME NEW n \in Nat, NEW sig, Len(sig) = n, NEW args
  PROVE  Refused(sig, args) \in 1..(n + 1)
<1> DEFINE T == {i \in 1..(n + 1) : i <= n => args[i] # sig[i]}
           P(i) == /\ \A k \in 1..(i - 1) : args[k] = sig[k]
                   /\ i <= n => args[i] # sig[i]
<1>1. PICK i \in T : \A m \in T : i <= m
  <2>1. T \in SUBSET Nat /\ n + 1 \in T
    OBVIOUS
  <2> HIDE DEF T
  <2> QED  BY <2>1, LeastExists
<1>2. ASSUME NEW k \in 1..(i - 1)  PROVE args[k] = sig[k]
  <2>1. k \in 1..(n + 1) /\ k < i
    OBVIOUS
  <2>2. k \notin T
    BY <1>1, <2>1
  <2> QED  BY <2>1, <2>2
<1>3. i \in 1..(n + 1) /\ P(i)
  BY <1>2
<1> HIDE DEF P, T
<1>4. (CHOOSE k \in 1..(n + 1) : P(k)) \in 1..(n + 1)
  BY <1>3, Zenon
<1>5. Refused(sig, args) = IF Len(args) < Len(sig) THEN 1 ELSE CHOOSE k \in 1..(n + 1) : P(k)
  BY DEF Refused, P
<1>6. 1 \in 1..(n + 1)
  OBVIOUS
<1> QED  BY <1>4, <1>5, <1>6, Zenon

\* No function leaves more than two copies behind.
LEMMA CopiedFew ==
  ASSUME NEW sig \in Signatures, NEW i \in 1..Len(sig)
  PROVE  Copied(sig, i) \in Nat /\ Copied(sig, i) <= 2
<1> DEFINE C == {k \in 1..(i - 1) : sig[k] = "string"}
<1>1. C \subseteq {1, 2}
  <2> SUFFICES ASSUME NEW k \in C  PROVE k \in {1, 2}
    OBVIOUS
  <2>1. CASE sig \in {<<"string">>, FunctionSig, SubscribeSig}
    BY <2>1 DEF FunctionSig, SubscribeSig
  <2>2. CASE sig = ConnectSig
    <3>1. k \in {1, 2}
      BY <2>2 DEF ConnectSig
    <3> QED  BY <3>1
  <2>3. CASE sig = PublishSig
    <3>1. k \in {1, 2, 3, 4} /\ sig[k] = "string"
      BY <2>3 DEF PublishSig
    <3>2. sig[3] = "message" /\ sig[4] = "number"
      BY <2>3 DEF PublishSig
    <3> QED  BY <3>1, <3>2
  <2> QED  BY <2>1, <2>2, <2>3 DEF Signatures
<1>2. IsFiniteSet({1, 2}) /\ Cardinality({1, 2}) <= 2
  <2>1. IsFiniteSet({1}) /\ Cardinality({1}) = 1
    BY FS_Singleton
  <2>2. {1, 2} = {1} \cup {2}
    OBVIOUS
  <2> QED  BY <2>1, <2>2, FS_AddElement
<1> HIDE DEF C
<1>3. IsFiniteSet(C) /\ Cardinality(C) <= 2 /\ Cardinality(C) \in Nat
  <2>1. IsFiniteSet(C) /\ Cardinality(C) <= Cardinality({1, 2})
    BY <1>1, <1>2, FS_Subset
  <2>2. Cardinality(C) \in Nat /\ Cardinality({1, 2}) \in Nat
    BY <1>2, <2>1, FS_CardinalityType
  <2> QED  BY <1>2, <2>1, <2>2
<1> QED  BY <1>3 DEF Copied, C

-----------------------------------------------------------------------------
(* Parts of the exported functions.                                        *)

\* A function is entered with a number of its own, not used before.
LEMMA ExportedFacts ==
  ASSUME IInv, Exported
  PROVE  /\ calls \in Nat /\ MaxCalls \in Nat /\ This = calls + 1 /\ This \in Calls
         /\ This \in 0..MaxCalls /\ This # 0
         /\ calls' = This /\ calls' \in 0..MaxCalls /\ status = "running"
  BY InputsAssumption DEF IInv, TypeOK, Exported, This, Calls

\* The globals that hold references, when they are left alone.
LEMMA ReferencesKept ==
  ASSUME IInv, calls' \in Nat, calls <= calls', ref' = ref, references' = references
  PROVE  /\ ref' \in [Slots -> 0..MaxCalls] /\ references' \subseteq Calls
         /\ ReferencesLive' /\ ReferencesOwn'
<1>1. \A s \in Slots : ref[s] \in Nat /\ ref[s] <= calls /\ calls \in Nat
  BY InputsAssumption DEF IInv, TypeOK, ReferencesOwn
<1>2. \A s \in Slots : ref[s] <= calls'
  BY <1>1
<1> QED  BY <1>2 DEF IInv, TypeOK, ReferencesLive, ReferencesOwn, Calls

\* The reference of one slot is replaced by that of this call; at most the
\* earlier one of the slot is deleted.
LEMMA ReferenceNew ==
  ASSUME IInv, Exported, NEW slot \in Slots,
         ref' = [ref EXCEPT ![slot] = This],
         NEW gone, gone \subseteq {ref[slot]}, references' = (references \ gone) \cup {This}
  PROVE  /\ ref' \in [Slots -> 0..MaxCalls] /\ references' \subseteq Calls
         /\ ReferencesLive' /\ ReferencesOwn' /\ ref'[slot] = This
<1>1. /\ calls \in Nat /\ MaxCalls \in Nat /\ This = calls + 1 /\ This \in Calls
      /\ This \in 0..MaxCalls /\ This # 0 /\ calls' = This
  BY ExportedFacts
<1>2. ref \in [Slots -> 0..MaxCalls] /\ references \subseteq Calls
  BY DEF IInv, TypeOK
<1> HIDE DEF This
<1>3. ref' \in [Slots -> 0..MaxCalls] /\ ref'[slot] = This
      /\ \A s \in Slots : s # slot => ref'[s] = ref[s]
  BY <1>1, <1>2
<1>4. \A s \in Slots : ref[s] \in Nat /\ ref[s] <= calls /\ ref[s] # This
  BY <1>1, <1>2 DEF IInv, ReferencesOwn
<1>5. ReferencesOwn'
  <2>1. \A s \in Slots : ref'[s] <= calls'
    BY <1>1, <1>3, <1>4
  <2>2. ASSUME NEW s \in Slots, NEW u \in Slots, ref'[s] = ref'[u], ref'[s] # 0
        PROVE  s = u
    BY <1>3, <1>4, <2>2 DEF IInv, ReferencesOwn
  <2> QED  BY <2>1, <2>2 DEF ReferencesOwn
<1>6. ReferencesLive'
  <2> SUFFICES ASSUME NEW s \in Slots, ref'[s] # 0  PROVE ref'[s] \in references'
    BY DEF ReferencesLive
  <2>1. CASE s = slot
    BY <1>3, <2>1
  <2>2. CASE s # slot
    <3>1. ref[s] \in references
      BY <1>3, <2>2 DEF IInv, ReferencesLive
    <3>2. ref[s] # ref[slot]
      BY <1>3, <2>2 DEF IInv, ReferencesOwn
    <3> QED  BY <1>3, <2>2, <3>1, <3>2
  <2> QED  BY <2>1, <2>2
<1>7. references' \subseteq Calls
  BY <1>1, <1>2
<1> QED  BY <1>3, <1>5, <1>6, <1>7

\* A slot whose old reference is deleted keeps the references sound.
LEMMA ReplaceFacts ==
  ASSUME IInv, Exported, NEW slot \in Slots, ReplaceReference(slot)
  PROVE  /\ ref' \in [Slots -> 0..MaxCalls] /\ references' \subseteq Calls
         /\ ReferencesLive' /\ ReferencesOwn' /\ ref'[slot] = This
<1>1. {ref[slot]} \subseteq {ref[slot]}
  OBVIOUS
<1>2. ref' = [ref EXCEPT ![slot] = This] /\ references' = (references \ {ref[slot]}) \cup {This}
  BY DEF ReplaceReference
<1> QED  BY <1>1, <1>2, ReferenceNew

\* So does a slot whose old reference is left behind.
LEMMA OverwriteFacts ==
  ASSUME IInv, Exported, NEW slot \in Slots, OverwriteReference(slot)
  PROVE  /\ ref' \in [Slots -> 0..MaxCalls] /\ references' \subseteq Calls
         /\ ReferencesLive' /\ ReferencesOwn' /\ ref'[slot] = This
<1> DEFINE gone == {}
<1>1. gone \subseteq {ref[slot]}
  OBVIOUS
<1>2. ref' = [ref EXCEPT ![slot] = This] /\ references' = (references \ gone) \cup {This}
  BY DEF OverwriteReference
<1> HIDE DEF gone
<1> QED  BY <1>1, <1>2, ReferenceNew

\* A handler calls the function given to this call.
LEMMA HandleFacts ==
  ASSUME IInv, Exported, NEW slot, ref'[slot] = This, NEW out, NEW env, Handle(out, slot, env)
  PROVE  CallbackIsOwn' /\ jsCall' \in [during : 0..MaxCalls, fn : 0..MaxCalls]
<1>1. This \in 0..MaxCalls
  BY ExportedFacts
<1> HIDE DEF This
<1>2. jsCall' = [during |-> This, fn |-> This] \/ jsCall' = jsCall
  BY DEF Handle
<1> QED  BY <1>1, <1>2 DEF IInv, TypeOK, CallbackIsOwn

\* How a call may leave the process.
LEMMA AfterType ==
  ASSUME NEW out, NEW js \in JsOutcomes, NEW env \in BOOLEAN
  PROVE  After(out, js, env) \in {"running", "ended", "aborted", "crashed"}
  BY DEF After, JsOutcomes

-----------------------------------------------------------------------------
(* The heap.                                                               *)

\* Left alone.
LEMMA HeapKept ==
  ASSUME IInv, status' \in {"running", "ended"} => Alive,
         heap' = heap, queues' = queues, contentTopic' = contentTopic, thrown' = thrown
  PROVE  heap' \in [Blocks -> Nat] /\ thrown' \in Nat /\ HeapBalanced'
  BY DEF IInv, TypeOK, HeapBalanced, Alive, Calls

\* A TypeError, after h has been made of the heap.
LEMMA ThrowFacts ==
  ASSUME IInv, status = "running", NEW sig \in Signatures, NEW i \in 1..Len(sig),
         NEW h \in [Blocks -> Nat], Throw(sig, i, h), queues' = queues,
         h["item"] = heap["item"], h["string"] = heap["string"],
         h["topic"] = (IF contentTopic' = NoTopic THEN 0 ELSE 1)
  PROVE  heap' \in [Blocks -> Nat] /\ thrown' \in Nat /\ HeapBalanced'
<1> DEFINE c == Copied(sig, i)
<1>1. c \in Nat /\ c <= 2
  BY CopiedFew
<1>2. thrown' = thrown + 1 /\ heap' = [h EXCEPT !["string"] = @ + c]
  BY DEF Throw
<1> HIDE DEF c
<1>3. "string" \in Blocks /\ "item" \in Blocks /\ "topic" \in Blocks
  BY DEF Blocks
<1>4. /\ heap' \in [Blocks -> Nat] /\ heap'["item"] = heap["item"]
      /\ heap'["string"] = heap["string"] + c /\ heap'["topic"] = h["topic"]
  BY <1>1, <1>2, <1>3
<1>5. /\ heap["item"] = SumFunction(queues)
      /\ heap["string"] <= 2 * thrown /\ thrown \in Nat /\ heap["string"] \in Nat
  BY <1>3 DEF IInv, HeapBalanced, Alive, TypeOK
<1>6. heap'["string"] <= 2 * thrown' /\ thrown' \in Nat
  BY <1>1, <1>2, <1>4, <1>5
<1>7. heap'["item"] = SumFunction(queues')
  BY <1>4, <1>5
<1> QED  BY <1>4, <1>6, <1>7 DEF HeapBalanced, Calls

\* SumChanges, for functions of the calls.
LEMMA CallsSum ==
  \A f, h \in [Calls -> Nat] : \A t \in Calls : DiffersOnlyAt(h, f, t, Calls) =>
    /\ SumFunction(f) \in Nat /\ SumFunction(h) \in Nat
    /\ SumFunction(h) + f[t] = SumFunction(f) + h[t]
<1>1. IsFiniteSet(Calls)
  BY InputsAssumption, FS_Interval DEF Calls
<1> QED  BY <1>1, SumChanges

\* The number of items when the queue of one thread-safe function changes.
LEMMA OneQueueChanges ==
  ASSUME queues \in [Calls -> Nat], queues' \in [Calls -> Nat],
         NEW t \in Calls, \A u \in Calls : u # t => queues'[u] = queues[u]
  PROVE  /\ SumFunction(queues) \in Nat /\ SumFunction(queues') \in Nat
         /\ SumFunction(queues') + queues[t] = SumFunction(queues) + queues'[t]
<1>1. DiffersOnlyAt(queues', queues, t, Calls)
  BY DEF DiffersOnlyAt
<1> QED  BY <1>1, CallsSum

\* event_handler, in a call of waku_new that failed.
LEMMA EventFacts ==
  ASSUME IInv, Exported, EventHandler, contentTopic' = contentTopic, thrown' = thrown
  PROVE  /\ queues' \in [Calls -> Nat] /\ heap' \in [Blocks -> Nat] /\ HeapBalanced'
         /\ status' \in {"running", "aborted"}
<1>1. MaxCalls \in Nat /\ status = "running"
  BY ExportedFacts
<1>2. queues \in [Calls -> Nat] /\ heap \in [Blocks -> Nat] /\ thsafe_fn \in 0..MaxCalls
  BY DEF IInv, TypeOK
<1>3. CASE thsafe_fn = 0
  <2>1. status' = "aborted" /\ queues' = queues /\ heap' = heap
    BY <1>3 DEF EventHandler
  <2> QED  BY <1>2, <2>1, HeapKept
<1>4. CASE thsafe_fn # 0
  <2> DEFINE t == thsafe_fn
  <2>1. /\ queues' = [queues EXCEPT ![t] = @ + 1]
        /\ heap' = [heap EXCEPT !["item"] = @ + 1] /\ status' = status
    BY <1>4 DEF EventHandler
  <2>2. t \in Calls
    BY <1>1, <1>2, <1>4 DEF Calls
  <2> HIDE DEF t
  <2>3. /\ queues' \in [Calls -> Nat] /\ queues'[t] = queues[t] + 1 /\ queues[t] \in Nat
        /\ \A u \in Calls : u # t => queues'[u] = queues[u]
    BY <1>2, <2>1, <2>2
  <2>4. /\ heap' \in [Blocks -> Nat] /\ heap'["item"] = heap["item"] + 1
        /\ heap'["topic"] = heap["topic"] /\ heap'["string"] = heap["string"]
    BY <1>2, <2>1 DEF Blocks
  <2>5. /\ heap["item"] = SumFunction(queues)
        /\ heap["topic"] = (IF contentTopic = NoTopic THEN 0 ELSE 1)
        /\ heap["string"] <= 2 * thrown
    BY <1>1 DEF IInv, HeapBalanced, Alive
  <2>6. heap'["item"] = SumFunction(queues')
    <3>1. /\ SumFunction(queues) \in Nat /\ SumFunction(queues') \in Nat
          /\ SumFunction(queues') + queues[t] = SumFunction(queues) + queues'[t]
      BY <1>2, <2>2, <2>3, OneQueueChanges
    <3> QED  BY <2>3, <2>4, <2>5, <3>1
  <2>7. HeapBalanced'
    BY <2>4, <2>5, <2>6 DEF HeapBalanced
  <2> QED  BY <1>1, <2>1, <2>3, <2>4, <2>7
<1> QED  BY <1>3, <1>4

-----------------------------------------------------------------------------
(* Each action keeps the invariant.                                        *)

\* The addon starts with nothing allocated and nothing queued.
LEMMA InitIInv == Init => IInv
<1> SUFFICES ASSUME Init  PROVE IInv
  OBVIOUS
<1> USE InputsAssumption
<1>1. TypeOK
  <2>1. /\ calls \in 0..MaxCalls /\ ctx \in 0..MaxCalls /\ thsafe_fn \in 0..MaxCalls
        /\ thrown \in Nat /\ events \in 0..MaxEvents
    <3>1. calls = 0 /\ ctx = 0 /\ thsafe_fn = 0 /\ thrown = 0 /\ events = 0
      BY DEF Init
    <3> QED  BY <3>1
  <2>2. queues \in [Calls -> Nat]
    BY DEF Init
  <2>3. ref \in [Slots -> 0..MaxCalls]
    BY DEF Init
  <2>4. heap \in [Blocks -> Nat]
    BY DEF Init
  <2>6. jsCall \in [during : 0..MaxCalls, fn : 0..MaxCalls]
    BY DEF Init
  <2>7. status = "running" /\ myEnv = FALSE /\ subscribed = FALSE
        /\ references = {} /\ contentTopic = NoTopic
    BY Zenon DEF Init
  <2>8. myEnv \in BOOLEAN /\ subscribed \in BOOLEAN
    BY <2>7, Zenon
  <2> QED  BY <2>1, <2>2, <2>3, <2>4, <2>6, <2>7, <2>8 DEF TypeOK
<1>2. HeapBalanced
  <2>1. queues \in [Calls -> Nat] /\ \A t \in Calls : queues[t] = 0
    BY DEF Init
  <2>2. IsFiniteSet(Calls)
    BY FS_Interval DEF Calls
  <2>3. SumFunction(queues) = 0
    BY <2>1, <2>2, SumOfZeros
  <2>4. heap["item"] = 0 /\ heap["topic"] = 0 /\ heap["string"] = 0 /\ thrown = 0
        /\ contentTopic = NoTopic
    BY DEF Init, Blocks
  <2> QED  BY <2>3, <2>4 DEF HeapBalanced
<1>3. ReferencesLive /\ CallbackIsOwn /\ ReferencesOwn
  BY DEF Init, ReferencesLive, CallbackIsOwn, ReferencesOwn
<1> QED  BY <1>1, <1>2, <1>3 DEF IInv

\* A call that throws a TypeError at once and does nothing else.
LEMMA OnlyThrows ==
  ASSUME IInv, Exported, NEW sig \in Signatures, NEW i \in 1..Len(sig),
         Throw(sig, i, heap),
         UNCHANGED <<status, ctx, myEnv, ref, references, thsafe_fn, queues, contentTopic,
                     subscribed, events, jsCall>>
  PROVE  IInv'
<1>1. calls' \in 0..MaxCalls /\ calls' \in Nat /\ calls <= calls' /\ status = "running"
      /\ calls' = This
  BY ExportedFacts
<1>3. ReferencesLive' /\ ReferencesOwn'
  BY <1>1, ReferencesKept
<1>4. heap' \in [Blocks -> Nat] /\ thrown' \in Nat /\ HeapBalanced'
  <2>1. heap \in [Blocks -> Nat] /\ heap["topic"] = (IF contentTopic' = NoTopic THEN 0 ELSE 1)
    BY <1>1 DEF IInv, TypeOK, HeapBalanced, Alive
  <2> QED  BY <1>1, <2>1, ThrowFacts
<1>5. TypeOK'
  BY <1>1, <1>4 DEF IInv, TypeOK, Calls
<1>6. CallbackIsOwn'
  BY DEF IInv, CallbackIsOwn
<1> QED  BY <1>3, <1>4, <1>5, <1>6 DEF IInv

\* waku_new sets ctx and nothing else that lasts.
LEMMA WakuNewKeeps ==
  ASSUME IInv, NEW args, WakuNew(args)
  PROVE  IInv'
<1>1. Exported /\ UNCHANGED <<myEnv, ref, references, thsafe_fn, contentTopic, subscribed,
                              events, jsCall>>
  BY DEF WakuNew
<1>2. /\ calls' \in 0..MaxCalls /\ calls' \in Nat /\ calls <= calls' /\ status = "running"
      /\ This \in 0..MaxCalls
  BY <1>1, ExportedFacts
<1>3. CASE args = <<>>
  <2>1. Throw(<<"string">>, 1, heap) /\ UNCHANGED <<status, ctx, queues>>
    BY <1>3 DEF WakuNew
  <2>2. <<"string">> \in Signatures /\ 1 \in 1..Len(<<"string">>)
    BY DEF Signatures
  <2> QED  BY <1>1, <2>1, <2>2, OnlyThrows
<1>4. CASE args # <<>>
  <2>1. PICK out \in NewOutcomes \cup {Crashed} :
          /\ ctx' = IF out.ret = RET_OK THEN This ELSE 0
          /\ CASE out.ret = Crash -> status' = "crashed" /\ UNCHANGED <<queues, heap>>
               [] out.ret = RET_ERR -> EventHandler
               [] out.ret = RET_OK -> UNCHANGED <<status, queues, heap>>
          /\ UNCHANGED thrown
    BY <1>4 DEF WakuNew
  <2>2. out.ret \in {Crash, RET_ERR, RET_OK} /\ RET_OK = 0 /\ RET_ERR = 1 /\ Crash = -2
    BY DEF NewOutcomes, Crashed, Outcome, RET_OK, RET_ERR, Crash
  <2>3. ctx' \in 0..MaxCalls
    <3> HIDE DEF This
    <3> QED  BY <1>2, <2>1, InputsAssumption
  <2>4. \/ (status' \in {"crashed", "running"} /\ UNCHANGED <<queues, heap>>)
        \/ EventHandler
    BY <1>2, <2>1, <2>2
  <2>5. ReferencesLive' /\ ReferencesOwn' /\ CallbackIsOwn'
    BY <1>1, <1>2, ReferencesKept DEF IInv, CallbackIsOwn
  <2>6. CASE status' \in {"crashed", "running"} /\ UNCHANGED <<queues, heap>>
    <3>2. heap' \in [Blocks -> Nat] /\ thrown' \in Nat /\ HeapBalanced'
      BY <1>1, <1>2, <2>1, <2>6, HeapKept DEF Alive
    <3>3. TypeOK'
      BY <1>1, <1>2, <2>1, <2>3, <2>6, <3>2 DEF IInv, TypeOK, Calls
    <3> QED  BY <2>5, <3>2, <3>3 DEF IInv
  <2>7. CASE EventHandler
    <3>1. /\ queues' \in [Calls -> Nat] /\ heap' \in [Blocks -> Nat] /\ HeapBalanced'
          /\ status' \in {"running", "aborted"}
      BY <1>1, <2>1, <2>7, EventFacts
    <3>2. TypeOK'
      BY <1>1, <1>2, <2>1, <2>3, <3>1 DEF IInv, TypeOK, Calls
    <3> QED  BY <2>5, <3>1, <3>2 DEF IInv
  <2> QED  BY <2>4, <2>6, <2>7
<1> QED  BY <1>3, <1>4

\* The functions that ask libwaku for a value and give it to a callback.
LEMMA AskKeeps ==
  ASSUME IInv, NEW f, NEW slot \in Slots, NEW args, Ask(f, slot, args)
  PROVE  IInv'
<1>1. Exported /\ UNCHANGED <<ctx, thsafe_fn, queues, contentTopic, subscribed, events>>
  BY DEF Ask
<1>2. /\ calls' \in 0..MaxCalls /\ calls' \in Nat /\ calls <= calls' /\ status = "running"
  BY <1>1, ExportedFacts
<1>3. CASE ~Accepted(FunctionSig, args)
  <2>1. Throw(FunctionSig, 1, heap) /\ UNCHANGED <<myEnv, ref, references, jsCall, status>>
    BY <1>3 DEF Ask
  <2>2. FunctionSig \in Signatures /\ 1 \in 1..Len(FunctionSig)
    BY DEF Signatures, FunctionSig
  <2> QED  BY <1>1, <2>1, <2>2, OnlyThrows
<1>4. CASE Accepted(FunctionSig, args)
  <2>1. ReplaceReference(slot) /\ UNCHANGED <<thrown, heap>>
    BY <1>4 DEF Ask
  <2>2. PICK out \in Outcomes(f, Context), js \in JsOutcomes :
          Handle(out, slot, TRUE) /\ status' = After(out, js, TRUE)
    BY <1>4 DEF Ask
  <2>3. /\ ref' \in [Slots -> 0..MaxCalls] /\ references' \subseteq Calls
        /\ ReferencesLive' /\ ReferencesOwn' /\ ref'[slot] = This
    BY <1>1, <2>1, ReplaceFacts
  <2>4. CallbackIsOwn' /\ jsCall' \in [during : 0..MaxCalls, fn : 0..MaxCalls]
    BY <1>1, <2>2, <2>3, HandleFacts
  <2>5. status' \in {"running", "ended", "aborted", "crashed"} /\ myEnv' \in BOOLEAN
    BY <2>1, <2>2, AfterType DEF ReplaceReference
  <2>7. heap' \in [Blocks -> Nat] /\ thrown' \in Nat /\ HeapBalanced'
    BY <1>1, <1>2, <2>1, HeapKept DEF Alive
  <2>8. TypeOK'
    BY <1>1, <1>2, <2>3, <2>4, <2>5, <2>7 DEF IInv, TypeOK, Calls
  <2> QED  BY <2>3, <2>4, <2>7, <2>8 DEF IInv
<1> QED  BY <1>3, <1>4

\* waku_set_event_callback makes a queue for the event callback.
LEMMA WakuSetEventCallbackKeeps ==
  ASSUME IInv, NEW args, WakuSetEventCallback(args)
  PROVE  IInv'
<1>1. Exported /\ UNCHANGED <<ctx, ref, references, queues, contentTopic, subscribed, events,
                              jsCall>>
  BY DEF WakuSetEventCallback
<1>2. /\ calls' \in 0..MaxCalls /\ calls' \in Nat /\ calls <= calls' /\ status = "running"
      /\ This \in 0..MaxCalls
  BY <1>1, ExportedFacts
<1>3. CASE ~Accepted(FunctionSig, args)
  <2>1. Throw(FunctionSig, 1, heap) /\ UNCHANGED <<myEnv, thsafe_fn, status>>
    BY <1>3 DEF WakuSetEventCallback
  <2>2. FunctionSig \in Signatures /\ 1 \in 1..Len(FunctionSig)
    BY DEF Signatures, FunctionSig
  <2> QED  BY <1>1, <2>1, <2>2, OnlyThrows
<1>4. CASE Accepted(FunctionSig, args)
  <2>1. /\ myEnv' = TRUE /\ thsafe_fn' = This /\ status' \in {"crashed", status}
        /\ UNCHANGED <<thrown, heap>>
    BY <1>4 DEF WakuSetEventCallback
  <2>2. ReferencesLive' /\ ReferencesOwn' /\ CallbackIsOwn'
    BY <1>1, <1>2, ReferencesKept DEF IInv, CallbackIsOwn
  <2>4. heap' \in [Blocks -> Nat] /\ thrown' \in Nat /\ HeapBalanced'
    BY <1>1, <1>2, <2>1, HeapKept DEF Alive
  <2>5. TypeOK'
    <3> HIDE DEF This
    <3> QED  BY <1>1, <1>2, <2>1, <2>4 DEF IInv, TypeOK, Calls
  <2> QED  BY <2>2, <2>4, <2>5 DEF IInv
<1> QED  BY <1>3, <1>4

\* waku_start touches no memory of the addon.
LEMMA WakuStartKeeps ==
  ASSUME IInv, WakuStart
  PROVE  IInv'
<1>1. Exported /\ UNCHANGED <<ctx, myEnv, ref, references, thsafe_fn, queues, contentTopic,
                              heap, subscribed, thrown, events, jsCall>>
      /\ status' \in {"crashed", status}
  BY DEF WakuStart
<1>2. /\ calls' \in 0..MaxCalls /\ calls' \in Nat /\ calls <= calls' /\ status = "running"
  BY <1>1, ExportedFacts
<1>3. ReferencesLive' /\ ReferencesOwn' /\ CallbackIsOwn'
  BY <1>1, <1>2, ReferencesKept DEF IInv, CallbackIsOwn
<1>5. HeapBalanced'
  BY <1>1, <1>2, HeapKept DEF Alive
<1>6. TypeOK'
  BY <1>1, <1>2 DEF IInv, TypeOK, Calls
<1> QED  BY <1>3, <1>5, <1>6 DEF IInv

\* waku_connect and waku_relay_subscribe keep one callback, for errors.
LEMMA RequestKeeps ==
  ASSUME IInv, NEW sig \in {ConnectSig, SubscribeSig}, NEW args, NEW out,
         Request(sig, args, out), subscribed' \in BOOLEAN,
         UNCHANGED <<ctx, thsafe_fn, queues, contentTopic, events>>
  PROVE  IInv'
<1>1. Exported
  BY DEF Request
<1>2. /\ calls' \in 0..MaxCalls /\ calls' \in Nat /\ calls <= calls' /\ status = "running"
  BY <1>1, ExportedFacts
<1>3. sig \in Signatures /\ Len(sig) \in Nat
  BY DEF Signatures, ConnectSig, SubscribeSig
<1>5. CASE ~Accepted(sig, args)
  <2> DEFINE i == Refused(sig, args)
  <2>1. Throw(sig, i, heap) /\ UNCHANGED <<myEnv, ref, references, jsCall, status>>
    BY <1>5 DEF Request
  <2>2. i \in 1..(Len(sig) + 1) /\ i # Len(sig) + 1
    BY <1>3, <1>5, RefusedFacts DEF Accepted
  <2> HIDE DEF i
  <2>3. i \in 1..Len(sig)
    BY <1>3, <2>2
  <2>4. ReferencesLive' /\ ReferencesOwn' /\ CallbackIsOwn'
    BY <1>2, <2>1, ReferencesKept DEF IInv, CallbackIsOwn
  <2>5. heap' \in [Blocks -> Nat] /\ thrown' \in Nat /\ HeapBalanced'
    <3>1. heap \in [Blocks -> Nat] /\ heap["topic"] = (IF contentTopic' = NoTopic THEN 0 ELSE 1)
      BY <1>2 DEF IInv, TypeOK, HeapBalanced, Alive
    <3> QED  BY <1>2, <1>3, <2>1, <2>3, <3>1, ThrowFacts
  <2>6. TypeOK'
    BY <1>2, <2>1, <2>5 DEF IInv, TypeOK, Calls
  <2> QED  BY <2>4, <2>5, <2>6 DEF IInv
<1>6. CASE Accepted(sig, args)
  <2>1. /\ myEnv' = TRUE /\ OverwriteReference("error") /\ Handle(out, "error", TRUE)
        /\ UNCHANGED <<thrown, heap>> /\ \E js \in JsOutcomes : status' = After(out, js, TRUE)
    BY <1>6 DEF Request
  <2>2. /\ ref' \in [Slots -> 0..MaxCalls] /\ references' \subseteq Calls
        /\ ReferencesLive' /\ ReferencesOwn' /\ ref'["error"] = This
    <3>1. "error" \in Slots
      BY DEF Slots
    <3> QED  BY <1>1, <2>1, <3>1, OverwriteFacts
  <2>3. CallbackIsOwn' /\ jsCall' \in [during : 0..MaxCalls, fn : 0..MaxCalls]
    BY <1>1, <2>1, <2>2, HandleFacts
  <2>4. status' \in {"running", "ended", "aborted", "crashed"}
    BY <2>1, AfterType
  <2>5. heap' \in [Blocks -> Nat] /\ thrown' \in Nat /\ HeapBalanced'
    BY <1>2, <2>1, HeapKept DEF Alive
  <2>6. TypeOK'
    BY <1>2, <2>1, <2>2, <2>3, <2>4, <2>5 DEF IInv, TypeOK, Calls
  <2> QED  BY <2>2, <2>3, <2>5, <2>6 DEF IInv
<1> QED  BY <1>5, <1>6

\* handle_content_topic leaves one content topic on the heap.
LEMMA StoreFacts ==
  ASSUME IInv, status = "running"
  PROVE  LET h == StoreContentTopic(heap)
         IN  /\ h \in [Blocks -> Nat] /\ h["topic"] = 1
             /\ h["item"] = heap["item"] /\ h["string"] = heap["string"]
<1>1. heap \in [Blocks -> Nat] /\ heap["topic"] = (IF contentTopic = NoTopic THEN 0 ELSE 1)
  BY DEF IInv, TypeOK, HeapBalanced, Alive
<1>2. "topic" \in Blocks /\ "item" \in Blocks /\ "string" \in Blocks
  BY DEF Blocks
<1> QED  BY <1>1, <1>2 DEF StoreContentTopic

\* waku_relay_publish leaves what it does not free.
LEMMA WakuRelayPublishKeeps ==
  ASSUME IInv, NEW message, NEW name \in TopicNames, NEW args,
         WakuRelayPublish(message, name, args)
  PROVE  IInv'
<1> DEFINE i == Refused(PublishSig, args)
           topic == 20 + name
<1>1. Exported /\ UNCHANGED <<ctx, myEnv, thsafe_fn, queues, subscribed, events>>
  BY DEF WakuRelayPublish
<1>2. /\ calls' \in 0..MaxCalls /\ calls' \in Nat /\ calls <= calls' /\ status = "running"
  BY <1>1, ExportedFacts
<1>3. PublishSig \in Signatures /\ Len(PublishSig) = 5
  BY DEF Signatures, PublishSig
<1>4. i \in 1..6
  <2>1. i \in 1..(5 + 1)
    BY <1>3, RefusedFacts
  <2> QED  BY <2>1
<1>5. topic \in Nat /\ topic # NoTopic
  <2>1. name \in Nat
    BY InputsAssumption
  <2> QED  BY <2>1 DEF NoTopic
<1>6. /\ CASE i <= 3 ->
                /\ Throw(PublishSig, i, heap)
                /\ UNCHANGED <<status, contentTopic, ref, references, jsCall, published>>
           [] i > 3 /\ ctx = 0 ->
                /\ status' = "crashed"
                /\ UNCHANGED <<thrown, heap, contentTopic, ref, references, jsCall, published>>
           [] i \in {4, 5} /\ ctx # 0 ->
                /\ contentTopic' = topic
                /\ Throw(PublishSig, i, StoreContentTopic(heap))
                /\ status' \in {"running"} \cup (IF i = 5 THEN {"crashed"} ELSE {})
                /\ UNCHANGED <<ref, references, jsCall, published>>
           [] i = 6 /\ ctx # 0 ->
                /\ contentTopic' = topic
                /\ heap' = StoreContentTopic(heap)
                /\ Publish(message, Text(message), topic)
                /\ UNCHANGED thrown
  BY DEF WakuRelayPublish
<1> HIDE DEF i, topic
<1>8. CASE i <= 3
  <2>1. Throw(PublishSig, i, heap) /\ UNCHANGED <<status, contentTopic, ref, references, jsCall>>
    <3>1. ~(i > 3) /\ i \notin {4, 5} /\ i # 6
      BY <1>4, <1>8
    <3> QED  BY <1>6, <1>8, <3>1, Zenon
  <2>2. i \in 1..Len(PublishSig)
    BY <1>3, <1>4, <1>8
  <2> QED  BY <1>1, <1>3, <2>1, <2>2, OnlyThrows
<1>9. CASE i > 3 /\ ctx = 0
  <2>1. /\ status' = "crashed"
        /\ UNCHANGED <<thrown, heap, contentTopic, ref, references, jsCall>>
    BY <1>4, <1>6, <1>9
  <2>2. ReferencesLive' /\ ReferencesOwn' /\ CallbackIsOwn'
    BY <1>2, <2>1, ReferencesKept DEF IInv, CallbackIsOwn
  <2>3. HeapBalanced'
    BY <1>1, <1>2, <2>1, HeapKept DEF Alive
  <2>4. TypeOK'
    BY <1>1, <1>2, <2>1 DEF IInv, TypeOK, Calls
  <2> QED  BY <2>2, <2>3, <2>4 DEF IInv
<1>10. CASE i \in {4, 5} /\ ctx # 0
  <2> DEFINE h == StoreContentTopic(heap)
  <2>1. /\ contentTopic' = topic /\ Throw(PublishSig, i, h)
        /\ status' \in {"running", "crashed"}
        /\ UNCHANGED <<ref, references, jsCall>>
    <3>1. ~(i <= 3) /\ i # 6
      BY <1>4, <1>10
    <3> QED  BY <1>6, <1>10, <3>1, Zenon
  <2>2. i \in 1..Len(PublishSig)
    BY <1>3, <1>4, <1>10
  <2>3. /\ h \in [Blocks -> Nat] /\ h["topic"] = 1
        /\ h["item"] = heap["item"] /\ h["string"] = heap["string"]
    BY <1>2, StoreFacts
  <2> HIDE DEF h
  <2>4. h["topic"] = (IF contentTopic' = NoTopic THEN 0 ELSE 1)
    BY <1>5, <2>1, <2>3
  <2>5. heap' \in [Blocks -> Nat] /\ thrown' \in Nat /\ HeapBalanced'
    BY <1>1, <1>2, <1>3, <2>1, <2>2, <2>3, <2>4, ThrowFacts
  <2>6. ReferencesLive' /\ ReferencesOwn' /\ CallbackIsOwn'
    BY <1>2, <2>1, ReferencesKept DEF IInv, CallbackIsOwn
  <2>7. TypeOK'
    BY <1>1, <1>2, <1>5, <2>1, <2>5 DEF IInv, TypeOK, Calls
  <2> QED  BY <2>5, <2>6, <2>7 DEF IInv
<1>11. CASE i = 6 /\ ctx # 0
  <2>1. /\ contentTopic' = topic /\ heap' = StoreContentTopic(heap)
        /\ Publish(message, Text(message), topic) /\ thrown' = thrown
    BY <1>4, <1>6, <1>11
  <2>2. PICK out \in PublishOutcomes(Text(message), topic) \cup {Crashed}, js \in JsOutcomes :
          /\ OverwriteReference("error") /\ Handle(out, "error", myEnv)
          /\ status' = After(out, js, myEnv)
    BY <2>1 DEF Publish
  <2>3. /\ ref' \in [Slots -> 0..MaxCalls] /\ references' \subseteq Calls
        /\ ReferencesLive' /\ ReferencesOwn' /\ ref'["error"] = This
    <3>1. "error" \in Slots
      BY DEF Slots
    <3> QED  BY <1>1, <2>2, <3>1, OverwriteFacts
  <2>4. CallbackIsOwn' /\ jsCall' \in [during : 0..MaxCalls, fn : 0..MaxCalls]
    BY <1>1, <2>2, <2>3, HandleFacts
  <2>5. status' \in {"running", "ended", "aborted", "crashed"}
    <3>1. myEnv \in BOOLEAN
      BY DEF IInv, TypeOK
    <3> QED  BY <2>2, <3>1, AfterType
  <2>6. /\ heap' \in [Blocks -> Nat] /\ heap'["topic"] = 1
        /\ heap'["item"] = heap["item"] /\ heap'["string"] = heap["string"]
    BY <1>2, <2>1, StoreFacts
  <2>7. HeapBalanced'
    <3>1. /\ heap["item"] = SumFunction(queues)
          /\ heap["string"] <= 2 * thrown
      BY <1>2 DEF IInv, HeapBalanced, Alive
    <3> QED  BY <1>1, <1>5, <2>1, <2>6, <3>1 DEF HeapBalanced, Calls
  <2>8. TypeOK'
    BY <1>1, <1>2, <1>5, <2>1, <2>3, <2>4, <2>5, <2>6 DEF IInv, TypeOK, Calls
  <2> QED  BY <2>3, <2>4, <2>7, <2>8 DEF IInv
<1> QED  BY <1>4, <1>8, <1>9, <1>10, <1>11

\* An item is taken off its queue, delivered or not, and freed.
LEMMA CallJsKeeps ==
  ASSUME IInv, NEW t \in Calls, CallJs(t)
  PROVE  IInv'
<1>1. /\ queues[t] > 0 /\ queues' = [queues EXCEPT ![t] = @ - 1]
      /\ heap' = [heap EXCEPT !["item"] = @ - 1] /\ status \in {"running", "ended"}
      /\ UNCHANGED <<calls, ctx, myEnv, ref, references, thsafe_fn, contentTopic, subscribed,
                     thrown, events>>
  BY DEF CallJs
<1>2. \/ status' \in {"running", "aborted"} /\ jsCall' = [during |-> 0, fn |-> t]
      \/ UNCHANGED <<status, jsCall>>
  BY DEF CallJs
<1>3. /\ queues \in [Calls -> Nat] /\ heap \in [Blocks -> Nat] /\ calls \in Nat
      /\ MaxCalls \in Nat /\ t \in 0..MaxCalls
  BY InputsAssumption DEF IInv, TypeOK, Calls
<1>4. /\ queues' \in [Calls -> Nat] /\ queues'[t] = queues[t] - 1 /\ queues[t] \in Nat
      /\ \A u \in Calls : u # t => queues'[u] = queues[u]
  BY <1>1, <1>3
<1>5. /\ heap["item"] = SumFunction(queues)
      /\ heap["topic"] = (IF contentTopic = NoTopic THEN 0 ELSE 1)
      /\ heap["string"] <= 2 * thrown
  BY <1>1 DEF IInv, HeapBalanced, Alive
<1>6. heap'["item"] = SumFunction(queues') /\ heap'["item"] \in Nat
  <2>1. /\ SumFunction(queues) \in Nat /\ SumFunction(queues') \in Nat
        /\ SumFunction(queues') + queues[t] = SumFunction(queues) + queues'[t]
    BY <1>3, <1>4, OneQueueChanges
  <2>2. heap'["item"] = heap["item"] - 1
    BY <1>1, <1>3 DEF Blocks
  <2> QED  BY <1>4, <1>5, <2>1, <2>2
<1>7. heap' \in [Blocks -> Nat] /\ heap'["topic"] = heap["topic"]
      /\ heap'["string"] = heap["string"]
  BY <1>1, <1>3, <1>6 DEF Blocks
<1>8. HeapBalanced'
  BY <1>1, <1>5, <1>6, <1>7 DEF HeapBalanced
<1>9. ReferencesLive' /\ ReferencesOwn'
  BY <1>1, <1>3, ReferencesKept
<1>10. /\ jsCall' \in [during : 0..MaxCalls, fn : 0..MaxCalls] /\ CallbackIsOwn'
       /\ status' \in {"running", "ended", "aborted", "crashed"}
  BY <1>1, <1>2, <1>3 DEF IInv, TypeOK, CallbackIsOwn
<1>11. TypeOK'
  BY <1>1, <1>4, <1>7, <1>10 DEF IInv, TypeOK, Calls
<1> QED  BY <1>8, <1>9, <1>10, <1>11 DEF IInv

\* The relay's messages never reach a queue: the user data is NULL.
LEMMA RelayEventKeeps ==
  ASSUME IInv, RelayEvent
  PROVE  IInv'
<1>1. /\ events < MaxEvents /\ events' = events + 1
      /\ UNCHANGED <<calls, ctx, myEnv, ref, references, thsafe_fn, contentTopic, subscribed,
                     thrown, jsCall>>
  BY DEF RelayEvent
<1>2. ~RelayEventHandled("event_handler", userData)
  BY DEF RelayEventHandled, userData
<1>3. UNCHANGED <<status, queues, heap>>
  BY <1>2 DEF RelayEvent
<1>4. events' \in 0..MaxEvents
  BY <1>1, InputsAssumption DEF IInv, TypeOK
<1>5. TypeOK'
  BY <1>1, <1>3, <1>4 DEF IInv, TypeOK, Calls
<1> QED  BY <1>1, <1>3, <1>5
  DEF IInv, HeapBalanced, Alive, ReferencesLive, CallbackIsOwn, ReferencesOwn, Calls

\* The end of the process.
LEMMA CleanupKeeps ==
  ASSUME IInv, Cleanup
  PROVE  IInv'
<1>1. /\ status = "running" /\ status' = "ended"
      /\ UNCHANGED <<calls, ctx, myEnv, ref, references, thsafe_fn, queues, contentTopic, heap,
                     subscribed, thrown, events, jsCall>>
  BY DEF Cleanup
<1>2. TypeOK'
  BY <1>1 DEF IInv, TypeOK, Calls
<1> QED  BY <1>1, <1>2
  DEF IInv, HeapBalanced, Alive, ReferencesLive, CallbackIsOwn, ReferencesOwn, Calls

\* Every step keeps the invariant.
LEMMA StepKeeps ==
  ASSUME IInv, [Next]_vars
  PROVE  IInv'
<1>1. CASE Export
  <2>1. ASSUME NEW args, WakuNew(args)  PROVE IInv'
    BY <2>1, WakuNewKeeps
  <2>2. ASSUME NEW args, WakuVersion(args)  PROVE IInv'
    <3>1. Ask("waku_version", "version", args) /\ "version" \in Slots
      BY <2>2 DEF WakuVersion, Slots
    <3> QED  BY <3>1, AskKeeps
  <2>3. ASSUME NEW args, WakuDefaultPubsubTopic(args)  PROVE IInv'
    <3>1. Ask("waku_default_pubsub_topic", "topic", args) /\ "topic" \in Slots
      BY <2>3 DEF WakuDefaultPubsubTopic, Slots
    <3> QED  BY <3>1, AskKeeps
  <2>4. ASSUME NEW args, WakuSetEventCallback(args)  PROVE IInv'
    BY <2>4, WakuSetEventCallbackKeeps
  <2>5. ASSUME WakuStart  PROVE IInv'
    BY <2>5, WakuStartKeeps
  <2>6. ASSUME NEW args, WakuConnect(args)  PROVE IInv'
    <3>1. PICK out \in Outcomes("waku_connect", Context) : Request(ConnectSig, args, out)
      BY <2>6 DEF WakuConnect
    <3>2. UNCHANGED <<ctx, thsafe_fn, queues, contentTopic, subscribed, events>>
      BY <2>6 DEF WakuConnect
    <3>3. subscribed' \in BOOLEAN
      BY <3>2 DEF IInv, TypeOK
    <3> QED  BY <3>1, <3>2, <3>3, RequestKeeps
  <2>7. ASSUME NEW args, WakuRelaySubscribe(args)  PROVE IInv'
    <3>1. PICK out \in Outcomes("waku_relay_subscribe", Context) :
            /\ Request(SubscribeSig, args, out)
            /\ subscribed' = (subscribed \/ (Accepted(SubscribeSig, args) /\ out.ret = RET_OK))
      BY <2>7, Zenon DEF WakuRelaySubscribe
    <3>2. UNCHANGED <<ctx, thsafe_fn, queues, contentTopic, events>>
      BY <2>7 DEF WakuRelaySubscribe
    <3>3. subscribed' \in BOOLEAN
      BY <3>1, Zenon
    <3> QED  BY <3>1, <3>2, <3>3, RequestKeeps
  <2>8. ASSUME NEW args, NEW message, NEW name \in TopicNames,
               WakuRelayPublish(message, name, args)
        PROVE  IInv'
    BY <2>8, WakuRelayPublishKeeps
  <2> QED
    BY <1>1, <2>1, <2>2, <2>3, <2>4, <2>5, <2>6, <2>7, <2>8 DEF Export
<1>2. ASSUME NEW t \in Calls, CallJs(t)  PROVE IInv'
  BY <1>2, CallJsKeeps
<1>3. CASE RelayEvent
  BY <1>3, RelayEventKeeps
<1>4. CASE Cleanup
  BY <1>4, CleanupKeeps
<1>5. CASE UNCHANGED vars
  <2>1. UNCHANGED <<calls, status, ctx, myEnv, ref, references, thsafe_fn, queues, contentTopic,
                    heap, subscribed, thrown, events, jsCall>>
    BY <1>5 DEF vars
  <2>2. TypeOK'
    BY <2>1 DEF IInv, TypeOK, Calls
  <2> QED
    BY <2>1, <2>2 DEF IInv, HeapBalanced, Alive, ReferencesLive, CallbackIsOwn, ReferencesOwn,
                      Calls
<1> QED  BY <1>1, <1>2, <1>3, <1>4, <1>5 DEF Next

\* The invariant holds throughout.
LEMMA Invariance == Spec => []IInv
<1>1. IInv /\ [Next]_vars => IInv'
  BY StepKeeps
<1> QED  BY <1>1, InitIInv, PTL DEF Spec

\* Through any sequence of calls of the exported functions, with any
\* arguments, failures of the library and callbacks in between, every queued
\* item, content topic and copy of an argument is on the heap once and no
\* longer, and no global holds a deleted reference.
THEOREM AddonMemorySound == Spec => []MemorySound
<1>1. IInv => MemorySound
  BY DEF IInv, MemorySound
<1> QED  BY <1>1, Invariance, PTL

\* A handler calls the JavaScript function given to the call it runs in
\* (ref_version_callback, ref_def_pubsub_topic_callback, ref_on_error_callback).
THEOREM HandlersCallTheirOwn == Spec => []CallbackIsOwn
<1>1. IInv => CallbackIsOwn
  BY DEF IInv
<1> QED  BY <1>1, Invariance, PTL

-----------------------------------------------------------------------------
(* Arithmetic of one group.                                                *)

\* The bytes of 24 bits.
LEMMA BytesOfGroup ==
  ASSUME NEW a \in Byte, NEW b \in Byte, NEW c \in Byte,
         NEW v, v = a * 65536 + b * 256 + c
  PROVE  /\ v \in Nat /\ v < 64 * 262144
         /\ v \div 65536 = a
         /\ (v \div 256) % 256 = b
         /\ v % 256 = c
  <1>1. v \in Nat /\ v < 64 * 262144 /\ v \div 65536 = a /\ v % 256 = c
    BY SMTT(30) DEF Byte
  <1>2. v \div 256 = a * 256 + b
    BY SMTT(30) DEF Byte
  <1>3. (a * 256 + b) % 256 = b
    BY SMTT(30) DEF Byte
  <1> QED
    BY <1>1, <1>2, <1>3, SMTT(30)

\* Six bits taken off a number of 24 bits three times are its characters.
LEMMA SixBitsEach ==
  ASSUME NEW v \in Nat, v < 64 * 262144
  PROVE  /\ v \div 262144 \in 0..63
         /\ (v \div 4096) % 64 \in 0..63
         /\ (v \div 64) % 64 \in 0..63
         /\ v % 64 \in 0..63
         /\ (v \div 262144) * 262144 + ((v \div 4096) % 64) * 4096
              + ((v \div 64) % 64) * 64 + (v % 64) = v
  <1> DEFINE x == v \div 64
             y == x \div 64
             p == y \div 64
             q == y % 64
             r == x % 64
             t == v % 64
  <1>1. x \in Nat /\ t \in 0..63 /\ v = 64 * x + t
    BY SMTT(30)
  <1>2. x \in Nat => y \in Nat /\ r \in 0..63 /\ x = 64 * y + r
    BY SMTT(30)
  <1>3. y \in Nat => p \in Nat /\ q \in 0..63 /\ y = 64 * p + q
    BY SMTT(30)
  <1> HIDE DEF x, t, y, r, p, q
  <1>types. /\ x \in Int /\ y \in Int /\ p \in Int /\ q \in Int /\ r \in Int /\ t \in Int
            /\ 0 <= p /\ 0 <= q /\ q < 64 /\ 0 <= r /\ r < 64 /\ 0 <= t /\ t < 64
            /\ y = 64 * p + q
    BY <1>1, <1>2, <1>3, SMTT(30)
  <1>4. v = 4096 * y + (64 * r + t) /\ 0 <= 64 * r + t /\ 64 * r + t < 4096
    BY <1>1, <1>2, SMTT(30)
  <1>5. v \div 4096 = y
    <2> DEFINE w == 64 * r + t
    <2>1. w \in Int /\ y \in Int
      BY <1>1, <1>2, SMTT(30)
    <2> HIDE DEF w
    <2>2. v = 4096 * y + w /\ 0 <= w /\ w < 4096
      BY <1>4, SMTT(30) DEF w
    <2> QED
      BY <2>1, <2>2, SMTT(30)
  <1>6. v = 262144 * p + (4096 * q + 64 * r + t)
        /\ 0 <= 4096 * q + 64 * r + t /\ 4096 * q + 64 * r + t < 262144
    BY <1>types, <1>4, SMTT(30)
  <1>7. v \div 262144 = p
    <2> DEFINE w == 4096 * q + 64 * r + t
    <2>1. w \in Int /\ p \in Int
      BY <1>types, SMTT(30)
    <2> HIDE DEF w
    <2>2. v = 262144 * p + w /\ 0 <= w /\ w < 262144
      BY <1>6, SMTT(30) DEF w
    <2> QED
      BY <2>1, <2>2, SMTT(30)
  <1>8. p \in 0..63
    BY <1>1, <1>2, <1>3, <1>6, SMTT(30)
  <1>9. /\ p * 262144 + q * 4096 + r * 64 + t = v
        /\ q \in 0..63 /\ r \in 0..63 /\ t \in 0..63
    BY <1>1, <1>2, <1>3, <1>6, SMTT(30)
  <1>10. (v \div 4096) % 64 = q
    BY <1>5, SMTT(30) DEF q
  <1>11. (v \div 64) % 64 = r /\ v % 64 = t
    BY SMTT(30) DEF r, x, t
  <1> QED
    BY <1>7, <1>8, <1>9, <1>10, <1>11, SMTT(30)

\* The size of the output, by how many bytes the last group has.
LEMMA SizeOfOutput ==
  ASSUME NEW n \in Nat
  PROVE  \E g \in Nat :
           /\ EncodedSize(n) = 4 * g
           /\ \/ n % 3 = 0 /\ n = 3 * g
              \/ n % 3 = 1 /\ n = 3 * g - 2
              \/ n % 3 = 2 /\ n = 3 * g - 1
  <1> DEFINE d == n \div 3
  <1>1. d \in Nat /\ n % 3 \in 0..2 /\ n = 3 * d + (n % 3)
    BY SMTT(30)
  <1> HIDE DEF d
  <1>2. CASE n % 3 = 0
    BY <1>1, <1>2, SMTT(30) DEF EncodedSize
  <1>3. CASE n % 3 = 1
    BY <1>1, <1>3, SMTT(30) DEF EncodedSize
  <1>4. CASE n % 3 = 2
    BY <1>1, <1>4, SMTT(30) DEF EncodedSize
  <1> QED
    BY <1>1, <1>2, <1>3, <1>4, SMTT(30)

-----------------------------------------------------------------------------
(* Positions of input and output.                                          *)

\* Beyond the input the encoder takes zeros.
LEMMA BytesOf ==
  ASSUME NEW s \in Seq(Byte), NEW i \in Nat \ {0}
  PROVE  ByteAt(s, i) \in Byte
  <1>1. 0 \in Byte
    BY DEF Byte
  <1>2. i <= Len(s) => s[i] \in Byte
    OBVIOUS
  <1> QED
    BY <1>1, <1>2 DEF ByteAt

\* A group has 24 bits.
LEMMA GroupSize ==
  ASSUME NEW s \in Seq(Byte), NEW i \in Nat \ {0}
  PROVE  Group(s, i) \in Nat /\ Group(s, i) < 64 * 262144
  <1>1. ByteAt(s, i) \in Byte /\ ByteAt(s, i + 1) \in Byte /\ ByteAt(s, i + 2) \in Byte
    BY BytesOf, i + 1 \in Nat \ {0}, i + 2 \in Nat \ {0}, SMTT(30)
  <1> QED
    BY <1>1, BytesOfGroup, SMTT(30) DEF Group

\* The bytes of a group are those at its three places.
HoldsItsBytes(s, i) ==
  /\ Group(s, i) \div 65536 = ByteAt(s, i)
  /\ (Group(s, i) \div 256) % 256 = ByteAt(s, i + 1)
  /\ Group(s, i) % 256 = ByteAt(s, i + 2)

\* A group of the input holds the bytes it was put together from.
LEMMA GroupBytes ==
  ASSUME NEW s \in Seq(Byte), NEW i \in Nat \ {0}
  PROVE  HoldsItsBytes(s, i)
  <1>1. ByteAt(s, i) \in Byte /\ ByteAt(s, i + 1) \in Byte /\ ByteAt(s, i + 2) \in Byte
    BY BytesOf, i + 1 \in Nat \ {0}, i + 2 \in Nat \ {0}, SMTT(30)
  <1> QED
    BY <1>1, BytesOfGroup, SMTT(30) DEF Group, HoldsItsBytes

\* Character j of group k is at position 4k + j + 1.
LEMMA CharAt ==
  ASSUME NEW s \in Seq(Byte), NEW k \in Nat, NEW j \in 0..3,
         4 * k + j + 1 <= EncodedSize(Len(s))
  PROVE  Encode(s)[4 * k + j + 1] = EncodedChar(s, 3 * k + 1, j)
  <1>1. (4 * k + j) \div 4 = k /\ (4 * k + j) % 4 = j
    BY SMTT(30)
  <1>2. Len(s) \in Nat
    OBVIOUS
  <1>3. EncodedSize(Len(s)) \in Nat
    <2>1. PICK g \in Nat : EncodedSize(Len(s)) = 4 * g
      BY <1>2, SizeOfOutput, Zenon
    <2> QED  BY <2>1
  <1> DEFINE m == 4 * k + j + 1
  <1>4. m \in 1..EncodedSize(Len(s)) /\ m - 1 = 4 * k + j
    BY <1>3, SMTT(30)
  <1> HIDE DEF m
  <1>5. Encode(s)[m] = EncodedChar(s, 3 * ((m - 1) \div 4) + 1, (m - 1) % 4)
    BY <1>4, Zenon DEF Encode
  <1>6. 3 * ((m - 1) \div 4) + 1 = 3 * k + 1 /\ (m - 1) % 4 = j
    BY <1>1, <1>4, SMTT(30)
  <1> QED
    BY <1>5, <1>6, Zenon DEF m

\* The characters of a group, padding as zero bits, are the group's 24 bits: where
\* padding stands, the group holds zero bits.
LEMMA GroupSurvives ==
  ASSUME NEW s \in Seq(Byte), NEW k \in Nat, 3 * k + 1 <= Len(s)
  PROVE  DecodedGroup(Encode(s), 4 * k + 1) = Group(s, 3 * k + 1)
  <1> DEFINE n == Len(s)
             i == 3 * k + 1
             v == Group(s, i)
             out == Encode(s)
  <1>1. n \in Nat /\ i \in Nat \ {0}
    OBVIOUS
  <1>g. PICK g \in Nat : EncodedSize(n) = 4 * g /\ n <= 3 * g
    BY <1>1, SizeOfOutput, SMTT(30)
  <1>2. 4 * k + 4 <= EncodedSize(n)
    BY <1>g, <1>1, SMTT(30)
  <1>3. EncodedSize(n) \in Nat
    BY <1>g, SMTT(30)
  <1>4. /\ out[4 * k + 1] = EncodedChar(s, i, 0)
        /\ out[4 * k + 1 + 1] = EncodedChar(s, i, 1)
        /\ out[4 * k + 1 + 2] = EncodedChar(s, i, 2)
        /\ out[4 * k + 1 + 3] = EncodedChar(s, i, 3)
    <2>1. \A j \in 0..3 : out[4 * k + j + 1] = EncodedChar(s, i, j)
      BY <1>2, <1>3, CharAt, SMTT(30)
    <2>2. /\ 4 * k + 1 = 4 * k + 0 + 1 /\ 4 * k + 1 + 1 = 4 * k + 1 + 1
          /\ 4 * k + 1 + 2 = 4 * k + 2 + 1 /\ 4 * k + 1 + 3 = 4 * k + 3 + 1
      OBVIOUS
    <2>3. 0 \in 0..3 /\ 1 \in 0..3 /\ 2 \in 0..3 /\ 3 \in 0..3
      OBVIOUS
    <2> QED
      BY <2>1, <2>2, <2>3
  <1>5. v \in Nat /\ v < 64 * 262144
    BY <1>1, GroupSize, SMTT(30)
  <1> DEFINE p == v \div 262144
             q == (v \div 4096) % 64
             r == (v \div 64) % 64
             t == v % 64
  <1>6. /\ p \in 0..63 /\ q \in 0..63 /\ r \in 0..63 /\ t \in 0..63
        /\ p * 262144 + q * 4096 + r * 64 + t = v
    <2> HIDE DEF v
    <2> QED
      BY <1>5, SixBitsEach, SMTT(30)
  <1>7. /\ EncodedChar(s, i, 0) = p
        /\ EncodedChar(s, i, 1) = q
        /\ EncodedChar(s, i, 2) = IF i + 1 <= n THEN r ELSE Pad
        /\ EncodedChar(s, i, 3) = IF i + 2 <= n THEN t ELSE Pad
    BY SMTT(30) DEF EncodedChar
  <1>8. i + 1 > n => r = 0
    <2> SUFFICES ASSUME i + 1 > n PROVE r = 0
      OBVIOUS
    <2>1. ByteAt(s, i + 1) = 0 /\ ByteAt(s, i + 2) = 0 /\ ByteAt(s, i) \in Byte
      BY <1>1, BytesOf, SMTT(30) DEF ByteAt
    <2> DEFINE a == ByteAt(s, i)
    <2>2. v = a * 65536 + 0 * 256 + 0
      BY <2>1, SMTT(30) DEF Group
    <2>3. a \in 0..255
      BY <2>1, SMTT(30) DEF Byte
    <2> HIDE DEF a, v
    <2>4. v = 64 * (a * 1024)
      BY <2>2, <2>3, SMTT(30)
    <2>5. v \div 64 = a * 1024 /\ (a * 1024) % 64 = 0
      BY <2>3, <2>4, SMTT(30)
    <2> QED
      BY <2>5, SMTT(30)
  <1>9. i + 2 > n => t = 0
    <2> SUFFICES ASSUME i + 2 > n PROVE t = 0
      OBVIOUS
    <2>1. ByteAt(s, i + 2) = 0 /\ ByteAt(s, i) \in Byte /\ ByteAt(s, i + 1) \in Byte
      BY <1>1, BytesOf, i + 1 \in Nat \ {0}, SMTT(30) DEF ByteAt
    <2> DEFINE a == ByteAt(s, i)
               b == ByteAt(s, i + 1)
    <2>2. v = a * 65536 + b * 256 + 0
      BY <2>1, SMTT(30) DEF Group
    <2>3. a \in 0..255 /\ b \in 0..255
      BY <2>1, SMTT(30) DEF Byte
    <2> HIDE DEF a, b, v
    <2>4. v = 64 * (a * 1024 + b * 4)
      BY <2>2, <2>3, SMTT(30)
    <2> QED
      BY <2>3, <2>4, SMTT(30)
  <1> HIDE DEF p, q, r, t
  <1>10. /\ Bits(out, 4 * k + 1) = p
         /\ Bits(out, 4 * k + 1 + 1) = q
         /\ Bits(out, 4 * k + 1 + 2) = r
         /\ Bits(out, 4 * k + 1 + 3) = t
    <2>1. p # Pad /\ q # Pad /\ r # Pad /\ t # Pad
      BY <1>6, SMTT(30) DEF Pad
    <2>2. (IF i + 1 <= n THEN r ELSE Pad) = (IF r = 0 /\ i + 1 > n THEN Pad ELSE r)
      BY <1>1, <1>8
    <2>3. (IF i + 2 <= n THEN t ELSE Pad) = (IF t = 0 /\ i + 2 > n THEN Pad ELSE t)
      BY <1>1, <1>9
    <2> HIDE DEF out, i, n
    <2> QED
      BY <1>4, <1>7, <2>1, <2>2, <2>3 DEF Bits
  <1>11. DecodedGroup(out, 4 * k + 1) = p * 262144 + q * 4096 + r * 64 + t
    BY <1>10, SMTT(30) DEF DecodedGroup
  <1> QED
    BY <1>6, <1>11, SMTT(30)

\* Padding tells the receiver how long the input was.
LEMMA SizeSurvives ==
  ASSUME NEW s \in Seq(Byte)
  PROVE  DecodedSize(Encode(s)) = Len(s)
  <1> DEFINE n == Len(s)
             out == Encode(s)
  <1>1. n \in Nat
    OBVIOUS
  <1>2. PICK g \in Nat : /\ EncodedSize(n) = 4 * g
                         /\ \/ n % 3 = 0 /\ n = 3 * g
                            \/ n % 3 = 1 /\ n = 3 * g - 2
                            \/ n % 3 = 2 /\ n = 3 * g - 1
    BY <1>1, SizeOfOutput
  <1>3. Len(out) = 4 * g
    <2>1. out = [j \in 1..(4 * g) |->
                   EncodedChar(s, 3 * ((j - 1) \div 4) + 1, (j - 1) % 4)]
      BY <1>2, Zenon DEF Encode
    <2> DEFINE E(j) == EncodedChar(s, 3 * ((j - 1) \div 4) + 1, (j - 1) % 4)
    <2> HIDE DEF E, out
    <2>2. out = [j \in 1..(4 * g) |-> E(j)]
      BY <2>1, Zenon DEF E
    <2>3. 4 * g \in Nat
      OBVIOUS
    <2> QED
      BY <2>2, <2>3
  <1>4. (4 * g) \div 4 = g
    OBVIOUS
  <1>5. CASE g = 0
    <2>1. n = 0
      BY <1>1, <1>2, <1>5
    <2>2. Len(out) = 0
      BY <1>3, <1>5
    <2> HIDE DEF out
    <2>3. DecodedSize(out) = 0
      BY <2>2 DEF DecodedSize
    <2> QED
      BY <2>1, <2>3 DEF out
  <1>6. CASE g # 0
    <2> DEFINE k == g - 1
               i == 3 * k + 1
               v == Group(s, i)
    <2>1. k \in Nat /\ i \in Nat \ {0} /\ g = k + 1
      BY <1>6
    <2>2. out[4 * k + 2 + 1] = EncodedChar(s, i, 2) /\ out[4 * k + 3 + 1] = EncodedChar(s, i, 3)
      <3>1. 4 * k + 2 + 1 <= EncodedSize(n) /\ 4 * k + 3 + 1 <= EncodedSize(n)
        BY <1>2, <2>1, SMTT(30)
      <3> HIDE DEF k
      <3> QED
        BY <2>1, <3>1, CharAt, SMTT(30)
    <2>3. 4 * k + 2 + 1 = 4 * g - 1 /\ 4 * k + 3 + 1 = 4 * g
      BY <2>1
    <2>4. v \in Nat /\ v < 64 * 262144
      <3> HIDE DEF i
      <3> QED
        BY <2>1, GroupSize, SMTT(30)
    <2>5. (v \div 64) % 64 # Pad /\ v % 64 # Pad
      <3> HIDE DEF v
      <3>1. (v \div 64) % 64 \in 0..63 /\ v % 64 \in 0..63
        BY <2>4, SixBitsEach, SMTT(30)
      <3>2. \A x \in 0..63 : x # Pad
        BY DEF Pad
      <3> QED
        BY <3>1, <3>2, Zenon
    <2>6. /\ EncodedChar(s, i, 2) = Pad <=> i + 1 > n
          /\ EncodedChar(s, i, 3) = Pad <=> i + 2 > n
      <3> HIDE DEF v
      <3>1. /\ EncodedChar(s, i, 2) = IF i + 1 <= n THEN (v \div 64) % 64 ELSE Pad
            /\ EncodedChar(s, i, 3) = IF i + 2 <= n THEN v % 64 ELSE Pad
        BY SMTT(30) DEF EncodedChar, v
      <3> HIDE DEF i
      <3> QED
        BY <1>1, <2>1, <2>5, <3>1, SMTT(30)
    <2>7. /\ out[4 * g - 1] = Pad <=> 3 * g - 1 > n
          /\ out[4 * g] = Pad <=> 3 * g > n
      <3>1. i + 1 = 3 * g - 1 /\ i + 2 = 3 * g
        BY <2>1
      <3> HIDE DEF out, i, k
      <3> QED
        BY <2>2, <2>3, <2>6, <3>1
    <2>8. DecodedSize(out) = g * 3 - (IF 3 * g > n THEN 1 ELSE 0)
                                   - (IF 3 * g - 1 > n THEN 1 ELSE 0)
      <3>1. 4 * g > 0
        BY <1>6
      <3> HIDE DEF out, n
      <3> QED
        BY <1>3, <1>4, <2>7, <3>1, SMTT(30) DEF DecodedSize
    <2>9. DecodedSize(out) = n
      <3> HIDE DEF out, n
      <3> QED
        BY <1>1, <1>2, <2>8, SMTT(30)
    <2> QED
      BY <2>9
  <1> QED
    BY <1>5, <1>6

(* RoundTrip: what b64_encode writes for the payload of a message decodes to that   *)
(* payload, whatever its length, padding included; the receiver of the JSON message *)
(* the example programs publish gets the bytes the application gave.               *)
THEOREM RoundTrip == \A s \in Seq(Byte) : Decode(Encode(s)) = s
  <1> SUFFICES ASSUME NEW s \in Seq(Byte) PROVE Decode(Encode(s)) = s
    OBVIOUS
  <1> DEFINE n == Len(s)
             out == Encode(s)
             G(i) == DecodedGroup(out, 4 * ((i - 1) \div 3) + 1)
             D(i) == CASE (i - 1) % 3 = 0 -> G(i) \div 65536
                       [] (i - 1) % 3 = 1 -> (G(i) \div 256) % 256
                       [] (i - 1) % 3 = 2 -> G(i) % 256
  <1>1. Decode(out) = [i \in 1..n |-> D(i)]
    BY SizeSurvives, SMTT(30) DEF Decode
  <1>2. ASSUME NEW i \in 1..n PROVE D(i) = s[i]
    <2> DEFINE k == (i - 1) \div 3
               j == (i - 1) % 3
    <2>1. k \in Nat /\ j \in 0..2 /\ i - 1 = 3 * k + j
      BY SMTT(30)
    <2> HIDE DEF k, j
    <2>2. 3 * k + 1 <= n /\ 3 * k + 1 \in Nat \ {0}
      BY <2>1
    <2>3. G(i) = Group(s, 3 * k + 1)
      BY <2>1, <2>2, GroupSurvives, SMTT(30) DEF k
    <2> DEFINE v == Group(s, 3 * k + 1)
    <2>4. /\ v \div 65536 = ByteAt(s, 3 * k + 1)
          /\ (v \div 256) % 256 = ByteAt(s, 3 * k + 1 + 1)
          /\ v % 256 = ByteAt(s, 3 * k + 1 + 2)
      <3>1. HoldsItsBytes(s, 3 * k + 1)
        BY <2>2, GroupBytes
      <3> QED
        BY <3>1, SMTT(30) DEF HoldsItsBytes
    <2>5. ByteAt(s, i) = s[i]
      BY DEF ByteAt
    <2> HIDE DEF v, G, out
    <2>6. D(i) = CASE j = 0 -> v \div 65536
                   [] j = 1 -> (v \div 256) % 256
                   [] j = 2 -> v % 256
      BY <2>3, SMTT(30) DEF j, v
    <2> HIDE DEF D
    <2>7. CASE j = 0
      <3>1. i = 3 * k + 1
        BY <2>1, <2>7
      <3> QED
        BY <2>4, <2>5, <2>6, <2>7, <3>1, SMTT(30)
    <2>8. CASE j = 1
      <3>1. i = 3 * k + 1 + 1
        BY <2>1, <2>8
      <3> QED
        BY <2>4, <2>5, <2>6, <2>8, <3>1, SMTT(30)
    <2>9. CASE j = 2
      <3>1. i = 3 * k + 1 + 2
        BY <2>1, <2>9
      <3> QED
        BY <2>4, <2>5, <2>6, <2>9, <3>1, SMTT(30)
    <2> QED
      BY <2>1, <2>7, <2>8, <2>9
  <1> HIDE DEF D, out
  <1>3. s = [i \in 1..n |-> s[i]]
    OBVIOUS
  <1> QED
    BY <1>1, <1>2, <1>3 DEF out

-----------------------------------------------------------------------------
(* What is published.                                                      *)

\* The text before the first zero byte, for bytes with and without one.
LEMMA CStringFacts ==
  ASSUME NEW s \in Seq(Byte)
  PROVE  \/ /\ \A i \in 1..Len(s) : s[i] # 0
            /\ CString(s) = s
         \/ \E z \in 1..Len(s) : /\ s[z] = 0 /\ (\A i \in 1..(z - 1) : s[i] # 0)
                                 /\ CString(s) = SubSeq(s, 1, z - 1)
<1> DEFINE zeros == {i \in DOMAIN s : s[i] = 0}
<1>1. DOMAIN s = 1..Len(s) /\ Len(s) \in Nat
  OBVIOUS
<1>2. CString(s) = IF zeros = {} THEN s ELSE SubSeq(s, 1, Min(zeros) - 1)
  BY DEF CString
<1>3. CASE zeros = {}
  BY <1>1, <1>2, <1>3
<1>4. CASE zeros # {}
  <2>1. PICK m \in zeros : \A k \in zeros : m <= k
    <3>1. zeros \in SUBSET Nat
      BY <1>1
    <3> HIDE DEF zeros
    <3> QED  BY <1>4, <3>1, LeastExists
  <2>2. Min(zeros) \in zeros /\ \A k \in zeros : Min(zeros) <= k
    <3> HIDE DEF zeros
    <3> QED  BY <2>1, Zenon DEF Min
  <2> DEFINE z == Min(zeros)
  <2>3. z \in 1..Len(s) /\ s[z] = 0
    BY <1>1, <2>2
  <2>4. ASSUME NEW i \in 1..(z - 1)  PROVE s[i] # 0
    <3> HIDE DEF z
    <3>1. i \in 1..Len(s) /\ ~(z <= i)
      BY <1>1, <2>3
    <3>2. i \notin zeros
      BY <2>2, <3>1 DEF z
    <3> QED  BY <1>1, <3>1, <3>2
  <2>5. CString(s) = SubSeq(s, 1, z - 1)
    BY <1>2, <1>4
  <2> HIDE DEF z
  <2> QED  BY <2>3, <2>4, <2>5
<1> QED  BY <1>3, <1>4

\* A C string is a sequence of bytes.
LEMMA CStringType ==
  ASSUME NEW s \in Seq(Byte)
  PROVE  CString(s) \in Seq(Byte)
<1>1. \A z \in 1..Len(s) : SubSeq(s, 1, z - 1) \in Seq(Byte)
  OBVIOUS
<1> QED  BY <1>1, CStringFacts

\* A text that fits into the JSON buffer was not cut by the buffer msg.
LEMMA TextIsWhole ==
  ASSUME NEW s \in Seq(Byte), NEW topic \in Nat, JsonLength(Text(s), topic) < JsonBuffer
  PROVE  Text(s) = CString(s) /\ Text(s) \in Seq(Byte)
<1> DEFINE n == IF Len(s) < MsgBuffer THEN Len(s) ELSE MsgBuffer - 1
           c == SubSeq(s, 1, n)
<1>1. /\ Len(s) \in Nat /\ MsgBuffer = 2048 /\ n \in Nat /\ n <= Len(s) /\ n <= 2047
      /\ (Len(s) >= 2048 => n = 2047) /\ (Len(s) < 2048 => n = Len(s))
  BY DEF MsgBuffer
<1>2. Text(s) = CString(c)
  BY DEF Text
<1> HIDE DEF n
<1>3. c \in Seq(Byte) /\ Len(c) = n /\ \A i \in 1..n : c[i] = s[i]
  <2>1. c \in Seq(Byte) /\ Len(c) = n
    BY <1>1
  <2>2. ASSUME NEW i \in 1..n  PROVE c[i] = s[i]
    BY <1>1, <2>2
  <2> QED  BY <2>1, <2>2
<1>4. CASE Len(s) < 2048
  <2>1. c = s
    BY <1>1, <1>4
  <2> QED  BY <1>2, <2>1, CStringType
<1>5. CASE Len(s) >= 2048
  <2>1. n = 2047
    BY <1>1, <1>5
  <2> HIDE DEF c
  <2>2. ASSUME CString(c) = c  PROVE FALSE
    <3>1. Len(Text(s)) = 2047 /\ Text(s) # <<>>
      <4>1. Text(s) = c
        BY <1>2, <2>2
      <4>2. Len(Text(s)) = n
        BY <1>3, <4>1, Zenon
      <4>3. Len(Text(s)) = 2047
        BY <2>1, <4>2
      <4> QED  BY <4>3
    <3>2. EncodedSize(2047) = 2732
      BY DEF EncodedSize
    <3>3. JsonLength(Text(s), topic) = 33 + 2732 + topic
      BY <3>1, <3>2 DEF JsonLength
    <3> QED  BY <3>3 DEF JsonBuffer
  <2>3. ASSUME NEW z \in 1..Len(c), c[z] = 0, \A i \in 1..(z - 1) : c[i] # 0,
               CString(c) = SubSeq(c, 1, z - 1)
        PROVE  CString(c) = CString(s)
    <3>1. z \in 1..Len(s) /\ s[z] = 0 /\ \A i \in 1..(z - 1) : s[i] # 0
      BY <1>1, <1>3, <2>3
    <3>2. PICK y \in 1..Len(s) : /\ s[y] = 0 /\ (\A i \in 1..(y - 1) : s[i] # 0)
                                 /\ CString(s) = SubSeq(s, 1, y - 1)
      BY <3>1, CStringFacts
    <3>3. y = z
      <4>1. ~(y < z) /\ ~(z < y)
        BY <1>1, <1>3, <3>1, <3>2
      <4> QED  BY <1>1, <1>3, <4>1
    <3>4. SubSeq(c, 1, z - 1) = SubSeq(s, 1, z - 1)
      BY <1>1, <1>3 DEF c
    <3> QED  BY <2>3, <3>2, <3>3, <3>4
  <2>4. CString(c) = CString(s)
    <3>1. \/ CString(c) = c
          \/ \E z \in 1..Len(c) : /\ c[z] = 0 /\ (\A i \in 1..(z - 1) : c[i] # 0)
                                   /\ CString(c) = SubSeq(c, 1, z - 1)
      BY <1>3, CStringFacts
    <3> QED  BY <2>2, <2>3, <3>1, Zenon
  <2> QED  BY <1>2, <1>3, <2>4, CStringType
<1> QED  BY <1>1, <1>4, <1>5

\* Only the last of the ways through WakuRelayPublish publishes.
LEMMA PublishCases ==
  ASSUME NEW message, NEW name, NEW args, WakuRelayPublish(message, name, args)
  PROVE  published' = published \/ Publish(message, Text(message), 20 + name)
<1> DEFINE i == Refused(PublishSig, args)
           topic == 20 + name
<1>1. i \in 1..6
  <2>1. Len(PublishSig) = 5
    BY DEF PublishSig
  <2>2. i \in 1..(5 + 1)
    BY <2>1, RefusedFacts
  <2> QED  BY <2>2
<1>2. /\ CASE i <= 3 ->
                /\ Throw(PublishSig, i, heap)
                /\ UNCHANGED <<status, contentTopic, ref, references, jsCall, published>>
           [] i > 3 /\ ctx = 0 ->
                /\ status' = "crashed"
                /\ UNCHANGED <<thrown, heap, contentTopic, ref, references, jsCall, published>>
           [] i \in {4, 5} /\ ctx # 0 ->
                /\ contentTopic' = topic
                /\ Throw(PublishSig, i, StoreContentTopic(heap))
                /\ status' \in {"running"} \cup (IF i = 5 THEN {"crashed"} ELSE {})
                /\ UNCHANGED <<ref, references, jsCall, published>>
           [] i = 6 /\ ctx # 0 ->
                /\ contentTopic' = topic
                /\ heap' = StoreContentTopic(heap)
                /\ Publish(message, Text(message), topic)
                /\ UNCHANGED thrown
  BY DEF WakuRelayPublish
<1> HIDE DEF i
<1>3. i <= 3 \/ (i > 3 /\ ctx = 0) \/ (i \in {4, 5} /\ ctx # 0) \/ (i = 6 /\ ctx # 0)
  BY <1>1
<1> QED  BY <1>2, <1>3, Zenon

\* A publication that libwaku accepted is of a text that fits.
LEMMA PublishedFits ==
  ASSUME NEW text, NEW topic, NEW out \in PublishOutcomes(text, topic) \cup {Crashed},
         out.ret = RET_OK, JsonLength(text, topic) \in Nat, JsonBuffer \in Nat
  PROVE  ~(JsonLength(text, topic) >= JsonBuffer)
<1>1. out # Crashed
  BY DEF Crashed, Outcome, RET_OK, Crash
<1> SUFFICES ASSUME JsonLength(text, topic) >= JsonBuffer  PROVE FALSE
  OBVIOUS
<1>2. ~(JsonLength(text, topic) < JsonBuffer)
  OBVIOUS
<1>3. PublishOutcomes(text, topic) = {Outcome(RET_ERR, RET_ERR), Crashed}
  BY <1>2, Zenon DEF PublishOutcomes
<1>4. out = Outcome(RET_ERR, RET_ERR)
  BY <1>1, <1>3
<1> QED  BY <1>4 DEF Outcome, RET_OK, RET_ERR

\* The length of the JSON text is a number.
LEMMA LengthIsNatural ==
  ASSUME NEW s \in Seq(Byte), NEW topic \in Nat
  PROVE  JsonLength(Text(s), topic) \in Nat /\ JsonBuffer \in Nat
<1> DEFINE n == IF Len(s) < MsgBuffer THEN Len(s) ELSE MsgBuffer - 1
           c == SubSeq(s, 1, n)
<1>1. Len(s) \in Nat /\ n \in Nat /\ n <= Len(s)
  BY DEF MsgBuffer
<1> HIDE DEF n
<1>2. c \in Seq(Byte)
  BY <1>1
<1> HIDE DEF c
<1>3. CString(c) \in Seq(Byte)
  BY <1>2, CStringType
<1>4. Text(s) \in Seq(Byte)
  BY <1>3 DEF Text, c, n
<1>5. ASSUME NEW m \in Nat  PROVE EncodedSize(m) \in Nat
  BY <1>5 DEF EncodedSize
<1>6. EncodedSize(Len(Text(s))) \in Nat
  BY <1>4, <1>5
<1>7. (IF Text(s) = <<>> THEN 6 ELSE EncodedSize(Len(Text(s)))) \in Nat
  BY <1>6
<1> QED  BY <1>7 DEF JsonLength, JsonBuffer

\* What waku_relay_publish was given, when it succeeds, decodes to the whole
\* message, up to its first zero byte: for messages of any length and bytes,
\* and content topics of any length.  A message that msg or jsonWakuMsg cuts
\* makes the call fail.
THEOREM PublishesWhole == Spec => []PublishedWhole
<1>1. Init => PublishedWhole
  <2> SUFFICES ASSUME Init  PROVE PublishedWhole
    OBVIOUS
  <2>1. published.given = <<>> /\ published.payload = <<>>
    BY DEF Init
  <2>2. <<>> \in Seq(Byte) /\ Len(<<>>) = 0
    OBVIOUS
  <2>3. Encode(<<>>) = <<>>
    <3>1. EncodedSize(0) = 0
      BY DEF EncodedSize
    <3> QED  BY <2>2, <3>1 DEF Encode
  <2>4. Decode(<<>>) = <<>>
    BY <2>2, <2>3, RoundTrip
  <2>5. CString(<<>>) = <<>>
    <3>1. ~\E z \in 1..Len(<<>>) : TRUE
      OBVIOUS
    <3> QED  BY <2>2, <3>1, CStringFacts
  <2> QED  BY <2>1, <2>4, <2>5 DEF PublishedWhole
<1>2. ASSUME PublishedWhole, [Next]_vars  PROVE PublishedWhole'
  <2>1. ASSUME NEW message \in Messages, NEW name \in TopicNames, NEW args,
               WakuRelayPublish(message, name, args)
        PROVE  PublishedWhole'
    <3> DEFINE topic == 20 + name
               text == Text(message)
    <3>1. published' = published \/ Publish(message, text, topic)
      BY <2>1, PublishCases
    <3>2. CASE published' = published
      BY <1>2, <3>2 DEF PublishedWhole
    <3>3. CASE Publish(message, text, topic)
      <4>1. PICK out \in PublishOutcomes(text, topic) \cup {Crashed} :
              published' = IF out.ret = RET_OK
                           THEN [given |-> message, payload |-> Encode(text)]
                           ELSE published
        BY <3>3 DEF Publish
      <4>2. CASE out.ret = RET_OK
        <5>1. message \in Seq(Byte) /\ topic \in Nat
          BY InputsAssumption
        <5>2. ~(JsonLength(text, topic) >= JsonBuffer)
          BY <4>2, <5>1, LengthIsNatural, PublishedFits
        <5>3. JsonLength(text, topic) < JsonBuffer
          BY <5>1, <5>2, LengthIsNatural
        <5>4. text = CString(message) /\ text \in Seq(Byte)
          BY <5>1, <5>3, TextIsWhole
        <5>5. Decode(Encode(text)) = text
          BY <5>4, RoundTrip
        <5>6. published'.given = message /\ published'.payload = Encode(text)
          BY <4>1, <4>2
        <5> QED  BY <5>4, <5>5, <5>6 DEF PublishedWhole
      <4>3. CASE out.ret # RET_OK
        BY <1>2, <4>1, <4>3 DEF PublishedWhole
      <4> QED  BY <4>2, <4>3
    <3> QED  BY <3>1, <3>2, <3>3
  <2>2. ASSUME published' = published  PROVE PublishedWhole'
    BY <1>2, <2>2 DEF PublishedWhole
  <2>3. CASE Export
    <3>1. \/ published' = published
          \/ \E args \in ArgLists(PublishSig), message \in Messages, name \in TopicNames :
               WakuRelayPublish(message, name, args)
      BY <2>3 DEF Export, WakuNew, WakuVersion, WakuDefaultPubsubTopic, Ask,
                  WakuSetEventCallback, WakuStart, WakuConnect, WakuRelaySubscribe
    <3> QED  BY <2>1, <2>2, <3>1
  <2>4. ASSUME NEW t \in Calls, CallJs(t)  PROVE published' = published
    BY <2>4 DEF CallJs
  <2>5. RelayEvent \/ Cleanup \/ UNCHANGED vars => published' = published
    BY DEF RelayEvent, Cleanup, vars
  <2> QED  BY <1>2, <2>2, <2>3, <2>4, <2>5 DEF Next
<1>3. PublishedWhole /\ [Next]_vars => PublishedWhole'
  BY <1>2
<1> QED  BY <1>1, <1>3, PTL DEF Spec
=============================================================================
