-------------------------- MODULE PgAsyncPoolProofs --------------------------
(***************************************************************************)
(* The pool of Postgres connections, for any number of queries, addresses, *)
(* connections, trials and resets.                                         *)
(*                                                                         *)
(* The database sees exactly the pool's open connections (PoolStaysSound): *)
(* a close drops each one once, because no two connections of the pool     *)
(* have an address in common (AddressesDistinct).  That holds although     *)
(* closing a connection frees its address: closed ones are in the pool     *)
(* only while it closes, and no connection is opened then (OpenOutside).   *)
(*                                                                         *)
(* Until a reset, whoever runs or was granted an index holds a busy        *)
(* connection that no other client holds (Ownership); releaseConn, which   *)
(* looks for an address, then releases that one only, and the pool is      *)
(* emptied only when nobody holds anything (ExclusiveUntilReset).          *)
(***************************************************************************)
EXTENDS PgAsyncPool, SequenceTheorems, TLAPS

\* A connection of the pool.
Conn == [address : Addresses, open : BOOLEAN, busy : BOOLEAN]

\* No two connections of the pool are at one address, open or not.
AddressesDistinct ==
  \A i, j \in DOMAIN conns : conns[i].address = conns[j].address => i = j

\* A pool that is not being closed has open connections only, a closed one
\* none, and a program that ended takes no step.
OpenOutside ==
  /\ closing <=> state = "Closing"
  /\ state = "Live" => \A i \in DOMAIN conns : conns[i].open
  /\ state = "Closed" => conns = <<>>
  /\ state = "Dead" => \A c \in Clients : pc[c] = "dead"

\* Errors of the health check's first trial leave room for the reset.
ResetsLeft == pc[HealthCheck] = "failed" /\ trials = 0 => resets < MaxResets

\* What holds through resets.
PoolInv ==
  /\ TypeOK
  /\ NoConnectionLeaks
  /\ AddressesDistinct
  /\ OpenOutside
  /\ ResetsLeft

\* Client c uses, or is about to use, the connection at index i.
Holds(c, i) ==
  /\ conns[i].busy
  /\ \/ pc[c] = "running" /\ conn[c] = conns[i].address
     \/ pc[c] = "granted" /\ connIndex[c] = i

\* Until the first reset, whoever needs a connection holds one, alone.
Ownership ==
  resets = 0 =>
    /\ trials = 0 /\ pc[HealthCheck] # "resetting" /\ state # "Dead"
    /\ \A c \in Clients : pc[c] \in {"running", "granted"} => \E i \in DOMAIN conns : Holds(c, i)
    /\ \A c, d \in Clients : \A i \in DOMAIN conns : Holds(c, i) /\ Holds(d, i) => c = d

\* The inductive invariant.
IInv == PoolInv /\ Ownership
-----------------------------------------------------------------------------
(* The sequence of connections.                                            *)

\* What is known of the pool and its indices.
LEMMA ConnFacts ==
  ASSUME TypeOK
  PROVE  /\ DOMAIN conns = 1..Len(conns) /\ Len(conns) \in Nat
         /\ MaxConnections \in Nat
         /\ \A i \in DOMAIN conns : /\ conns[i] \in Conn /\ i \in 1..MaxConnections
                                    /\ conns[i].address \in Addresses
                                    /\ conns[i].open \in BOOLEAN /\ conns[i].busy \in BOOLEAN
<1>1. conns \in Seq(Conn) /\ Len(conns) <= MaxConnections
  BY DEF TypeOK, Conn
<1>2. MaxConnections \in Nat
  BY PoolAssumption
<1>3. DOMAIN conns = 1..Len(conns) /\ Len(conns) \in Nat
  BY <1>1
<1>4. ASSUME NEW i \in DOMAIN conns
      PROVE  conns[i] \in Conn /\ i \in 1..MaxConnections
  <2>1. i \in 1..Len(conns)
    BY <1>3
  <2>2. conns[i] \in Conn
    BY <1>1, <2>1, ElementOfSeq
  <2> QED  BY <1>1, <1>2, <1>3, <2>1, <2>2
<1>5. \A x \in Conn : x.address \in Addresses /\ x.open \in BOOLEAN /\ x.busy \in BOOLEAN
  BY DEF Conn
<1> QED  BY <1>2, <1>3, <1>4, <1>5

\* A pool with the same indices is still a sequence.
LEMMA SameIndices ==
  ASSUME TypeOK, NEW cs, DOMAIN cs = DOMAIN conns, cs = [i \in DOMAIN conns |-> cs[i]],
         \A i \in DOMAIN conns : cs[i] \in Conn
  PROVE  cs \in Seq(Conn) /\ Len(cs) = Len(conns)
<1>1. DOMAIN conns = 1..Len(conns) /\ Len(conns) \in Nat
  BY ConnFacts
<1>2. cs \in [1..Len(conns) -> Conn]
  BY <1>1
<1>3. cs \in Seq(Conn)
  BY <1>1, <1>2, SeqDef
<1> QED  BY <1>1, <1>2, <1>3

\* What a step that only changes flags of connections keeps.
SameAddresses ==
  /\ conns' \in Seq(Conn) /\ Len(conns') = Len(conns) /\ DOMAIN conns' = DOMAIN conns
  /\ \A i \in DOMAIN conns : conns'[i].address = conns[i].address

\* The first free connection is marked.
LEMMA MarkFacts ==
  ASSUME TypeOK, NEW k \in DOMAIN conns, conns' = MarkedBusy(conns, k)
  PROVE  /\ SameAddresses
         /\ \A i \in DOMAIN conns : conns'[i].open = conns[i].open
         /\ conns'[k].busy
         /\ \A i \in DOMAIN conns : i # k => conns'[i].busy = conns[i].busy
<1>1. \A i \in DOMAIN conns : conns[i] \in Conn
  BY ConnFacts
<1>2. conns' = [conns EXCEPT ![k].busy = TRUE]
  BY DEF MarkedBusy
<1>3. DOMAIN conns' = DOMAIN conns
  BY <1>2
<1>4. conns'[k] = [conns[k] EXCEPT !.busy = TRUE] /\ \A i \in DOMAIN conns : i # k => conns'[i] = conns[i]
  BY <1>2
<1>5. /\ conns'[k] \in Conn /\ conns'[k].address = conns[k].address
      /\ conns'[k].open = conns[k].open /\ conns'[k].busy = TRUE
  BY <1>1, <1>4 DEF Conn
<1>6. \A i \in DOMAIN conns : conns'[i] \in Conn
  BY <1>1, <1>4, <1>5
<1>7. conns' = [i \in DOMAIN conns |-> conns'[i]]
  BY <1>2
<1>8. conns' \in Seq(Conn) /\ Len(conns') = Len(conns)
  BY <1>3, <1>6, <1>7, SameIndices
<1> QED  BY <1>3, <1>4, <1>5, <1>8 DEF SameAddresses

\* releaseConn clears the mark of the connections at the address.
LEMMA ReleaseFacts ==
  ASSUME TypeOK, NEW a, conns' = ReleaseConn(conns, a)
  PROVE  /\ SameAddresses
         /\ \A i \in DOMAIN conns :
              /\ conns'[i].open = conns[i].open
              /\ conns[i].address # a => conns'[i].busy = conns[i].busy
              /\ conns[i].address = a => ~conns'[i].busy
<1>1. \A i \in DOMAIN conns : conns[i] \in Conn
  BY ConnFacts
<1>2. conns' = [i \in DOMAIN conns |-> IF conns[i].address = a
                                       THEN [conns[i] EXCEPT !.busy = FALSE] ELSE conns[i]]
  BY DEF ReleaseConn
<1>3. ASSUME NEW i \in DOMAIN conns
      PROVE  /\ conns'[i] \in Conn /\ conns'[i].address = conns[i].address
             /\ conns'[i].open = conns[i].open
             /\ conns[i].address # a => conns'[i].busy = conns[i].busy
             /\ conns[i].address = a => ~conns'[i].busy
  BY <1>1, <1>2 DEF Conn
<1>4. DOMAIN conns' = DOMAIN conns /\ conns' = [i \in DOMAIN conns |-> conns'[i]]
  BY <1>2
<1>5. conns' \in Seq(Conn) /\ Len(conns') = Len(conns)
  BY <1>3, <1>4, SameIndices
<1> QED  BY <1>3, <1>4, <1>5 DEF SameAddresses

\* resetConnPool clears every mark.
LEMMA AllReleasedFacts ==
  ASSUME TypeOK, conns' = AllReleased(conns)
  PROVE  /\ SameAddresses
         /\ \A i \in DOMAIN conns : conns'[i].open = conns[i].open
<1>1. \A i \in DOMAIN conns : conns[i] \in Conn
  BY ConnFacts
<1>2. conns' = [i \in DOMAIN conns |-> [conns[i] EXCEPT !.busy = FALSE]]
  BY DEF AllReleased
<1>3. ASSUME NEW i \in DOMAIN conns
      PROVE  /\ conns'[i] \in Conn /\ conns'[i].address = conns[i].address
             /\ conns'[i].open = conns[i].open
  BY <1>1, <1>2 DEF Conn
<1>4. DOMAIN conns' = DOMAIN conns /\ conns' = [i \in DOMAIN conns |-> conns'[i]]
  BY <1>2
<1>5. conns' \in Seq(Conn) /\ Len(conns') = Len(conns)
  BY <1>3, <1>4, SameIndices
<1> QED  BY <1>3, <1>4, <1>5 DEF SameAddresses

\* Flags of busy do not matter to the database.
LEMMA SameOpen ==
  ASSUME TypeOK, NoConnectionLeaks, SameAddresses, opened' = opened,
         \A i \in DOMAIN conns : conns'[i].open = conns[i].open
  PROVE  NoConnectionLeaks'
  BY DEF NoConnectionLeaks, OpenAddresses, SameAddresses

\* Nor to the addresses' being distinct.
LEMMA SameDistinct ==
  ASSUME AddressesDistinct, SameAddresses
  PROVE  AddressesDistinct'
  BY DEF AddressesDistinct, SameAddresses

\* After the end of close nothing is open and the pool is empty.
LEMMA ClosedFacts ==
  ASSUME TypeOK, NoConnectionLeaks, NEW cs,
         OpenAddresses(cs) = OpenAddresses(conns), ClosedPool(cs)
  PROVE  /\ conns' = <<>> /\ opened' = {} /\ closing' = FALSE
         /\ NoConnectionLeaks' /\ AddressesDistinct'
         /\ conns' \in Seq(Conn) /\ Len(conns') <= MaxConnections
<1>1. conns' = <<>> /\ closing' = FALSE /\ opened' = opened \ OpenAddresses(cs)
  BY DEF ClosedPool
<1>2. opened' = {}
  BY <1>1 DEF NoConnectionLeaks
<1>3. DOMAIN conns' = {} /\ conns' \in Seq(Conn) /\ Len(conns') = 0
  BY <1>1
<1>4. OpenAddresses(conns') = {}
  BY <1>3 DEF OpenAddresses
<1>5. 0 <= MaxConnections
  BY PoolAssumption
<1> QED  BY <1>1, <1>2, <1>3, <1>4, <1>5 DEF NoConnectionLeaks, AddressesDistinct

-----------------------------------------------------------------------------
(* Who holds which connection.                                             *)

\* Where a client needs a connection.
Needs == {"running", "granted"}

\* What resets = 0 says of the rest.
NoResetYet == trials = 0 /\ pc[HealthCheck] # "resetting" /\ state # "Dead"

\* A step by which nobody comes to need a connection, and nobody who needs
\* one loses it.
LEMMA NoneAcquires ==
  ASSUME IInv, SameAddresses, resets' = 0 => resets = 0 /\ NoResetYet',
         \A d \in Clients : pc'[d] \in Needs =>
           pc'[d] = pc[d] /\ conn'[d] = conn[d] /\ connIndex'[d] = connIndex[d],
         \A d \in Clients : \A i \in DOMAIN conns :
           resets = 0 /\ Holds(d, i) /\ pc'[d] \in Needs => conns'[i].busy,
         \A i \in DOMAIN conns : conns'[i].busy => conns[i].busy
  PROVE  Ownership'
<1> SUFFICES ASSUME resets' = 0  PROVE Ownership'
  BY DEF Ownership
<1>1. resets = 0 /\ NoResetYet'
  OBVIOUS
<1>2. ASSUME NEW d \in Clients, NEW i \in DOMAIN conns, Holds(d, i)'
      PROVE  Holds(d, i)
  BY <1>2 DEF Holds, SameAddresses, Needs
<1>3. ASSUME NEW d \in Clients, pc'[d] \in Needs
      PROVE  \E i \in DOMAIN conns : Holds(d, i)'
  <2>1. pc'[d] = pc[d] /\ conn'[d] = conn[d] /\ connIndex'[d] = connIndex[d]
    BY <1>3
  <2>2. PICK i \in DOMAIN conns : Holds(d, i)
    BY <1>1, <1>3, <2>1 DEF IInv, Ownership, Needs
  <2>3. Holds(d, i)'
    BY <1>1, <1>3, <2>1, <2>2 DEF Holds, SameAddresses
  <2> QED  BY <2>3
<1>4. \A c, d \in Clients : \A i \in DOMAIN conns : Holds(c, i) /\ Holds(d, i) => c = d
  BY <1>1 DEF IInv, Ownership
<1>5. DOMAIN conns' = DOMAIN conns
  BY DEF SameAddresses
<1> QED  BY <1>1, <1>2, <1>3, <1>4, <1>5 DEF Ownership, NoResetYet, Needs

\* Client c takes index k, which nobody held.
LEMMA OneAcquires ==
  ASSUME IInv, AddressesDistinct', resets' = resets,
         trials' = trials, state' = state,
         NEW c \in Clients, NEW k \in DOMAIN conns',
         pc'[HealthCheck] # "resetting" \/ pc' [HealthCheck] = pc[HealthCheck],
         DOMAIN conns \subseteq DOMAIN conns',
         \A i \in DOMAIN conns : conns'[i].address = conns[i].address,
         \A i \in DOMAIN conns' : i # k => i \in DOMAIN conns /\ conns'[i].busy = conns[i].busy,
         conns'[k].busy, k \in DOMAIN conns => ~conns[k].busy,
         \A d \in Clients : d # c =>
           pc'[d] = pc[d] /\ conn'[d] = conn[d] /\ connIndex'[d] = connIndex[d],
         \/ pc'[c] = "running" /\ conn'[c] = conns'[k].address
         \/ pc'[c] = "granted" /\ connIndex'[c] = k
  PROVE  Ownership'
<1> SUFFICES ASSUME resets' = 0  PROVE Ownership'
  BY DEF Ownership
<1>1. resets = 0 /\ NoResetYet /\ NoResetYet'
  BY DEF IInv, Ownership, NoResetYet
<1>2. /\ \A d \in Clients : pc[d] \in Needs => \E i \in DOMAIN conns : Holds(d, i)
      /\ \A d, e \in Clients : \A i \in DOMAIN conns : Holds(d, i) /\ Holds(e, i) => d = e
  BY <1>1 DEF IInv, Ownership, Needs
<1>3. Holds(c, k)'
  BY DEF Holds
<1>4. ASSUME NEW i \in DOMAIN conns', Holds(c, i)'  PROVE i = k
  BY <1>4 DEF Holds, AddressesDistinct
<1>5. ASSUME NEW d \in Clients, d # c, pc'[d] \in Needs
      PROVE  \E i \in DOMAIN conns : Holds(d, i) /\ Holds(d, i)'
  <2>1. PICK i \in DOMAIN conns : Holds(d, i)
    BY <1>2, <1>5
  <2>2. i # k /\ i \in DOMAIN conns'
    BY <2>1 DEF Holds
  <2>3. Holds(d, i)'
    BY <1>5, <2>1, <2>2 DEF Holds
  <2> QED  BY <2>1, <2>3
<1>6. ASSUME NEW d \in Clients, d # c, NEW i \in DOMAIN conns', Holds(d, i)'
      PROVE  i \in DOMAIN conns /\ Holds(d, i)
  <2>1. pc'[d] \in Needs
    BY <1>6 DEF Holds, Needs
  <2>2. PICK j \in DOMAIN conns : Holds(d, j) /\ Holds(d, j)'
    BY <1>5, <1>6, <2>1
  <2>3. j \in DOMAIN conns' /\ i = j
    BY <1>6, <2>2 DEF Holds, AddressesDistinct
  <2> QED  BY <2>2, <2>3
<1>7. \A d \in Clients : pc'[d] \in Needs => \E i \in DOMAIN conns' : Holds(d, i)'
  BY <1>3, <1>5
<1>8. ASSUME NEW d \in Clients, NEW e \in Clients, NEW i \in DOMAIN conns', Holds(d, i)', Holds(e, i)'
      PROVE  d = e
  <2>1. ASSUME NEW f \in Clients, f # c, Holds(f, i)'  PROVE i # k
    <3>1. i \in DOMAIN conns /\ Holds(f, i)
      BY <1>6, <2>1
    <3> QED  BY <3>1 DEF Holds
  <2>2. CASE d = c \/ e = c
    BY <1>4, <1>8, <2>1, <2>2
  <2>3. CASE d # c /\ e # c
    BY <1>2, <1>6, <1>8, <2>3
  <2> QED  BY <2>2, <2>3
<1> QED  BY <1>1, <1>7, <1>8 DEF Ownership, NoResetYet, Needs

-----------------------------------------------------------------------------
(* The actions keep the invariant.                                         *)

\* Where a client may be.
Places == {"idle", "waiting", "granted", "running", "done", "failed", "resetting", "asleep",
           "dead"}

\* A client goes on to w; the pool stays as it is.
LEMMA Moves ==
  ASSUME IInv, NEW c \in Clients, NEW w \in Places \ (Needs \cup {"resetting", "dead"}),
         pc[c] # "dead", Goto(c, w),
         trials' \in 0..MaxNumTrials, trials' = trials \/ resets # 0,
         c = HealthCheck /\ w = "failed" /\ trials' = 0 => resets < MaxResets,
         c # HealthCheck => trials' = trials,
         UNCHANGED <<conns, state, connIndex, conn, opened, closing, resets>>
  PROVE  IInv'
<1>1. HealthCheck \in Clients
  BY DEF Clients
<1>2. /\ pc' = [pc EXCEPT ![c] = w] /\ pc \in [Clients -> Places]
  BY DEF Goto, IInv, PoolInv, TypeOK, Places
<1>3. pc' \in [Clients -> Places] /\ pc'[c] = w /\ \A d \in Clients : d # c => pc'[d] = pc[d]
  BY <1>2
<1>4. state # "Dead"
  BY DEF IInv, PoolInv, OpenOutside
<1>5. TypeOK'
  BY <1>3 DEF IInv, PoolInv, TypeOK, Places
<1>6. NoConnectionLeaks' /\ AddressesDistinct' /\ OpenOutside'
  BY <1>4 DEF IInv, PoolInv, NoConnectionLeaks, OpenAddresses, AddressesDistinct, OpenOutside
<1>7. ResetsLeft'
  BY <1>1, <1>3 DEF IInv, PoolInv, ResetsLeft
<1>8. resets' = 0 => resets = 0 /\ NoResetYet'
  BY <1>1, <1>3, <1>4 DEF IInv, Ownership, NoResetYet
<1>9. SameAddresses
  BY DEF SameAddresses, IInv, PoolInv, TypeOK, Conn
<1>10. \A d \in Clients : pc'[d] \in Needs => pc'[d] = pc[d]
  BY <1>3
<1>11. Ownership'
  BY <1>8, <1>9, <1>10, NoneAcquires DEF Holds
<1> QED  BY <1>5, <1>6, <1>7, <1>11 DEF IInv, PoolInv

\* Numbers that the code bounds.
LEMMA Bounds ==
  ASSUME IInv
  PROVE  /\ MaxNumTrials \in Nat \ {0} /\ trials \in 0..MaxNumTrials
         /\ MaxResets \in Nat /\ resets \in 0..MaxResets
         /\ HealthCheck \in Clients
  BY PoolAssumption DEF IInv, PoolInv, TypeOK, Clients

\* Queries that end before they have a connection, and those that wait.
LEMMA RefusedKeeps ==
  ASSUME IInv, NEW c \in Clients, Refused(c) \/ OpenFails(c) \/ Wait(c)
  PROVE  IInv'
<1>1. pc[c] = "idle" /\ UNCHANGED <<conns, state, connIndex, conn, opened, closing, resets>>
      /\ trials' = trials
  BY DEF Refused, OpenFails, Wait
<1>2. trials' \in 0..MaxNumTrials
  BY <1>1, Bounds
<1>3. CASE Refused(c) \/ OpenFails(c)
  <2> DEFINE w == IF c = HealthCheck THEN "failed" ELSE "done"
  <2>1. Goto(c, w) /\ MayErr(c)
    BY <1>3 DEF Refused, OpenFails, Errs
  <2>2. w \in Places \ (Needs \cup {"resetting", "dead"})
    BY DEF Places, Needs
  <2>3. c = HealthCheck /\ w = "failed" /\ trials' = 0 => resets < MaxResets
    BY <1>1, <2>1 DEF MayErr
  <2> HIDE DEF w
  <2> QED  BY <1>1, <1>2, <2>1, <2>2, <2>3, Moves
<1>4. CASE Wait(c)
  <2>1. Goto(c, "waiting")
    BY <1>4 DEF Wait
  <2>2. "waiting" \in Places \ (Needs \cup {"resetting", "dead"})
    BY DEF Places, Needs
  <2> QED  BY <1>1, <1>2, <2>1, <2>2, Moves
<1> QED  BY <1>3, <1>4

\* The health check's sleep ends.
LEMMA WakeKeeps ==
  ASSUME IInv, Wake
  PROVE  IInv'
<1>1. /\ pc[HealthCheck] = "asleep" /\ Goto(HealthCheck, "idle")
      /\ UNCHANGED <<conns, state, connIndex, conn, opened, closing, trials, resets>>
  BY DEF Wake
<1>2. "idle" \in Places \ (Needs \cup {"resetting", "dead"})
  BY DEF Places, Needs
<1> QED  BY <1>1, <1>2, Bounds, Moves

\* Another trial, or the end of the program, which the first reset comes
\* before.
LEMMA TrialFailedKeeps ==
  ASSUME IInv, TrialFailed
  PROVE  IInv'
<1>1. /\ pc[HealthCheck] = "failed" /\ trials > 0
      /\ UNCHANGED <<conns, connIndex, conn, opened, resets>>
  BY DEF TrialFailed
<1>2. resets # 0
  BY <1>1, Bounds DEF IInv, Ownership
<1>3. CASE trials < MaxNumTrials
  <2>1. trials' = trials + 1 /\ Goto(HealthCheck, "asleep") /\ UNCHANGED <<state, closing>>
    BY <1>3 DEF TrialFailed
  <2>2. trials' \in 0..MaxNumTrials /\ trials' # 0
    BY <1>3, <2>1, Bounds
  <2>3. "asleep" \in Places \ (Needs \cup {"resetting", "dead"})
    BY DEF Places, Needs
  <2> QED  BY <1>1, <1>2, <2>1, <2>2, <2>3, Bounds, Moves
<1>4. CASE ~(trials < MaxNumTrials)
  <2>1. /\ pc' = [d \in Clients |-> "dead"] /\ state' = "Dead" /\ closing' = FALSE
        /\ trials' = trials
    BY <1>4 DEF TrialFailed, EndProgram
  <2>2. TypeOK'
    BY <1>1, <2>1 DEF IInv, PoolInv, TypeOK
  <2>3. NoConnectionLeaks' /\ AddressesDistinct'
    BY <1>1 DEF IInv, PoolInv, NoConnectionLeaks, OpenAddresses, AddressesDistinct
  <2>4. OpenOutside' /\ ResetsLeft'
    BY <2>1, Bounds DEF OpenOutside, ResetsLeft
  <2>5. Ownership'
    BY <1>1, <1>2 DEF Ownership
  <2> QED  BY <2>2, <2>3, <2>4, <2>5 DEF IInv, PoolInv
<1> QED  BY <1>3, <1>4

\* A client that can go on is not dead, so the program goes on.
LEMMA GoesOn ==
  ASSUME IInv, NEW c \in Clients, NEW w \in Places \ {"dead"}, pc[c] # "dead", Goto(c, w)
  PROVE  /\ state # "Dead"
         /\ pc' \in [Clients -> Places] /\ pc'[c] = w
         /\ \A d \in Clients : d # c => pc'[d] = pc[d]
  BY DEF Goto, IInv, PoolInv, TypeOK, Places, OpenOutside

\* A free connection is taken, at once or after waiting.
LEMMA TakeKeeps ==
  ASSUME IInv, NEW c \in Clients, TakeFree(c) \/ WaitOver(c)
  PROVE  IInv'
<1>1. PICK k \in DOMAIN conns :
        /\ FirstFree(conns, k) /\ conns' = MarkedBusy(conns, k)
        /\ pc[c] \in {"idle", "waiting"}
        /\ UNCHANGED <<state, opened, closing, trials, resets>>
        /\ \/ conn' = [conn EXCEPT ![c] = conns[k].address] /\ Goto(c, "running")
                /\ UNCHANGED connIndex
           \/ connIndex' = [connIndex EXCEPT ![c] = k] /\ Goto(c, "granted")
                /\ UNCHANGED conn
  BY DEF TakeFree, WaitOver
<1>2. PICK w \in Needs : Goto(c, w)
  BY <1>1 DEF Needs
<1>3. w \in Places \ {"dead"} /\ w # "resetting" /\ w # "failed"
  BY DEF Places, Needs
<1>4. /\ state # "Dead" /\ pc' \in [Clients -> Places] /\ pc'[c] = w
      /\ \A d \in Clients : d # c => pc'[d] = pc[d]
  BY <1>1, <1>2, <1>3, GoesOn
<1>5. TypeOK
  BY DEF IInv, PoolInv
<1>6. /\ SameAddresses /\ \A i \in DOMAIN conns : conns'[i].open = conns[i].open
      /\ conns'[k].busy /\ \A i \in DOMAIN conns : i # k => conns'[i].busy = conns[i].busy
  BY <1>1, <1>5, MarkFacts
<1>7. k \in 0..MaxConnections /\ conns[k].address \in Addresses
  BY <1>5, ConnFacts
<1>8. connIndex' \in [Clients -> 0..MaxConnections] /\ conn' \in [Clients -> Addresses]
  BY <1>1, <1>5, <1>7 DEF TypeOK
<1>9. TypeOK'
  BY <1>1, <1>4, <1>5, <1>6, <1>8 DEF TypeOK, SameAddresses, Conn, Places
<1>10. NoConnectionLeaks' /\ AddressesDistinct'
  BY <1>1, <1>5, <1>6, SameOpen, SameDistinct DEF IInv, PoolInv
<1>11. OpenOutside'
  <2>1. OpenOutside /\ k \in DOMAIN conns
    BY DEF IInv, PoolInv
  <2>2. state # "Closed"
    BY <2>1 DEF OpenOutside
  <2> QED  BY <1>1, <1>4, <1>6, <2>1, <2>2 DEF OpenOutside, SameAddresses
<1>12. pc'[HealthCheck] \notin {"resetting", "failed"} \/ pc'[HealthCheck] = pc[HealthCheck]
  BY <1>3, <1>4, Bounds
<1>13. ResetsLeft'
  BY <1>1, <1>12 DEF IInv, PoolInv, ResetsLeft
<1>14. ~conns[k].busy
  BY <1>1 DEF FirstFree
<1>15. \/ pc'[c] = "running" /\ conn'[c] = conns'[k].address
       \/ pc'[c] = "granted" /\ connIndex'[c] = k
  <2>1. conn \in [Clients -> Addresses] /\ connIndex \in [Clients -> 0..MaxConnections]
        /\ pc \in [Clients -> Places]
    BY <1>5 DEF TypeOK, Places
  <2>2. conns'[k].address = conns[k].address
    BY <1>6 DEF SameAddresses
  <2> QED  BY <1>1, <2>1, <2>2 DEF Goto
<1>16. ASSUME NEW d \in Clients, d # c
       PROVE  pc'[d] = pc[d] /\ conn'[d] = conn[d] /\ connIndex'[d] = connIndex[d]
  <2>1. conn \in [Clients -> Addresses] /\ connIndex \in [Clients -> 0..MaxConnections]
    BY <1>5 DEF TypeOK
  <2> QED  BY <1>1, <1>4, <1>16, <2>1
<1>17. Ownership'
  <2>1. DOMAIN conns' = DOMAIN conns /\ \A i \in DOMAIN conns : conns'[i].address = conns[i].address
    BY <1>6 DEF SameAddresses
  <2>2. pc'[HealthCheck] # "resetting" \/ pc'[HealthCheck] = pc[HealthCheck]
    BY <1>12
  <2> QED  BY <1>1, <1>6, <1>10, <1>14, <1>15, <1>16, <2>1, <2>2, OneAcquires
<1> QED  BY <1>9, <1>10, <1>11, <1>13, <1>17 DEF IInv, PoolInv

\* A connection is opened at an address that no connection of the pool has:
\* the pool is live, so all of its connections are open.
LEMMA OpenNewKeeps ==
  ASSUME IInv, NEW c \in Clients, OpenNew(c)
  PROVE  IInv'
<1>1. PICK a \in Addresses \ opened :
        /\ conns' = Append(conns, [address |-> a, open |-> TRUE, busy |-> TRUE])
        /\ conn' = [conn EXCEPT ![c] = a] /\ opened' = opened \cup {a}
  BY DEF OpenNew
<1>2. /\ pc[c] = "idle" /\ state = "Live" /\ Len(conns) < MaxConnections /\ Goto(c, "running")
      /\ UNCHANGED <<state, connIndex, closing, trials, resets>>
  BY DEF OpenNew, IsLive, RoomForAnother
<1>3. /\ pc' \in [Clients -> Places] /\ pc'[c] = "running"
      /\ \A d \in Clients : d # c => pc'[d] = pc[d]
  <2>1. "running" \in Places \ {"dead"}
    BY DEF Places
  <2> QED  BY <1>2, <2>1, GoesOn
<1>4. TypeOK /\ conns \in Seq(Conn) /\ Len(conns) \in Nat
  BY DEF IInv, PoolInv, TypeOK, Conn
<1> DEFINE k == Len(conns) + 1
           x == [address |-> a, open |-> TRUE, busy |-> TRUE]
<1>5. x \in Conn /\ x.address = a /\ x.open = TRUE /\ x.busy = TRUE
  BY DEF Conn
<1> HIDE DEF x
<1>6. /\ conns' \in Seq(Conn) /\ Len(conns') = k /\ conns'[k] = x
      /\ DOMAIN conns' = 1..k /\ DOMAIN conns = 1..Len(conns)
      /\ \A i \in DOMAIN conns : conns'[i] = conns[i]
  BY <1>1, <1>4, <1>5 DEF x
<1>7. /\ DOMAIN conns' = DOMAIN conns \cup {k} /\ k \notin DOMAIN conns
  BY <1>4, <1>6
<1> HIDE DEF k
<1>8. \A i \in DOMAIN conns : conns[i].open /\ conns[i].address \in opened
  <2>1. \A i \in DOMAIN conns : conns[i].open
    BY <1>2 DEF IInv, PoolInv, OpenOutside
  <2> QED  BY <2>1 DEF IInv, PoolInv, NoConnectionLeaks, OpenAddresses
<1>9. AddressesDistinct'
  <2>1. \A i \in DOMAIN conns : conns'[i].address # a
    BY <1>1, <1>6, <1>8
  <2>2. conns'[k].address = a
    BY <1>5, <1>6
  <2>3. \A i, j \in DOMAIN conns : conns'[i].address = conns'[j].address => i = j
    BY <1>6 DEF IInv, PoolInv, AddressesDistinct
  <2> QED  BY <1>7, <2>1, <2>2, <2>3 DEF AddressesDistinct
<1>10. NoConnectionLeaks'
  <2>1. \A i \in DOMAIN conns' : conns'[i].open
    BY <1>5, <1>6, <1>7, <1>8
  <2>2. OpenAddresses(conns') = {conns'[i].address : i \in DOMAIN conns'}
    BY <2>1 DEF OpenAddresses
  <2>3. OpenAddresses(conns) = {conns[i].address : i \in DOMAIN conns}
    BY <1>8 DEF OpenAddresses
  <2>4. OpenAddresses(conns') = OpenAddresses(conns) \cup {a}
    BY <1>5, <1>6, <1>7, <2>2, <2>3
  <2> QED  BY <1>1, <2>4 DEF IInv, PoolInv, NoConnectionLeaks
<1>11. TypeOK'
  <2>1. Len(conns') <= MaxConnections
    BY <1>2, <1>4, <1>6, PoolAssumption DEF k
  <2>2. conn' \in [Clients -> Addresses]
    BY <1>1, <1>4 DEF TypeOK
  <2> QED  BY <1>1, <1>2, <1>3, <1>4, <1>6, <2>1, <2>2 DEF TypeOK, Conn, Places
<1>12. OpenOutside'
  <2>1. \A i \in DOMAIN conns' : conns'[i].open
    BY <1>5, <1>6, <1>7, <1>8
  <2> QED  BY <1>2, <2>1 DEF IInv, PoolInv, OpenOutside
<1>13. pc'[HealthCheck] \notin {"resetting", "failed"} \/ pc'[HealthCheck] = pc[HealthCheck]
  BY <1>3, Bounds
<1>14. ResetsLeft'
  BY <1>2, <1>13 DEF IInv, PoolInv, ResetsLeft
<1>15. Ownership'
  <2>1. ASSUME NEW d \in Clients, d # c
        PROVE  pc'[d] = pc[d] /\ conn'[d] = conn[d] /\ connIndex'[d] = connIndex[d]
    BY <1>1, <1>2, <1>3, <1>4, <2>1 DEF TypeOK
  <2>2. conn'[c] = conns'[k].address /\ conns'[k].busy
    BY <1>1, <1>4, <1>5, <1>6 DEF TypeOK
  <2>3. pc'[HealthCheck] # "resetting" \/ pc'[HealthCheck] = pc[HealthCheck]
    BY <1>13
  <2>4. /\ k \in DOMAIN conns' /\ DOMAIN conns \subseteq DOMAIN conns'
        /\ \A i \in DOMAIN conns : conns'[i].address = conns[i].address
        /\ \A i \in DOMAIN conns' : i # k => i \in DOMAIN conns /\ conns'[i].busy = conns[i].busy
    BY <1>6, <1>7
  <2> QED  BY <1>2, <1>3, <1>7, <1>9, <2>1, <2>2, <2>3, <2>4, OneAcquires
<1> QED  BY <1>9, <1>10, <1>11, <1>12, <1>14, <1>15 DEF IInv, PoolInv

\* The caller resumes with the index it was granted; until a reset it is
\* still one of the pool.
LEMMA ResumeKeeps ==
  ASSUME IInv, NEW c \in Clients, Resume(c)
  PROVE  IInv'
<1> DEFINE k == connIndex[c]
<1>1. pc[c] = "granted" /\ UNCHANGED <<conns, connIndex, opened, trials, resets>>
  BY DEF Resume
<1>2. TypeOK /\ NoConnectionLeaks' /\ AddressesDistinct'
  BY <1>1 DEF IInv, PoolInv, NoConnectionLeaks, OpenAddresses, AddressesDistinct
<1>3. CASE k \in DOMAIN conns
  <2>1. /\ conn' = [conn EXCEPT ![c] = conns[k].address] /\ Goto(c, "running")
        /\ UNCHANGED <<state, closing>>
    BY <1>3 DEF Resume
  <2>2. /\ state # "Dead" /\ pc' \in [Clients -> Places] /\ pc'[c] = "running"
        /\ \A d \in Clients : d # c => pc'[d] = pc[d]
    <3>1. "running" \in Places \ {"dead"}
      BY DEF Places
    <3> QED  BY <1>1, <2>1, <3>1, GoesOn
  <2>3. conn' \in [Clients -> Addresses] /\ conn'[c] = conns[k].address
        /\ \A d \in Clients : d # c => conn'[d] = conn[d]
    <3>1. conns[k].address \in Addresses
      BY <1>2, <1>3, ConnFacts
    <3> QED  BY <1>2, <2>1, <3>1 DEF TypeOK
  <2>4. TypeOK'
    BY <1>1, <1>2, <2>1, <2>2, <2>3 DEF TypeOK, Places
  <2>5. OpenOutside'
    BY <1>1, <2>1, <2>2 DEF IInv, PoolInv, OpenOutside
  <2>6. pc'[HealthCheck] \notin {"resetting", "failed"} \/ pc'[HealthCheck] = pc[HealthCheck]
    BY <2>2, Bounds
  <2>7. ResetsLeft'
    BY <1>1, <2>6 DEF IInv, PoolInv, ResetsLeft
  <2>8. Ownership'
    <3> SUFFICES ASSUME resets' = 0  PROVE Ownership'
      BY DEF Ownership
    <3>1. /\ NoResetYet
          /\ \A d \in Clients : pc[d] \in Needs => \E i \in DOMAIN conns : Holds(d, i)
          /\ \A d, e \in Clients : \A i \in DOMAIN conns : Holds(d, i) /\ Holds(e, i) => d = e
      BY <1>1 DEF IInv, Ownership, NoResetYet, Needs
    <3>2. NoResetYet'
      BY <1>1, <2>1, <2>6, <3>1 DEF NoResetYet
    <3>3. \A i \in DOMAIN conns : Holds(c, i)' => i = k
      BY <1>1, <1>2, <1>3, <2>2, <2>3 DEF Holds, AddressesDistinct
    <3>4. Holds(c, k) /\ Holds(c, k)'
      BY <1>1, <1>3, <2>2, <2>3, <3>1 DEF Holds, Needs
    <3>5. \A d \in Clients, i \in DOMAIN conns : d # c => (Holds(d, i)' <=> Holds(d, i))
      BY <1>1, <2>2, <2>3 DEF Holds
    <3> HIDE DEF k
    <3>6. \A d \in Clients : pc'[d] \in Needs => \E i \in DOMAIN conns' : Holds(d, i)'
      <4> SUFFICES ASSUME NEW d \in Clients, pc'[d] \in Needs
                   PROVE  \E i \in DOMAIN conns : Holds(d, i)'
        BY <1>1
      <4>1. CASE d = c
        <5>1. k' = k
          BY <1>1 DEF k
        <5> QED  BY <1>3, <3>4, <4>1, <5>1
      <4>2. CASE d # c
        <5>1. PICK i \in DOMAIN conns : Holds(d, i)
          BY <2>2, <3>1, <4>2
        <5> QED  BY <3>5, <4>2, <5>1
      <4> QED  BY <4>1, <4>2
    <3>7. \A d, e \in Clients : \A i \in DOMAIN conns' : Holds(d, i)' /\ Holds(e, i)' => d = e
      BY <1>1, <3>1, <3>3, <3>4, <3>5
    <3> QED  BY <3>2, <3>6, <3>7 DEF Ownership, NoResetYet, Needs
  <2> QED  BY <1>2, <2>4, <2>5, <2>7, <2>8 DEF IInv, PoolInv
<1>4. CASE k \notin DOMAIN conns
  <2>1. /\ pc' = [d \in Clients |-> "dead"] /\ state' = "Dead" /\ closing' = FALSE
        /\ conn' = conn
    BY <1>4 DEF Resume, EndProgram
  <2>2. resets # 0
    BY <1>1, <1>4 DEF IInv, Ownership, Holds
  <2>3. TypeOK'
    BY <1>1, <1>2, <2>1 DEF TypeOK
  <2>4. OpenOutside' /\ ResetsLeft'
    BY <2>1, Bounds DEF OpenOutside, ResetsLeft
  <2>5. Ownership'
    BY <1>1, <2>2 DEF Ownership
  <2> QED  BY <1>2, <2>3, <2>4, <2>5 DEF IInv, PoolInv
<1> QED  BY <1>3, <1>4

\* A query ends; the connection it releases is its own and no other's.
LEMMA FinishKeeps ==
  ASSUME IInv, NEW c \in Clients, Finish(c)
  PROVE  IInv'
<1>1. /\ pc[c] = "running" /\ conns' = ReleaseConn(conns, conn[c])
      /\ UNCHANGED <<state, connIndex, conn, opened, closing, resets>>
  BY DEF Finish
<1>2. PICK w \in {"asleep", "done", "failed"} :
        /\ Goto(c, w) /\ trials' \in {0, trials}
        /\ c # HealthCheck => trials' = trials /\ w # "failed"
        /\ c = HealthCheck /\ w = "failed" => trials' = trials /\ MayErr(c)
  BY DEF Finish, Errs
<1>3. /\ state # "Dead" /\ pc' \in [Clients -> Places] /\ pc'[c] = w
      /\ \A d \in Clients : d # c => pc'[d] = pc[d]
  <2>1. w \in Places \ {"dead"}
    BY DEF Places
  <2> QED  BY <1>1, <1>2, <2>1, GoesOn
<1>4. TypeOK
  BY DEF IInv, PoolInv
<1>5. /\ SameAddresses
      /\ \A i \in DOMAIN conns :
           /\ conns'[i].open = conns[i].open
           /\ conns[i].address # conn[c] => conns'[i].busy = conns[i].busy
           /\ conns[i].address = conn[c] => ~conns'[i].busy
  BY <1>1, <1>4, ReleaseFacts
<1>6. trials' \in 0..MaxNumTrials /\ (trials = 0 => trials' = 0)
  BY <1>2, Bounds
<1>7. TypeOK'
  BY <1>1, <1>3, <1>4, <1>5, <1>6 DEF TypeOK, SameAddresses, Conn, Places
<1>8. NoConnectionLeaks' /\ AddressesDistinct'
  BY <1>1, <1>4, <1>5, SameOpen, SameDistinct DEF IInv, PoolInv
<1>9. OpenOutside'
  <2>1. OpenOutside /\ (state = "Closed" => conns = <<>>)
    BY DEF IInv, PoolInv, OpenOutside
  <2>2. state = "Closed" => conns' = <<>>
    <3> SUFFICES ASSUME state = "Closed"  PROVE conns' = <<>>
      OBVIOUS
    <3>1. Len(conns') = 0 /\ conns' \in Seq(Conn)
      BY <1>5, <2>1 DEF SameAddresses
    <3> QED  BY <3>1, EmptySeq
  <2> QED  BY <1>1, <1>3, <1>5, <2>1, <2>2 DEF OpenOutside, SameAddresses
<1>10. ResetsLeft'
  BY <1>1, <1>2, <1>3, Bounds DEF IInv, PoolInv, ResetsLeft, MayErr
<1>11. Ownership'
  <2>1. resets' = 0 => resets = 0 /\ NoResetYet'
    BY <1>1, <1>2, <1>3, <1>6, Bounds DEF IInv, Ownership, NoResetYet
  <2>2. ASSUME NEW d \in Clients, pc'[d] \in Needs
        PROVE  /\ pc'[d] = pc[d] /\ conn'[d] = conn[d] /\ connIndex'[d] = connIndex[d]
               /\ d # c
    BY <1>1, <1>3, <2>2 DEF Needs
  <2>3. ASSUME NEW d \in Clients, NEW i \in DOMAIN conns,
               resets = 0, Holds(d, i), pc'[d] \in Needs
        PROVE  conns'[i].busy
    <3>1. PICK j \in DOMAIN conns : Holds(c, j)
      BY <1>1, <2>3 DEF IInv, Ownership
    <3>2. conns[j].address = conn[c] /\ d # c
      BY <1>1, <2>2, <2>3, <3>1 DEF Holds
    <3>3. i # j
      BY <2>3, <3>1, <3>2 DEF IInv, Ownership
    <3>4. conns[i].address # conn[c]
      BY <3>2, <3>3 DEF IInv, PoolInv, AddressesDistinct
    <3> QED  BY <1>5, <2>3, <3>4 DEF Holds
  <2>4. \A i \in DOMAIN conns : conns'[i].busy => conns[i].busy
    BY <1>5
  <2> QED  BY <1>5, <2>1, <2>2, <2>3, <2>4, NoneAcquires
<1> QED  BY <1>7, <1>8, <1>9, <1>10, <1>11 DEF IInv, PoolInv

\* The pool is emptied with nothing busy, so nobody holds anything.
LEMMA EmptiedKeeps ==
  ASSUME IInv, ClosedPool(conns), state' = "Closed", state # "Dead",
         \A i \in DOMAIN conns : ~conns[i].busy,
         UNCHANGED <<pc, connIndex, conn, trials, resets>>
  PROVE  IInv'
<1>1. TypeOK /\ NoConnectionLeaks
  BY DEF IInv, PoolInv
<1>2. /\ conns' = <<>> /\ opened' = {} /\ closing' = FALSE
      /\ NoConnectionLeaks' /\ AddressesDistinct'
      /\ conns' \in Seq(Conn) /\ Len(conns') <= MaxConnections
  BY <1>1, ClosedFacts
<1>3. TypeOK'
  BY <1>1, <1>2 DEF TypeOK, Conn
<1>4. OpenOutside' /\ ResetsLeft'
  BY <1>2 DEF IInv, PoolInv, OpenOutside, ResetsLeft
<1>5. Ownership'
  BY <1>2 DEF IInv, Ownership, Holds
<1> QED  BY <1>2, <1>3, <1>4, <1>5 DEF IInv, PoolInv

\* A close empties the pool or begins to wait.
LEMMA CloseKeeps ==
  ASSUME IInv, Close
  PROVE  IInv'
<1>1. state \in {"Live", "Closed"} /\ UNCHANGED <<pc, connIndex, conn, trials, resets>>
  BY DEF Close
<1>2. CASE \E i \in DOMAIN conns : conns[i].busy
  <2>1. closing' = TRUE /\ state' = "Closing" /\ UNCHANGED <<conns, opened>>
    BY <1>2 DEF Close
  <2>2. TypeOK' /\ NoConnectionLeaks' /\ AddressesDistinct' /\ OpenOutside' /\ ResetsLeft'
    BY <1>1, <2>1 DEF IInv, PoolInv, TypeOK, NoConnectionLeaks, OpenAddresses,
                      AddressesDistinct, OpenOutside, ResetsLeft
  <2>3. Ownership'
    BY <1>1, <2>1 DEF IInv, Ownership, Holds
  <2> QED  BY <2>2, <2>3 DEF IInv, PoolInv
<1>3. CASE ~\E i \in DOMAIN conns : conns[i].busy
  <2>1. ClosedPool(conns) /\ state' = "Closed"
    BY <1>3 DEF Close
  <2> QED  BY <1>1, <1>3, <2>1, EmptiedKeeps
<1> QED  BY <1>2, <1>3

\* A round of close drops each idle connection's address once.
LEMMA CloseRoundKeeps ==
  ASSUME IInv, CloseRound
  PROVE  IInv'
<1> DEFINE idle == {i \in DOMAIN conns : ~conns[i].busy /\ conns[i].open}
           cs == [i \in DOMAIN conns |->
                    IF i \in idle THEN [conns[i] EXCEPT !.open = FALSE] ELSE conns[i]]
<1>1. /\ closing /\ UNCHANGED <<pc, connIndex, conn, trials, resets>>
      /\ IF \E i \in DOMAIN cs : cs[i].busy
         THEN /\ conns' = cs /\ opened' = opened \ {conns[i].address : i \in idle}
              /\ UNCHANGED <<closing, state>>
         ELSE ClosedPool(conns) /\ state' = "Closed"
  BY DEF CloseRound
<1>2. TypeOK /\ state = "Closing"
  BY <1>1 DEF IInv, PoolInv, OpenOutside
<1>3. DOMAIN cs = DOMAIN conns /\ cs = [i \in DOMAIN conns |-> cs[i]]
  OBVIOUS
<1>4. ASSUME NEW i \in DOMAIN conns
      PROVE  /\ cs[i] \in Conn /\ cs[i].address = conns[i].address /\ cs[i].busy = conns[i].busy
             /\ cs[i].open <=> conns[i].open /\ i \notin idle
  <2>1. conns[i] \in Conn
    BY <1>2, ConnFacts
  <2> QED  BY <2>1 DEF Conn
<1> HIDE DEF cs
<1>5. CASE \E i \in DOMAIN cs : cs[i].busy
  <2>1. conns' = cs /\ opened' = opened \ {conns[i].address : i \in idle}
        /\ UNCHANGED <<closing, state>>
    BY <1>1, <1>5
  <2>2. conns' \in Seq(Conn) /\ Len(conns') = Len(conns)
    BY <1>2, <1>3, <1>4, <2>1, SameIndices
  <2>3. SameAddresses
    BY <1>3, <1>4, <2>1, <2>2 DEF SameAddresses
  <2>4. AddressesDistinct'
    BY <2>3, SameDistinct DEF IInv, PoolInv
  <2>5. NoConnectionLeaks'
    <3>1. /\ opened = {conns[i].address : i \in {j \in DOMAIN conns : conns[j].open}}
          /\ \A i, j \in DOMAIN conns : conns[i].address = conns[j].address => i = j
      BY DEF IInv, PoolInv, NoConnectionLeaks, OpenAddresses, AddressesDistinct
    <3>2. {j \in DOMAIN cs : cs[j].open} = {j \in DOMAIN conns : conns[j].open /\ j \notin idle}
      BY <1>3, <1>4
    <3>3. {cs[i].address : i \in {j \in DOMAIN cs : cs[j].open}}
            = {conns[i].address : i \in {j \in DOMAIN conns : conns[j].open /\ j \notin idle}}
      BY <1>4, <3>2
    <3>4. opened' = {conns[i].address : i \in {j \in DOMAIN conns : conns[j].open /\ j \notin idle}}
      BY <2>1, <3>1
    <3> QED  BY <2>1, <3>3, <3>4 DEF NoConnectionLeaks, OpenAddresses
  <2>6. TypeOK'
    BY <1>1, <1>2, <2>1, <2>2 DEF TypeOK, Conn
  <2>7. OpenOutside' /\ ResetsLeft'
    BY <1>1, <1>2, <2>1 DEF IInv, PoolInv, OpenOutside, ResetsLeft
  <2>8. Ownership'
    <3>1. resets' = 0 => resets = 0 /\ NoResetYet'
      BY <1>1, <2>1 DEF IInv, Ownership, NoResetYet
    <3>2. \A i \in DOMAIN conns : conns'[i].busy = conns[i].busy
      BY <1>4, <2>1
    <3>3. \A d \in Clients : \A i \in DOMAIN conns :
            resets = 0 /\ Holds(d, i) /\ pc'[d] \in Needs => conns'[i].busy
      BY <3>2 DEF Holds
    <3> QED  BY <1>1, <2>3, <3>1, <3>2, <3>3, NoneAcquires
  <2> QED  BY <2>4, <2>5, <2>6, <2>7, <2>8 DEF IInv, PoolInv
<1>6. CASE ~\E i \in DOMAIN cs : cs[i].busy
  <2>1. ClosedPool(conns) /\ state' = "Closed"
    BY <1>1, <1>6
  <2>2. \A i \in DOMAIN conns : ~conns[i].busy
    BY <1>3, <1>4, <1>6
  <2> QED  BY <1>1, <1>2, <2>1, <2>2, EmptiedKeeps
<1> QED  BY <1>5, <1>6

\* A reset takes connections from whoever uses them, but leaks none.
LEMMA ResetKeeps ==
  ASSUME IInv, Reset
  PROVE  IInv'
<1>1. /\ pc[HealthCheck] = "failed" /\ trials = 0 /\ resets' = resets + 1
      /\ UNCHANGED <<connIndex, conn>>
  BY DEF Reset
<1>2. resets' \in 0..MaxResets /\ resets' # 0
  <2>1. resets < MaxResets
    BY <1>1 DEF IInv, PoolInv, ResetsLeft
  <2> QED  BY <1>1, <2>1, Bounds
<1>3. Ownership'
  BY <1>2 DEF Ownership
<1>4. TypeOK /\ NoConnectionLeaks /\ AddressesDistinct /\ OpenOutside
  BY DEF IInv, PoolInv
<1>5. CASE state = "Closing"
  <2>1. /\ conns' = AllReleased(conns) /\ Goto(HealthCheck, "resetting")
        /\ UNCHANGED <<state, opened, closing, trials>>
    BY <1>5 DEF Reset
  <2>2. SameAddresses /\ \A i \in DOMAIN conns : conns'[i].open = conns[i].open
    BY <1>4, <2>1, AllReleasedFacts
  <2>3. NoConnectionLeaks' /\ AddressesDistinct'
    BY <1>4, <2>1, <2>2, SameOpen, SameDistinct
  <2>4. pc' \in [Clients -> Places] /\ pc'[HealthCheck] = "resetting"
    BY <1>4, <2>1, Bounds DEF TypeOK, Goto, Places
  <2>5. TypeOK'
    BY <1>1, <1>2, <1>4, <2>1, <2>2, <2>4 DEF TypeOK, SameAddresses, Conn, Places
  <2>6. OpenOutside' /\ ResetsLeft'
    BY <1>4, <1>5, <2>1, <2>4 DEF OpenOutside, ResetsLeft
  <2> QED  BY <1>3, <2>3, <2>5, <2>6 DEF IInv, PoolInv
<1>6. CASE state # "Closing"
  <2>1. /\ ClosedPool(AllReleased(conns)) /\ state' = "Live" /\ trials' = 1
        /\ Goto(HealthCheck, "idle")
    BY <1>6 DEF Reset
  <2>2. OpenAddresses(AllReleased(conns)) = OpenAddresses(conns)
    <3>1. \A i \in DOMAIN conns : conns[i] \in Conn
      BY <1>4, ConnFacts
    <3>2. \A x \in Conn : [x EXCEPT !.busy = FALSE].open = x.open
                            /\ [x EXCEPT !.busy = FALSE].address = x.address
      BY DEF Conn
    <3> QED  BY <3>1, <3>2 DEF OpenAddresses, AllReleased
  <2>3. /\ conns' = <<>> /\ opened' = {} /\ closing' = FALSE
        /\ NoConnectionLeaks' /\ AddressesDistinct'
        /\ conns' \in Seq(Conn) /\ Len(conns') <= MaxConnections
    BY <1>4, <2>1, <2>2, ClosedFacts
  <2>4. pc' \in [Clients -> Places] /\ pc'[HealthCheck] = "idle"
    BY <1>4, <2>1, Bounds DEF TypeOK, Goto, Places
  <2>5. 1 \in 0..MaxNumTrials
    BY Bounds
  <2>6. TypeOK'
    BY <1>1, <1>2, <1>4, <2>1, <2>3, <2>4, <2>5 DEF TypeOK, Conn, Places
  <2>7. OpenOutside' /\ ResetsLeft'
    BY <2>1, <2>3, <2>4 DEF OpenOutside, ResetsLeft
  <2> QED  BY <1>3, <2>3, <2>6, <2>7 DEF IInv, PoolInv
<1> QED  BY <1>5, <1>6

\* The close that a reset waited for has emptied the pool.
LEMMA ResetOverKeeps ==
  ASSUME IInv, ResetOver
  PROVE  IInv'
<1>1. /\ pc[HealthCheck] = "resetting" /\ state # "Closing" /\ state' = "Live" /\ trials' = 1
      /\ Goto(HealthCheck, "idle")
      /\ UNCHANGED <<conns, connIndex, conn, opened, closing, resets>>
  BY DEF ResetOver
<1>2. resets # 0
  BY <1>1 DEF IInv, Ownership
<1>3. /\ state # "Dead" /\ pc' \in [Clients -> Places] /\ pc'[HealthCheck] = "idle"
  <2>1. "idle" \in Places \ {"dead"}
    BY DEF Places
  <2> QED  BY <1>1, <2>1, Bounds, GoesOn
<1>4. TypeOK /\ OpenOutside
  BY DEF IInv, PoolInv
<1>5. \A i \in DOMAIN conns : conns[i].open
  BY <1>1, <1>3, <1>4 DEF TypeOK, OpenOutside
<1>6. 1 \in 0..MaxNumTrials
  BY Bounds
<1>7. TypeOK'
  BY <1>1, <1>3, <1>4, <1>6 DEF TypeOK, Places
<1>8. NoConnectionLeaks' /\ AddressesDistinct'
  BY <1>1 DEF IInv, PoolInv, NoConnectionLeaks, OpenAddresses, AddressesDistinct
<1>9. OpenOutside' /\ ResetsLeft' /\ Ownership'
  BY <1>1, <1>2, <1>3, <1>4, <1>5 DEF OpenOutside, ResetsLeft, Ownership
<1> QED  BY <1>7, <1>8, <1>9 DEF IInv, PoolInv

-----------------------------------------------------------------------------
(* The theorems.                                                           *)

\* The pool starts empty.
LEMMA InitIInv == Init => IInv
<1> SUFFICES ASSUME Init  PROVE IInv
  OBVIOUS
<1>1. (CHOOSE a \in Addresses : TRUE) \in Addresses
  BY PoolAssumption, Zenon
<1>2. conn \in [Clients -> Addresses]
  BY <1>1 DEF Init
<1>3. HealthCheck \in Clients
  BY DEF Clients
<1>4. TypeOK
  <2>1. conns \in Seq(Conn) /\ Len(conns) <= MaxConnections
    BY PoolAssumption DEF Init
  <2>2. /\ trials \in 0..MaxNumTrials /\ resets \in 0..MaxResets
        /\ connIndex \in [Clients -> 0..MaxConnections]
    BY PoolAssumption DEF Init
  <2> QED  BY <1>2, <2>1, <2>2 DEF Init, TypeOK, Conn
<1>5. DOMAIN conns = {} /\ OpenAddresses(conns) = {}
  BY DEF Init, OpenAddresses
<1>6. NoConnectionLeaks /\ AddressesDistinct /\ OpenOutside /\ ResetsLeft
  BY <1>3, <1>5 DEF Init, NoConnectionLeaks, AddressesDistinct, OpenOutside, ResetsLeft
<1>7. Ownership
  BY <1>3, <1>5 DEF Init, Ownership
<1> QED  BY <1>4, <1>6, <1>7 DEF IInv, PoolInv

\* Steps that change nothing.
LEMMA StutterKeeps == IInv /\ UNCHANGED vars => IInv'
BY DEF IInv, PoolInv, TypeOK, NoConnectionLeaks, OpenAddresses, AddressesDistinct,
       OpenOutside, ResetsLeft, Ownership, Holds, vars

\* The invariant is inductive.
LEMMA Invariance == Spec => []IInv
<1>1. IInv /\ [Next]_vars => IInv'
  <2> SUFFICES ASSUME IInv, [Next]_vars  PROVE IInv'
    OBVIOUS
  <2>1. CASE \E c \in Clients : QueryStep(c)
    <3>1. PICK c \in Clients : QueryStep(c)
      BY <2>1
    <3> QED  BY <3>1, RefusedKeeps, TakeKeeps, OpenNewKeeps, ResumeKeeps, FinishKeeps DEF QueryStep
  <2>2. CASE Wake
    BY <2>2, WakeKeeps
  <2>3. CASE Close \/ CloseRound
    BY <2>3, CloseKeeps, CloseRoundKeeps
  <2>4. CASE Reset \/ ResetOver \/ TrialFailed
    BY <2>4, ResetKeeps, ResetOverKeeps, TrialFailedKeeps
  <2>5. CASE UNCHANGED vars
    BY <2>5, StutterKeeps
  <2> QED  BY <2>1, <2>2, <2>3, <2>4, <2>5 DEF Next
<1> QED  BY <1>1, InitIInv, PTL DEF Spec

\* The pool keeps to its limit, and the database has exactly the open
\* connections of the pool, through closes, resets and resets during a close
\* (close and resetConnPool).
THEOREM PoolStaysSound == Spec => []PoolSound
<1>1. IInv => PoolSound
  BY DEF IInv, PoolInv, PoolSound
<1> QED  BY <1>1, Invariance, PTL

\* Until the first reset no two queries are on one connection, although
\* getConnIndex and its caller are two steps and releaseConn goes by address;
\* and the program does not end.
THEOREM ExclusiveUntilReset == Spec => []ExclusiveWithoutReset
<1>1. ASSUME IInv  PROVE ExclusiveWithoutReset
  <2> SUFFICES ASSUME resets = 0
               PROVE  state # "Dead" /\ \A c, d \in Clients : ~Share(c, d)
    BY DEF ExclusiveWithoutReset
  <2>1. ASSUME NEW c \in Clients, NEW d \in Clients, Share(c, d)  PROVE FALSE
    <3>1. PICK i \in DOMAIN conns : Holds(c, i)
      BY <1>1, <2>1 DEF IInv, Ownership, Share
    <3>2. Holds(d, i)
      BY <2>1, <3>1 DEF Share, Holds
    <3> QED  BY <1>1, <2>1, <3>1, <3>2 DEF IInv, Ownership, Share
  <2> QED  BY <1>1, <2>1 DEF IInv, Ownership
<1> QED  BY <1>1, Invariance, PTL
=============================================================================
