---------------------------- MODULE PgAsyncPool ----------------------------
(***************************************************************************)
(* The pool of Postgres connections (common/databases/db_postgres/         *)
(* pgasyncpool.nim, dbconn.nim) with the queries that share it, the health *)
(* check that resets it (postgres_driver/postgres_healthcheck.nim) and its *)
(* close.                                                                  *)
(*                                                                         *)
(* Everything runs on one event loop; a step is the code between two       *)
(* awaits.  A connection is the address libpq gave it (DbConn is a         *)
(* pointer): closing one frees the address and a later one may get it.     *)
(* An ordinary query runs once; the health check's repeats.                *)
(***************************************************************************)
EXTENDS Integers, Sequences, FiniteSets

CONSTANTS
  Queries,
  HealthCheck,      \* the health check's query
  Addresses,        \* what libpq may return
  MaxConnections,
  MaxNumTrials,     \* of the health check, after a reset
  MaxResets,        \* bound on the resets
  MayClose          \* whether the driver may close the pool

ASSUME PoolAssumption ==
  /\ HealthCheck \notin Queries /\ Addresses # {}
  /\ MaxConnections \in Nat \ {0} /\ MaxNumTrials \in Nat \ {0}
  /\ MaxResets \in Nat
  /\ MayClose \in BOOLEAN

Clients == Queries \cup {HealthCheck}

VARIABLES
  conns,      \* sequence of [address, open, busy]
  state,      \* "Live", "Closing" or "Closed"; "Dead" when the program ended
  pc,         \* where each client is
  connIndex,  \* the index getConnIndex returned to it
  conn,       \* the connection it uses
  opened,     \* the addresses libpq has connections at
  closing,    \* a close waits in its loop
  trials,     \* which trial after a reset the health check is at, or 0
  resets      \* history: how many

vars == <<conns, state, pc, connIndex, conn, opened, closing, trials, resets>>

IsLive == state = "Live"

\* True of an empty pool too.
IsBusy == \A i \in DOMAIN conns : conns[i].busy

AllReleased(cs) == [i \in DOMAIN cs |-> [cs[i] EXCEPT !.busy = FALSE]]

OpenAddresses(cs) == {cs[i].address : i \in {j \in DOMAIN cs : cs[j].open}}

Goto(c, where) == pc' = [pc EXCEPT ![c] = where]

\* A query that ended in an error; the health check acts on it.
Errs(c) == Goto(c, IF c = HealthCheck THEN "failed" ELSE "done")

\* Errors of the health check are bounded with the resets they cause.
MayErr(c) == c = HealthCheck /\ trials = 0 => resets < MaxResets

\* A Defect, or onFatalErrorAction, which quits.
EndProgram ==
  /\ pc' = [d \in Clients |-> "dead"]
  /\ state' = "Dead"
  /\ closing' = FALSE

-----------------------------------------------------------------------------
(* pgQuery and runStmt: getConnIndex, the query, releaseConn.              *)

Refused(c) ==
  /\ pc[c] = "idle" /\ ~IsLive /\ MayErr(c)
  /\ Errs(c)
  /\ UNCHANGED <<conns, state, connIndex, conn, opened, closing, trials, resets>>

FirstFree(cs, i) == ~cs[i].busy /\ \A j \in 1..(i - 1) : cs[j].busy

\* Faulty: leaves the connection free.
UnmarkedBusy(cs, i) == cs

MarkedBusy(cs, i) == [cs EXCEPT ![i].busy = TRUE]

\* getFirstFreeConnIndex, reached without awaiting.
TakeFree(c) ==
  \E i \in DOMAIN conns :
    /\ pc[c] = "idle" /\ IsLive /\ ~IsBusy
    /\ FirstFree(conns, i)
    /\ conns' = MarkedBusy(conns, i)
    /\ conn' = [conn EXCEPT ![c] = conns[i].address]
    /\ Goto(c, "running")
    /\ UNCHANGED <<state, connIndex, opened, closing, trials, resets>>

Wait(c) ==
  /\ pc[c] = "idle" /\ IsLive /\ IsBusy
  /\ Len(conns) = MaxConnections
  /\ Goto(c, "waiting")
  /\ UNCHANGED <<conns, state, connIndex, conn, opened, closing, trials, resets>>

\* Faulty: counts the connections in use.
RoomBesideBusy == Cardinality({i \in DOMAIN conns : ~conns[i].busy}) < MaxConnections

RoomForAnother == Len(conns) < MaxConnections

OpenNew(c) ==
  /\ pc[c] = "idle" /\ IsLive /\ IsBusy
  /\ RoomForAnother
  /\ \E a \in Addresses \ opened :
       /\ conns' = Append(conns, [address |-> a, open |-> TRUE, busy |-> TRUE])
       /\ conn' = [conn EXCEPT ![c] = a]
       /\ opened' = opened \cup {a}
  /\ Goto(c, "running")
  /\ UNCHANGED <<state, connIndex, closing, trials, resets>>

OpenFails(c) ==
  /\ pc[c] = "idle" /\ IsLive /\ IsBusy /\ MayErr(c)
  /\ RoomForAnother
  /\ Errs(c)
  /\ UNCHANGED <<conns, state, connIndex, conn, opened, closing, trials, resets>>

\* The waiting loop finds a free connection.  Neither the state of the pool
\* nor that of the connection is looked at.
WaitOver(c) ==
  \E i \in DOMAIN conns :
    /\ pc[c] = "waiting" /\ ~IsBusy
    /\ FirstFree(conns, i)
    /\ conns' = MarkedBusy(conns, i)
    /\ connIndex' = [connIndex EXCEPT ![c] = i]
    /\ Goto(c, "granted")
    /\ UNCHANGED <<state, conn, opened, closing, trials, resets>>

\* The caller of getConnIndex resumes, later than the loop ended.  An index
\* out of range is a Defect, which ends the program.
Resume(c) ==
  /\ pc[c] = "granted"
  /\ IF connIndex[c] \in DOMAIN conns
     THEN /\ conn' = [conn EXCEPT ![c] = conns[connIndex[c]].address]
          /\ Goto(c, "running")
          /\ UNCHANGED <<state, closing>>
     ELSE EndProgram /\ UNCHANGED conn
  /\ UNCHANGED <<conns, connIndex, opened, trials, resets>>

\* Faulty: marks nothing.
ReleaseNothing(cs, a) == cs

\* releaseConn looks for the connection by its address.
ReleaseConn(cs, a) ==
  [i \in DOMAIN cs |-> IF cs[i].address = a THEN [cs[i] EXCEPT !.busy = FALSE] ELSE cs[i]]

Finish(c) ==
  /\ pc[c] = "running"
  /\ conns' = ReleaseConn(conns, conn[c])
  /\ \/ /\ Goto(c, IF c = HealthCheck THEN "asleep" ELSE "done")
        /\ trials' = IF c = HealthCheck THEN 0 ELSE trials
     \/ MayErr(c) /\ Errs(c) /\ UNCHANGED trials
  /\ UNCHANGED <<state, connIndex, conn, opened, closing, resets>>

\* The health check sleeps a minute between two rounds and a second between
\* two trials; whoever could go on at the start of it has done so by its
\* end.
Wake ==
  /\ pc[HealthCheck] = "asleep"
  /\ \A c \in Queries : pc[c] # "granted" /\ (pc[c] = "waiting" => IsBusy)
  /\ Goto(HealthCheck, "idle")
  /\ UNCHANGED <<conns, state, connIndex, conn, opened, closing, trials, resets>>

-----------------------------------------------------------------------------
(* close and resetConnPool.                                                *)

\* Faulty: drops the connections without closing them.
DroppedPool(cs) ==
  /\ UNCHANGED opened
  /\ conns' = <<>>
  /\ closing' = FALSE

\* The end of close, once no connection is busy.
ClosedPool(cs) ==
  /\ opened' = opened \ OpenAddresses(cs)
  /\ conns' = <<>>
  /\ closing' = FALSE

\* A close begins.  (A second one only waits for the first.)
Close ==
  /\ MayClose /\ state \in {"Live", "Closed"}
  /\ IF \E i \in DOMAIN conns : conns[i].busy
     THEN /\ closing' = TRUE
          /\ state' = "Closing"
          /\ UNCHANGED <<conns, opened>>
     ELSE ClosedPool(conns) /\ state' = "Closed"
  /\ UNCHANGED <<pc, connIndex, conn, trials, resets>>

\* One round of the loop in close: connections that are not busy are closed
\* and stay in the pool, marked neither open nor busy.
CloseRound ==
  LET idle == {i \in DOMAIN conns : ~conns[i].busy /\ conns[i].open}
      cs == [i \in DOMAIN conns |->
               IF i \in idle THEN [conns[i] EXCEPT !.open = FALSE] ELSE conns[i]]
  IN  /\ closing
      /\ IF \E i \in DOMAIN cs : cs[i].busy
         THEN /\ conns' = cs
              /\ opened' = opened \ {conns[i].address : i \in idle}
              /\ UNCHANGED <<closing, state>>
         ELSE ClosedPool(conns) /\ state' = "Closed"
      /\ UNCHANGED <<pc, connIndex, conn, trials, resets>>

\* The health check's query failed.  resetConnPool releases every
\* connection, whoever uses it, and closes the pool; with nothing busy that
\* takes no await, unless a close is at it.  The first trial follows.
Reset ==
  /\ pc[HealthCheck] = "failed" /\ trials = 0
  /\ resets' = resets + 1
  /\ IF state = "Closing"
     THEN /\ conns' = AllReleased(conns)
          /\ Goto(HealthCheck, "resetting")
          /\ UNCHANGED <<state, opened, closing, trials>>
     ELSE /\ ClosedPool(AllReleased(conns))
          /\ state' = "Live"
          /\ trials' = 1
          /\ Goto(HealthCheck, "idle")
  /\ UNCHANGED <<connIndex, conn>>

\* The close a reset waited for is over.
ResetOver ==
  /\ pc[HealthCheck] = "resetting" /\ state # "Closing"
  /\ state' = "Live"
  /\ trials' = 1
  /\ Goto(HealthCheck, "idle")
  /\ UNCHANGED <<conns, connIndex, conn, opened, closing, resets>>

\* A trial failed too; the last one is fatal.
TrialFailed ==
  /\ pc[HealthCheck] = "failed" /\ trials > 0
  /\ IF trials < MaxNumTrials
     THEN /\ trials' = trials + 1
          /\ Goto(HealthCheck, "asleep")
          /\ UNCHANGED <<state, closing>>
     ELSE EndProgram /\ UNCHANGED trials
  /\ UNCHANGED <<conns, connIndex, conn, opened, resets>>

Init ==
  /\ conns = <<>>
  /\ state = "Live"
  /\ pc = [c \in Clients |-> "idle"]
  /\ connIndex = [c \in Clients |-> 0]
  /\ conn \in [Clients -> {CHOOSE a \in Addresses : TRUE}]
  /\ opened = {}
  /\ closing = FALSE
  /\ trials = 0
  /\ resets = 0

QueryStep(c) ==
  \/ Refused(c)
  \/ TakeFree(c) \/ Wait(c) \/ OpenNew(c) \/ OpenFails(c)
  \/ WaitOver(c) \/ Resume(c)
  \/ Finish(c)

Next ==
  \/ \E c \in Clients : QueryStep(c)
  \/ Wake
  \/ Close \/ CloseRound
  \/ Reset \/ ResetOver \/ TrialFailed

Spec == Init /\ [][Next]_vars

\* chronos resumes whoever sleeps or awaits, the database answers queries,
\* and the health check goes on.  Nothing is assumed of when queries begin.
Fairness ==
  /\ \A c \in Clients : /\ WF_vars(WaitOver(c))
                        /\ WF_vars(Resume(c))
                        /\ WF_vars(Finish(c))
  /\ WF_vars(QueryStep(HealthCheck))
  /\ WF_vars(CloseRound)
  /\ WF_vars(Wake) /\ WF_vars(Reset \/ ResetOver \/ TrialFailed)

FairSpec == Spec /\ Fairness

-----------------------------------------------------------------------------
(* Properties.                                                             *)

\* The shape of the state; the pool keeps to its limit.
TypeOK ==
  /\ conns \in Seq([address : Addresses, open : BOOLEAN, busy : BOOLEAN])
  /\ Len(conns) <= MaxConnections
  /\ state \in {"Live", "Closing", "Closed", "Dead"}
  /\ pc \in [Clients -> {"idle", "waiting", "granted", "running", "done", "failed",
                         "resetting", "asleep", "dead"}]
  /\ connIndex \in [Clients -> 0..MaxConnections]
  /\ conn \in [Clients -> Addresses]
  /\ opened \in SUBSET Addresses
  /\ closing \in BOOLEAN
  /\ trials \in 0..MaxNumTrials /\ resets \in 0..MaxResets

\* The database sees exactly the open connections of the pool: none leaks
\* in a close, a reset or a reset during a close.
NoConnectionLeaks == opened = OpenAddresses(conns)

\* The pool is sound: within its limit, and in step with the database.
PoolSound == TypeOK /\ NoConnectionLeaks

Share(c, d) == c # d /\ pc[c] = "running" /\ pc[d] = "running" /\ conn[c] = conn[d]

\* Without a reset no two queries use a connection at once, and the index a
\* query waited for is still good when it resumes, through a close as well.
ExclusiveWithoutReset ==
  resets = 0 => state # "Dead" /\ \A c, d \in Clients : ~Share(c, d)

\* A query that waits for a connection gets one, resets included, unless the
\* pool is closed.  The health check's own query is what revives an emptied
\* pool.
WaitersServed ==
  \A c \in Queries : pc[c] = "waiting" ~> pc[c] # "waiting" \/ ~IsLive
=============================================================================
