------------------------------ MODULE Upstream ------------------------------
(***************************************************************************)
(* One upstream group of the proxy (struct Upstream, proxy.rs) and the     *)
(* calls of proxy_pass that share it: the record of recent failures of     *)
(* every server, the three balancers of get_server, and what a call does   *)
(* to the group when its exchange ends.                                    *)
(*                                                                         *)
(* Connection tasks run in parallel on the runtime's threads.  A call is   *)
(* interleaved with the others between any two of its accesses to shared   *)
(* state: each atomic operation on next_server or on a connection count,   *)
(* and each critical section of a failure record, is one action.           *)
(***************************************************************************)
EXTENDS Integers, Sequences, FiniteSets

CONSTANTS
  Calls,        \* the calls of proxy_pass on this group, each made once
  N,            \* servers.len()
  MaxFails,     \* max_fails
  FailTimeout,  \* fail_timeout, in ticks of the clock
  MaxTime,      \* bound: the last tick of the clock
  U32Max,       \* u32::MAX
  Balancings    \* the balancers a configuration may ask for

Server == 0 .. N - 1

NAssumption == N \in Nat \ {0}
ASSUME NAssumption

\* Fewer calls are under way than a u32 can count.
CallsAssumption == IsFiniteSet(Calls) /\ U32Max \in Nat /\ Cardinality(Calls) < U32Max
ASSUME CallsAssumption

LimitsAssumption == MaxFails \in Nat /\ FailTimeout \in Nat /\ MaxTime \in Nat
ASSUME LimitsAssumption

BalancingsAssumption == Balancings \subseteq {"RoundRobin", "LeastConnected", "IpHash"}
ASSUME BalancingsAssumption

VARIABLES
  balancing,          \* the balancer of the group
  now,                \* the clock: Instant::now()
  failures,           \* server -> instants of its recorded failures, oldest first
  next_server,        \* RoundRobin(AtomicUsize)
  connection_counts,  \* LeastConnected(Vec<AtomicU32>)
  pc,                 \* call -> where it is
  current_server,     \* call -> local current_server of the RoundRobin arm
  attempts,           \* call -> iterations of its loop already made
  scan,               \* call -> locals of the LeastConnected arm
  server              \* call -> the server get_server returned

callVars == <<pc, current_server, attempts, scan, server>>
vars == <<balancing, now, failures, next_server, connection_counts, callVars>>

Locations ==
  {"start", "claim", "check", "health", "count", "pick", "held", "failed", "closing", "done"}

\* The locals of a scan before its loop.
NewScan == [i |-> 0, healthy |-> FALSE, best_server |-> 0, best_count |-> U32Max,
            best_failed |-> 0, best_failed_count |-> U32Max]

Init ==
  /\ balancing \in Balancings
  /\ now = 0
  /\ failures = [s \in Server |-> <<>>]
  /\ next_server = 0
  /\ connection_counts = [s \in Server |-> 0]
  /\ pc = [c \in Calls |-> "start"]
  /\ current_server = [c \in Calls |-> 0]
  /\ attempts = [c \in Calls |-> 0]
  /\ scan = [c \in Calls |-> NewScan]
  /\ server = [c \in Calls |-> 0]

-----------------------------------------------------------------------------
(* Atomic u32 counters wrap. *)

Increment(n) == (n + 1) % (U32Max + 1)
Decrement(n) == (n + U32Max) % (U32Max + 1)

(* The failure record of a server, used under its mutex. *)

\* Mutant: a failure exactly fail_timeout old has expired.
ExpiredTooSoon(instant) == now - instant >= FailTimeout

Expired(instant) == now - instant > FailTimeout

\* update_failures pops from the front while the front has expired.
Popped(s) ==
  CHOOSE k \in 0 .. Len(failures[s]) :
    /\ \A j \in 1 .. k : Expired(failures[s][j])
    /\ k < Len(failures[s]) => ~Expired(failures[s][k + 1])

Remaining(s) == SubSeq(failures[s], Popped(s) + 1, Len(failures[s]))

\* The result of update_failures.
Usable(s) == Len(Remaining(s)) < MaxFails

UpdateFailures(s) == failures' = [failures EXCEPT ![s] = Remaining(s)]

Goto(c, l) == pc' = [pc EXCEPT ![c] = l]

\* get_server returns s: its locals are gone.
Return(c, s) ==
  /\ Goto(c, "held")
  /\ server' = [server EXCEPT ![c] = s]
  /\ attempts' = [attempts EXCEPT ![c] = 0]
  /\ scan' = [scan EXCEPT ![c] = NewScan]

-----------------------------------------------------------------------------
(* get_server, RoundRobin *)

LoadTurn(c) ==
  /\ pc[c] = "start"
  /\ balancing = "RoundRobin"
  /\ Goto(c, "claim")
  /\ current_server' = [current_server EXCEPT ![c] = next_server]
  /\ UNCHANGED <<balancing, now, failures, next_server, connection_counts, attempts, scan, server>>

\* Mutant: the next turn is stored, whatever next_server is by now.
ClaimTurnByStore(c) ==
  /\ pc[c] = "claim"
  /\ next_server' = (current_server[c] + 1) % N
  /\ Goto(c, "check")
  /\ UNCHANGED <<balancing, now, failures, connection_counts, current_server, attempts, scan, server>>

\* compare_exchange_weak succeeds.  (Its spurious failures change nothing.)
ClaimTurn(c) ==
  /\ pc[c] = "claim"
  /\ next_server = current_server[c]
  /\ next_server' = (current_server[c] + 1) % N
  /\ Goto(c, "check")
  /\ UNCHANGED <<balancing, now, failures, connection_counts, current_server, attempts, scan, server>>

\* Mutant: the value found is not taken over.
LoseRaceWithoutReload(c) ==
  /\ pc[c] = "claim"
  /\ next_server # current_server[c]
  /\ UNCHANGED vars

\* compare_exchange_weak fails: another value was found, and is tried next.
LoseRace(c) ==
  /\ pc[c] = "claim"
  /\ next_server # current_server[c]
  /\ current_server' = [current_server EXCEPT ![c] = next_server]
  /\ UNCHANGED <<balancing, now, failures, next_server, connection_counts, pc, attempts, scan, server>>

\* Mutant: one attempt fewer than there are servers.
CheckTurnTooFew(c) ==
  /\ pc[c] = "check"
  /\ UpdateFailures(current_server[c])
  /\ \/ /\ Usable(current_server[c]) \/ attempts[c] + 2 >= N
        /\ Return(c, current_server[c])
     \/ /\ ~Usable(current_server[c]) /\ attempts[c] + 2 < N
        /\ Goto(c, "claim")
        /\ attempts' = [attempts EXCEPT ![c] = @ + 1]
        /\ UNCHANGED <<scan, server>>
  /\ UNCHANGED <<balancing, now, next_server, connection_counts, current_server>>

\* The claimed server is returned when it is usable, or when it is the last of N + 1.
CheckTurn(c) ==
  /\ pc[c] = "check"
  /\ UpdateFailures(current_server[c])
  /\ \/ /\ Usable(current_server[c]) \/ attempts[c] = N
        /\ Return(c, current_server[c])
     \/ /\ ~Usable(current_server[c]) /\ attempts[c] < N
        /\ Goto(c, "claim")
        /\ attempts' = [attempts EXCEPT ![c] = @ + 1]
        /\ UNCHANGED <<scan, server>>
  /\ UNCHANGED <<balancing, now, next_server, connection_counts, current_server>>

-----------------------------------------------------------------------------
(* get_server, LeastConnected *)

BeginScan(c) ==
  /\ pc[c] = "start"
  /\ balancing = "LeastConnected"
  /\ Goto(c, "health")
  /\ UNCHANGED <<balancing, now, failures, next_server, connection_counts,
                 current_server, attempts, scan, server>>

ScanHealth(c) ==
  LET i == scan[c].i IN
  /\ pc[c] = "health"
  /\ UpdateFailures(i)
  /\ scan' = [scan EXCEPT ![c].healthy = Usable(i)]
  /\ Goto(c, "count")
  /\ UNCHANGED <<balancing, now, next_server, connection_counts, current_server, attempts, server>>

\* The locals after the count n of server sc.i was read.
Compare(sc, n) ==
  LET better == sc.healthy /\ n < sc.best_count
      better_failed == ~sc.healthy /\ n < sc.best_failed_count
  IN [i |-> sc.i + 1,
      healthy |-> sc.healthy,
      best_server |-> IF better THEN sc.i ELSE sc.best_server,
      best_count |-> IF better THEN n ELSE sc.best_count,
      best_failed |-> IF better_failed THEN sc.i ELSE sc.best_failed,
      best_failed_count |-> IF better_failed THEN n ELSE sc.best_failed_count]

\* Mutant: the scan goes one server too far.
ScanCountPastEnd(c) ==
  LET i == scan[c].i IN
  /\ pc[c] = "count"
  /\ scan' = [scan EXCEPT ![c] = Compare(scan[c], connection_counts[i])]
  /\ Goto(c, IF i < N THEN "health" ELSE "pick")
  /\ UNCHANGED <<balancing, now, failures, next_server, connection_counts,
                 current_server, attempts, server>>

ScanCount(c) ==
  LET i == scan[c].i IN
  /\ pc[c] = "count"
  /\ scan' = [scan EXCEPT ![c] = Compare(scan[c], connection_counts[i])]
  /\ Goto(c, IF i + 1 < N THEN "health" ELSE "pick")
  /\ UNCHANGED <<balancing, now, failures, next_server, connection_counts,
                 current_server, attempts, server>>

\* Mutant: the less loaded of the two candidates.
PickedByLoad(c) ==
  IF scan[c].best_failed_count < scan[c].best_count THEN scan[c].best_failed ELSE scan[c].best_server

\* The server a finished scan names: best_failed when no usable one was found.
Picked(c) == IF scan[c].best_count = U32Max THEN scan[c].best_failed ELSE scan[c].best_server

\* Mutant: the count read by the scan is stored plus one, instead of fetch_add.
PickLeastByStore(c) ==
  /\ pc[c] = "pick"
  /\ connection_counts' =
       [connection_counts EXCEPT ![Picked(c)] =
          Increment(IF scan[c].best_count = U32Max THEN scan[c].best_failed_count ELSE scan[c].best_count)]
  /\ Return(c, Picked(c))
  /\ UNCHANGED <<balancing, now, failures, next_server, current_server>>

PickLeast(c) ==
  /\ pc[c] = "pick"
  /\ connection_counts' = [connection_counts EXCEPT ![Picked(c)] = Increment(@)]
  /\ Return(c, Picked(c))
  /\ UNCHANGED <<balancing, now, failures, next_server, current_server>>

-----------------------------------------------------------------------------
(* get_server, IpHash: any server, as the client's address falls. *)

HashServer(c, s) ==
  /\ pc[c] = "start"
  /\ balancing = "IpHash"
  /\ UpdateFailures(s)
  /\ Return(c, s)
  /\ UNCHANGED <<balancing, now, next_server, connection_counts, current_server>>

-----------------------------------------------------------------------------
(* The end of proxy_pass *)

\* Mutant: the early return of a variable's error does not close the connection.
EndExchangeUnclosed(c) ==
  /\ pc[c] = "held"
  /\ Goto(c, "done")
  /\ UNCHANGED <<balancing, now, failures, next_server, connection_counts,
                 current_server, attempts, scan, server>>

\* A response, an error of a variable in the server's name, or a panic.
EndExchange(c) ==
  /\ pc[c] = "held"
  /\ Goto(c, "closing")
  /\ UNCHANGED <<balancing, now, failures, next_server, connection_counts,
                 current_server, attempts, scan, server>>

\* proxy_pass_to returned an error.
FailExchange(c) ==
  /\ pc[c] = "held"
  /\ Goto(c, "failed")
  /\ UNCHANGED <<balancing, now, failures, next_server, connection_counts,
                 current_server, attempts, scan, server>>

\* Mutant: push_front.
AddFailureAtFront(c) ==
  /\ pc[c] = "failed"
  /\ failures' = [failures EXCEPT ![server[c]] = <<now>> \o @]
  /\ Goto(c, "closing")
  /\ UNCHANGED <<balancing, now, next_server, connection_counts,
                 current_server, attempts, scan, server>>

AddFailure(c) ==
  /\ pc[c] = "failed"
  /\ failures' = [failures EXCEPT ![server[c]] = Append(@, now)]
  /\ Goto(c, "closing")
  /\ UNCHANGED <<balancing, now, next_server, connection_counts,
                 current_server, attempts, scan, server>>

\* The deferred close_connection, on every way out.
CloseConnection(c) ==
  /\ pc[c] = "closing"
  /\ connection_counts' =
       IF balancing = "LeastConnected"
       THEN [connection_counts EXCEPT ![server[c]] = Decrement(@)]
       ELSE connection_counts
  /\ Goto(c, "done")
  /\ UNCHANGED <<balancing, now, failures, next_server, current_server, attempts, scan, server>>

Tick ==
  /\ now < MaxTime
  /\ now' = now + 1
  /\ UNCHANGED <<balancing, failures, next_server, connection_counts, callVars>>

-----------------------------------------------------------------------------
Arrive(c) == LoadTurn(c) \/ BeginScan(c) \/ (\E s \in Server : HashServer(c, s))

\* The steps of a call that wait for nothing.
Choose(c) ==
  \/ ClaimTurn(c) \/ LoseRace(c) \/ CheckTurn(c)
  \/ ScanHealth(c) \/ ScanCount(c) \/ PickLeast(c)

Release(c) == AddFailure(c) \/ CloseConnection(c)

Exchange(c) == EndExchange(c) \/ FailExchange(c)

CallStep(c) == Arrive(c) \/ Choose(c) \/ Exchange(c) \/ Release(c)

\* Every request was answered: nothing is left to do but let time pass.
Finished == (\A c \in Calls : pc[c] = "done") /\ UNCHANGED vars

Next == (\E c \in Calls : CallStep(c)) \/ Tick \/ Finished

\* A running task is scheduled again; when requests come and how long an
\* exchange takes is not promised here.
Fairness == \A c \in Calls : WF_vars(Choose(c)) /\ WF_vars(Release(c))

Spec == Init /\ [][Next]_vars /\ Fairness

-----------------------------------------------------------------------------
Scans ==
  [i : 0 .. N, healthy : BOOLEAN, best_server : Server, best_count : 0 .. U32Max,
   best_failed : Server, best_failed_count : 0 .. U32Max]

\* Every variable has its type, and a call's locals are in range where they are used.
TypeOK ==
  /\ balancing \in Balancings
  /\ now \in Nat
  /\ failures \in [Server -> Seq(Nat)]
  /\ next_server \in Server
  /\ connection_counts \in [Server -> 0 .. U32Max]
  /\ pc \in [Calls -> Locations]
  /\ current_server \in [Calls -> Server]
  /\ attempts \in [Calls -> 0 .. N]
  /\ scan \in [Calls -> Scans]
  /\ server \in [Calls -> Server]
  /\ \A c \in Calls : pc[c] \in {"start", "health", "count"} => scan[c].i < N

\* A call inside get_server is in the arm of the group's balancer.
InArmOfBalancer ==
  \A c \in Calls :
    /\ pc[c] \in {"claim", "check"} => balancing = "RoundRobin"
    /\ pc[c] \in {"health", "count", "pick"} => balancing = "LeastConnected"

(* The calls whose exchange with server s is open. *)
Holding(c) == pc[c] \in {"held", "failed", "closing"}
Holders(s) == {c \in Calls : Holding(c) /\ server[c] = s}

\* Under LeastConnected a server's count is the number of exchanges open with
\* it: whatever way they end (response, error, panic), no increment is lost,
\* none is given back twice and the count never wraps below zero.
ConnectionsCounted ==
  \A s \in Server :
    connection_counts[s] = IF balancing = "LeastConnected" THEN Cardinality(Holders(s)) ELSE 0

\* The record of a server is in the order of time, which is what lets
\* update_failures stop at the first failure that has not expired.
FailuresInOrder ==
  \A s \in Server :
    /\ \A j, k \in 1 .. Len(failures[s]) : j <= k => failures[s][j] <= failures[s][k]
    /\ \A j \in 1 .. Len(failures[s]) : failures[s][j] <= now

\* Choosing a server terminates: the retry loop of the round robin and the
\* compare-exchange loop inside it end for every caller.
EveryCallGetsAServer ==
  \A c \in Calls : pc[c] \in {"claim", "check", "health", "count", "pick"} ~> pc[c] = "held"
=============================================================================
