----------------------------- MODULE ProxyProofs -----------------------------
(***************************************************************************)
(* Theorems about proxy.rs.                                                *)
(*                                                                         *)
(* Of an upstream group and the calls that share it: its types, the        *)
(* connection counts and the records of failures, and then what a call     *)
(* could have known while it chose a server: the promise of max_fails and  *)
(* fail_timeout, the turns of the round robin, and which server a call is  *)
(* given.                                                                  *)
(*                                                                         *)
(* Of the exchange of proxy_pass: it is made of steps of the group, so     *)
(* that what was proved of the group is true of it; its sockets are        *)
(* counted, its failures recorded, and together with the group it          *)
(* implements the pool of leases.                                          *)
(***************************************************************************)
EXTENDS ProxyPass, UpstreamHistory, FiniteSetTheorems, SequenceTheorems, NaturalLemmas

-----------------------------------------------------------------------------
(* Lemmas about the operators of the model *)

\* The turn after x: the counter of the round robin stays inside the group.
LEMMA NextTurn ==
  ASSUME NEW x \in Server
  PROVE  (x + 1) % N = (IF x + 1 = N THEN 0 ELSE x + 1) /\ (x + 1) % N \in Server
BY NAssumption, Z3 DEF NAssumption, Server

\* Below the top of a u32 fetch_add adds one.
LEMMA IncrementBelowMax ==
  ASSUME NEW n \in Nat, n < U32Max
  PROVE  Increment(n) = n + 1
BY CallsAssumption, Z3 DEF CallsAssumption, Increment

\* Above zero fetch_sub takes one away.
LEMMA DecrementAboveZero ==
  ASSUME NEW n \in 1 .. U32Max
  PROVE  Decrement(n) = n - 1
<1>1. n + U32Max = (n - 1) + 1 * (U32Max + 1) /\ n - 1 \in 0 .. U32Max
  BY CallsAssumption DEF CallsAssumption
<1> QED BY <1>1, CallsAssumption, Z3 DEF CallsAssumption, Decrement

\* A counter is a u32 after either.
LEMMA CountersWrap ==
  ASSUME NEW n \in 0 .. U32Max
  PROVE  Increment(n) \in 0 .. U32Max /\ Decrement(n) \in 0 .. U32Max
BY CallsAssumption, Z3 DEF CallsAssumption, Increment, Decrement

\* The loop of update_failures stops at the first failure that has not expired.
LEMMA PoppedIsExpiredPrefix ==
  ASSUME failures \in [Server -> Seq(Nat)], NEW s \in Server
  PROVE  /\ Popped(s) \in 0 .. Len(failures[s])
         /\ \A j \in 1 .. Popped(s) : Expired(failures[s][j])
         /\ Popped(s) < Len(failures[s]) => ~Expired(failures[s][Popped(s) + 1])
<1> DEFINE fs == failures[s]
           T == {k \in 0 .. Len(fs) : k = Len(fs) \/ ~Expired(fs[k + 1])}
<1>1. Len(fs) \in Nat
  OBVIOUS
<1>2. T \in SUBSET Nat /\ Len(fs) \in T
  BY <1>1
<1>3. PICK k \in T : \A m \in T : k <= m
  BY <1>2, LeastNatural
<1>4. ASSUME NEW j \in 1 .. k PROVE Expired(fs[j])
  <2>1. j - 1 \in 0 .. Len(fs) /\ j - 1 < k /\ (j - 1) + 1 = j
    BY <1>1
  <2>2. j - 1 \notin T
    <3>1. k \in Nat /\ (j - 1 \in T => k <= j - 1)
      BY <1>2, <1>3
    <3> QED BY <2>1, <3>1
  <2> QED BY <2>1, <2>2
<1>5. k \in 0 .. Len(fs) /\ (k < Len(fs) => ~Expired(fs[k + 1]))
  BY <1>1, <1>3
<1> HIDE DEF T
<1>6. \E p \in 0 .. Len(failures[s]) :
        /\ \A j \in 1 .. p : Expired(failures[s][j])
        /\ p < Len(failures[s]) => ~Expired(failures[s][p + 1])
  BY <1>4, <1>5
<1> QED BY <1>6, Zenon DEF Popped

\* What is left of a record is its end.
LEMMA RemainingIsSuffix ==
  ASSUME failures \in [Server -> Seq(Nat)], NEW s \in Server
  PROVE  /\ Remaining(s) \in Seq(Nat)
         /\ Len(Remaining(s)) = Len(failures[s]) - Popped(s)
         /\ \A j \in 1 .. Len(Remaining(s)) :
              /\ j + Popped(s) \in 1 .. Len(failures[s])
              /\ Remaining(s)[j] = failures[s][j + Popped(s)]
<1> DEFINE fs == failures[s]
           p == Popped(s)
<1>1. fs \in Seq(Nat) /\ Len(fs) \in Nat
  OBVIOUS
<1>2. p \in 0 .. Len(fs)
  BY PoppedIsExpiredPrefix
<1>3. \A i \in p + 1 .. Len(fs) : fs[i] \in Nat
  BY <1>1, <1>2, ElementOfSeq
<1> HIDE DEF fs, p
<1>4. /\ SubSeq(fs, p + 1, Len(fs)) \in Seq(Nat)
      /\ Len(SubSeq(fs, p + 1, Len(fs))) =
           IF p + 1 <= Len(fs) THEN Len(fs) - (p + 1) + 1 ELSE 0
      /\ \A i \in 1 .. Len(fs) - (p + 1) + 1 :
           SubSeq(fs, p + 1, Len(fs))[i] = fs[(p + 1) + i - 1]
  BY <1>1, <1>2, <1>3, SubSeqProperties
<1>5. Len(SubSeq(fs, p + 1, Len(fs))) = Len(fs) - p
  BY <1>1, <1>2, <1>4
<1>6. ASSUME NEW j \in 1 .. Len(fs) - p
      PROVE  /\ j + p \in 1 .. Len(fs)
             /\ SubSeq(fs, p + 1, Len(fs))[j] = fs[j + p]
  <2>1. j \in 1 .. Len(fs) - (p + 1) + 1 /\ (p + 1) + j - 1 = j + p /\ j + p \in 1 .. Len(fs)
    BY <1>1, <1>2
  <2> QED BY <1>4, <2>1
<1> QED BY <1>4, <1>5, <1>6 DEF Remaining, fs, p

\* One server's comparison keeps the locals of a scan in range.
LEMMA CompareType ==
  ASSUME NEW sc \in Scans, sc.i < N, NEW n \in 0 .. U32Max
  PROVE  Compare(sc, n) \in Scans /\ Compare(sc, n).i = sc.i + 1
<1>1. sc.i \in Server /\ sc.i + 1 \in 0 .. N
  BY NAssumption DEF Scans, Server, NAssumption
<1> QED BY <1>1 DEF Scans, Compare

LEMMA NewScanType == NewScan \in Scans /\ NewScan.i = 0
BY NAssumption, CallsAssumption DEF NewScan, Scans, Server, NAssumption, CallsAssumption

LEMMA PickedType ==
  ASSUME scan \in [Calls -> Scans], NEW c \in Calls
  PROVE  Picked(c) \in Server
BY DEF Picked, Scans

-----------------------------------------------------------------------------
(* Types *)

LEMMA TypeInit == Init => TypeOK
<1> SUFFICES ASSUME Init PROVE TypeOK
  OBVIOUS
<1>1. 0 \in Server /\ 0 \in 0 .. N /\ 0 \in 0 .. U32Max /\ 0 < N
  BY NAssumption, CallsAssumption DEF Server, NAssumption, CallsAssumption
<1>2. "start" \in Locations
  BY DEF Locations
<1>3. failures \in [Server -> Seq(Nat)]
  BY DEF Init
<1>4. scan \in [Calls -> Scans] /\ \A c \in Calls : scan[c].i < N
  BY <1>1, NewScanType DEF Init
<1> QED BY <1>1, <1>2, <1>3, <1>4 DEF Init, TypeOK

\* What a call's step needs to know of its destination.
LEMMA GotoType ==
  ASSUME pc \in [Calls -> Locations], NEW c \in Calls, NEW l \in Locations, Goto(c, l)
  PROVE  /\ pc' \in [Calls -> Locations]
         /\ pc'[c] = l
         /\ \A d \in Calls : d # c => pc'[d] = pc[d]
BY DEF Goto

LEMMA UpdateFailuresType ==
  ASSUME failures \in [Server -> Seq(Nat)], NEW s \in Server, UpdateFailures(s)
  PROVE  failures' \in [Server -> Seq(Nat)]
BY RemainingIsSuffix DEF UpdateFailures

LEMMA ReturnType ==
  ASSUME TypeOK, NEW c \in Calls, NEW s \in Server, Return(c, s)
  PROVE  /\ pc' \in [Calls -> Locations]
         /\ attempts' \in [Calls -> 0 .. N]
         /\ scan' \in [Calls -> Scans]
         /\ server' \in [Calls -> Server]
         /\ \A d \in Calls : pc'[d] \in {"start", "health", "count"} => scan'[d].i < N
         /\ pc'[c] = "held" /\ server'[c] = s
         /\ \A d \in Calls : d # c => pc'[d] = pc[d] /\ server'[d] = server[d]
<1>1. Goto(c, "held") /\ "held" \in Locations
  BY DEF Return, Locations
<1>2. /\ pc' \in [Calls -> Locations]
      /\ pc'[c] = "held"
      /\ \A d \in Calls : d # c => pc'[d] = pc[d]
  BY <1>1, GotoType DEF TypeOK
<1>3. attempts' \in [Calls -> 0 .. N]
  BY NAssumption DEF NAssumption, TypeOK, Return
<1>4. scan' \in [Calls -> Scans] /\ \A d \in Calls : d # c => scan'[d] = scan[d]
  BY NewScanType DEF TypeOK, Return
<1>5. server' \in [Calls -> Server]
  BY DEF TypeOK, Return
<1>6. \A d \in Calls : pc'[d] \in {"start", "health", "count"} => scan'[d].i < N
  BY <1>2, <1>4 DEF TypeOK
<1>7. server'[c] = s /\ \A d \in Calls : d # c => server'[d] = server[d]
  BY DEF TypeOK, Return
<1> QED BY <1>2, <1>3, <1>4, <1>5, <1>6, <1>7

LEMMA TypeStep == TypeOK /\ [Next]_vars => TypeOK'
<1> SUFFICES ASSUME TypeOK, [Next]_vars PROVE TypeOK'
  OBVIOUS
<1> USE DEF TypeOK
<1>1. ASSUME NEW c \in Calls, LoadTurn(c) PROVE TypeOK'
  BY <1>1, GotoType DEF LoadTurn, Locations
<1>2. ASSUME NEW c \in Calls, ClaimTurn(c) PROVE TypeOK'
  <2>1. next_server' \in Server
    BY <1>2, NextTurn DEF ClaimTurn
  <2> QED BY <1>2, <2>1, GotoType DEF ClaimTurn, Locations
<1>3. ASSUME NEW c \in Calls, LoseRace(c) PROVE TypeOK'
  BY <1>3 DEF LoseRace
<1>4. ASSUME NEW c \in Calls, CheckTurn(c) PROVE TypeOK'
  <2>1. failures' \in [Server -> Seq(Nat)]
    BY <1>4, UpdateFailuresType DEF CheckTurn
  <2>2. CASE Return(c, current_server[c])
    BY <1>4, <2>1, <2>2, ReturnType DEF CheckTurn
  <2>3. CASE /\ attempts[c] < N
             /\ Goto(c, "claim")
             /\ attempts' = [attempts EXCEPT ![c] = @ + 1]
             /\ UNCHANGED <<scan, server>>
    <3>1. attempts' \in [Calls -> 0 .. N]
      BY <2>3, NAssumption DEF NAssumption
    <3> QED BY <1>4, <2>1, <2>3, <3>1, GotoType DEF CheckTurn, Locations
  <2> QED BY <1>4, <2>2, <2>3 DEF CheckTurn
<1>5. ASSUME NEW c \in Calls, BeginScan(c) PROVE TypeOK'
  BY <1>5, GotoType DEF BeginScan, Locations
<1>6. ASSUME NEW c \in Calls, ScanHealth(c) PROVE TypeOK'
  <2> DEFINE i == scan[c].i
             sc == [scan[c] EXCEPT !.healthy = Usable(i)]
  <2>1. pc[c] = "health" /\ scan[c] \in Scans /\ i < N
    BY <1>6 DEF ScanHealth
  <2>2. i \in Server
    BY <2>1, NAssumption DEF Scans, Server, NAssumption
  <2>3. failures' \in [Server -> Seq(Nat)]
    BY <1>6, <2>2, UpdateFailuresType DEF ScanHealth
  <2>4. sc \in Scans /\ sc.i = i
    <3>1. Usable(i) \in BOOLEAN
      BY DEF Usable
    <3> QED BY <2>1, <3>1 DEF Scans
  <2>5. scan' = [scan EXCEPT ![c] = sc]
    BY <1>6 DEF ScanHealth
  <2> HIDE DEF sc
  <2>6. scan' \in [Calls -> Scans] /\ scan'[c].i < N /\ \A d \in Calls : d # c => scan'[d] = scan[d]
    BY <2>1, <2>4, <2>5
  <2>7. /\ pc' \in [Calls -> Locations]
        /\ \A d \in Calls : d # c => pc'[d] = pc[d]
    BY <1>6, GotoType DEF ScanHealth, Locations
  <2> QED BY <1>6, <2>3, <2>6, <2>7 DEF ScanHealth
<1>7. ASSUME NEW c \in Calls, ScanCount(c) PROVE TypeOK'
  <2> DEFINE i == scan[c].i
             sc == Compare(scan[c], connection_counts[i])
  <2>1. pc[c] = "count" /\ scan[c] \in Scans /\ i < N
    BY <1>7 DEF ScanCount
  <2>2. i \in Server
    BY <2>1, NAssumption DEF Scans, Server, NAssumption
  <2>3. sc \in Scans /\ sc.i = i + 1
    BY <2>1, <2>2, CompareType
  <2>4. scan' = [scan EXCEPT ![c] = sc]
    BY <1>7 DEF ScanCount
  <2> HIDE DEF sc
  <2>5. /\ scan' \in [Calls -> Scans]
        /\ scan'[c].i = i + 1
        /\ \A d \in Calls : d # c => scan'[d] = scan[d]
    BY <2>3, <2>4
  <2>6. /\ pc' \in [Calls -> Locations]
        /\ pc'[c] = (IF i + 1 < N THEN "health" ELSE "pick")
        /\ \A d \in Calls : d # c => pc'[d] = pc[d]
    BY <1>7, GotoType DEF ScanCount, Locations
  <2>7. \A d \in Calls : pc'[d] \in {"start", "health", "count"} => scan'[d].i < N
    BY <2>5, <2>6
  <2> QED BY <1>7, <2>5, <2>6, <2>7 DEF ScanCount
<1>8. ASSUME NEW c \in Calls, PickLeast(c) PROVE TypeOK'
  <2>1. Picked(c) \in Server
    BY PickedType
  <2>2. connection_counts' \in [Server -> 0 .. U32Max]
    BY <1>8, <2>1, CountersWrap DEF PickLeast
  <2> QED BY <1>8, <2>1, <2>2, ReturnType DEF PickLeast
<1>9. ASSUME NEW c \in Calls, NEW s \in Server, HashServer(c, s) PROVE TypeOK'
  BY <1>9, UpdateFailuresType, ReturnType DEF HashServer
<1>10. ASSUME NEW c \in Calls, EndExchange(c) PROVE TypeOK'
  BY <1>10, GotoType DEF EndExchange, Locations
<1>11. ASSUME NEW c \in Calls, FailExchange(c) PROVE TypeOK'
  BY <1>11, GotoType DEF FailExchange, Locations
<1>12. ASSUME NEW c \in Calls, AddFailure(c) PROVE TypeOK'
  <2>1. failures' \in [Server -> Seq(Nat)]
    BY <1>12, AppendProperties DEF AddFailure
  <2> QED BY <1>12, <2>1, GotoType DEF AddFailure, Locations
<1>13. ASSUME NEW c \in Calls, CloseConnection(c) PROVE TypeOK'
  <2>1. connection_counts' \in [Server -> 0 .. U32Max]
    BY <1>13, CountersWrap DEF CloseConnection
  <2> QED BY <1>13, <2>1, GotoType DEF CloseConnection, Locations
<1>14. CASE Tick
  BY <1>14 DEF Tick, callVars
<1>15. CASE UNCHANGED vars
  BY <1>15 DEF vars, callVars
<1> QED
  BY <1>1, <1>2, <1>3, <1>4, <1>5, <1>6, <1>7, <1>8, <1>9, <1>10, <1>11, <1>12, <1>13,
     <1>14, <1>15
  DEF Next, CallStep, Arrive, Choose, Exchange, Release, Finished

\* Every state of every upstream group has its types, and no call looks at a
\* server beyond the last.
THEOREM TypeCorrect == Spec => []TypeOK
<1>1. Init => TypeOK
  BY TypeInit
<1>2. TypeOK /\ [Next]_vars => TypeOK'
  BY TypeStep
<1> QED BY <1>1, <1>2, PTL DEF Spec

-----------------------------------------------------------------------------
(* Connection counts *)

LEMMA HoldersFinite ==
  ASSUME NEW s \in Server
  PROVE  /\ IsFiniteSet(Holders(s))
         /\ Cardinality(Holders(s)) \in Nat
         /\ Cardinality(Holders(s)) < U32Max
<1>1. Holders(s) \in SUBSET Calls
  BY DEF Holders
<1>2. IsFiniteSet(Holders(s)) /\ Cardinality(Holders(s)) <= Cardinality(Calls)
  BY <1>1, FS_Subset, CallsAssumption DEF CallsAssumption
<1>3. Cardinality(Holders(s)) \in Nat /\ Cardinality(Calls) \in Nat
  BY <1>2, FS_CardinalityType, CallsAssumption DEF CallsAssumption
<1> QED BY <1>2, <1>3, CallsAssumption DEF CallsAssumption

\* A step that gives and takes back no server leaves every count right.
LEMMA SameHolders ==
  ASSUME ConnectionsCounted,
         UNCHANGED <<balancing, connection_counts>>,
         \A d \in Calls : Holding(d)' = Holding(d) /\ (Holding(d) => server'[d] = server[d])
  PROVE  ConnectionsCounted'
<1>1. ASSUME NEW s \in Server PROVE Holders(s)' = Holders(s)
  BY DEF Holders
<1> QED BY <1>1 DEF ConnectionsCounted

\* Only least_conn counts.
LEMMA NothingCounted ==
  ASSUME ConnectionsCounted, balancing # "LeastConnected", UNCHANGED <<balancing, connection_counts>>
  PROVE  ConnectionsCounted'
BY DEF ConnectionsCounted

LEMMA ArmStep == TypeOK /\ InArmOfBalancer /\ [Next]_vars => InArmOfBalancer'
<1> SUFFICES ASSUME TypeOK, InArmOfBalancer, [Next]_vars PROVE InArmOfBalancer'
  OBVIOUS
<1> USE DEF TypeOK, InArmOfBalancer
<1>1. ASSUME NEW c \in Calls, Arrive(c) PROVE InArmOfBalancer'
  BY <1>1 DEF Arrive, LoadTurn, BeginScan, HashServer, Return, Goto
<1>2. ASSUME NEW c \in Calls, Choose(c) PROVE InArmOfBalancer'
  BY <1>2 DEF Choose, ClaimTurn, LoseRace, CheckTurn, ScanHealth, ScanCount, PickLeast, Return, Goto
<1>3. ASSUME NEW c \in Calls, Exchange(c) \/ Release(c) PROVE InArmOfBalancer'
  BY <1>3 DEF Exchange, Release, EndExchange, FailExchange, AddFailure, CloseConnection, Goto
<1>4. CASE Tick \/ UNCHANGED vars
  BY <1>4 DEF Tick, vars, callVars
<1> QED BY <1>1, <1>2, <1>3, <1>4 DEF Next, CallStep, Finished

LEMMA CountStep ==
  TypeOK /\ InArmOfBalancer /\ ConnectionsCounted /\ [Next]_vars => ConnectionsCounted'
<1> SUFFICES ASSUME TypeOK, InArmOfBalancer, ConnectionsCounted, [Next]_vars
             PROVE  ConnectionsCounted'
  OBVIOUS
<1>1. ASSUME NEW c \in Calls, LoadTurn(c) \/ ClaimTurn(c) \/ LoseRace(c) PROVE ConnectionsCounted'
  BY <1>1, SameHolders, SMTT(40) DEF LoadTurn, ClaimTurn, LoseRace, Goto, Holding, TypeOK
<1>2. ASSUME NEW c \in Calls, BeginScan(c) \/ ScanHealth(c) \/ ScanCount(c) PROVE ConnectionsCounted'
  BY <1>2, SameHolders, SMTT(40) DEF BeginScan, ScanHealth, ScanCount, Goto, Holding, TypeOK
<1>3. ASSUME NEW c \in Calls, CheckTurn(c) PROVE ConnectionsCounted'
  BY <1>3, NothingCounted DEF CheckTurn, InArmOfBalancer
<1>4. ASSUME NEW c \in Calls, NEW s \in Server, HashServer(c, s) PROVE ConnectionsCounted'
  BY <1>4, NothingCounted DEF HashServer
<1>5. ASSUME NEW c \in Calls, PickLeast(c) PROVE ConnectionsCounted'
  <2>0. PICK p \in Server : p = Picked(c)
    BY PickedType DEF TypeOK
  <2>1. balancing = "LeastConnected" /\ balancing' = balancing
    BY <1>5 DEF PickLeast, InArmOfBalancer
  <2>2. connection_counts' = [connection_counts EXCEPT ![p] = Increment(connection_counts[p])]
    BY <1>5, <2>0 DEF PickLeast
  <2>3. /\ pc' = [pc EXCEPT ![c] = "held"]
        /\ server' = [server EXCEPT ![c] = p]
        /\ pc[c] = "pick"
    BY <1>5, <2>0 DEF PickLeast, Return, Goto
  <2>4. c \notin Holders(p) /\ Holders(p)' = Holders(p) \cup {c}
    BY <2>3 DEF Holders, Holding, TypeOK
  <2>5. ASSUME NEW s \in Server, s # p PROVE Holders(s)' = Holders(s)
    BY <2>3, <2>5 DEF Holders, Holding, TypeOK
  <2>6. Cardinality(Holders(p)') = Cardinality(Holders(p)) + 1
    BY <2>1, <2>4, HoldersFinite, FS_AddElement
  <2>7. connection_counts'[p] = Cardinality(Holders(p)) + 1
    BY <2>1, <2>2, HoldersFinite, IncrementBelowMax DEF ConnectionsCounted, TypeOK
  <2>8. ASSUME NEW s \in Server, s # p PROVE connection_counts'[s] = connection_counts[s]
    BY <2>2, <2>8 DEF TypeOK
  <2> QED BY <2>1, <2>5, <2>6, <2>7, <2>8 DEF ConnectionsCounted
<1>6. ASSUME NEW c \in Calls, Exchange(c) \/ AddFailure(c) PROVE ConnectionsCounted'
  BY <1>6, SameHolders, SMTT(40) DEF Exchange, EndExchange, FailExchange, AddFailure, Goto, Holding, TypeOK
<1>7. ASSUME NEW c \in Calls, CloseConnection(c), balancing = "LeastConnected"
      PROVE  ConnectionsCounted'
  <2>0. PICK p \in Server : p = server[c]
    BY DEF TypeOK
  <2>1. balancing' = balancing
    BY <1>7 DEF CloseConnection
  <2>2. connection_counts' = [connection_counts EXCEPT ![p] = Decrement(connection_counts[p])]
    BY <1>7, <2>0 DEF CloseConnection
  <2>3. pc' = [pc EXCEPT ![c] = "done"] /\ server' = server /\ pc[c] = "closing"
    BY <1>7 DEF CloseConnection, Goto
  <2>4. c \in Holders(p) /\ Holders(p)' = Holders(p) \ {c}
    BY <2>0, <2>3 DEF Holders, Holding, TypeOK
  <2>5. ASSUME NEW s \in Server, s # p PROVE Holders(s)' = Holders(s)
    BY <2>0, <2>3, <2>5 DEF Holders, Holding, TypeOK
  <2>6. Cardinality(Holders(p)') = Cardinality(Holders(p)) - 1
    BY <2>1, <2>4, HoldersFinite, FS_RemoveElement
  <2>7. Cardinality(Holders(p)) \in 1 .. U32Max
    <3>1. Cardinality(Holders(p)) # 0
      BY <2>4, HoldersFinite, FS_EmptySet
    <3> QED BY <3>1, HoldersFinite, CallsAssumption DEF CallsAssumption
  <2>8. connection_counts'[p] = Cardinality(Holders(p)) - 1
    BY <1>7, <2>1, <2>2, <2>7, DecrementAboveZero DEF ConnectionsCounted, TypeOK
  <2>9. ASSUME NEW s \in Server, s # p PROVE connection_counts'[s] = connection_counts[s]
    BY <2>2, <2>9 DEF TypeOK
  <2> QED BY <1>7, <2>1, <2>5, <2>6, <2>8, <2>9 DEF ConnectionsCounted
<1>8. ASSUME NEW c \in Calls, CloseConnection(c), balancing # "LeastConnected"
      PROVE  ConnectionsCounted'
  BY <1>8, NothingCounted DEF CloseConnection
<1>9. CASE Tick \/ UNCHANGED vars
  BY <1>9, SameHolders DEF Tick, vars, callVars, Holding
<1> QED
  BY <1>1, <1>2, <1>3, <1>4, <1>5, <1>6, <1>7, <1>8, <1>9
  DEF Next, CallStep, Arrive, Choose, Release, Finished

LEMMA CountInit == Init => InArmOfBalancer /\ ConnectionsCounted
<1> SUFFICES ASSUME Init PROVE InArmOfBalancer /\ ConnectionsCounted
  OBVIOUS
<1>1. \A c \in Calls : pc[c] = "start"
  BY DEF Init
<1>2. \A s \in Server : Holders(s) = {} /\ connection_counts[s] = 0
  BY <1>1 DEF Init, Holders, Holding
<1> QED BY <1>1, <1>2, FS_EmptySet DEF InArmOfBalancer, ConnectionsCounted

\* However many servers and calls there are and however they interleave, the
\* count of a server under least_conn is the number of exchanges open with it.
THEOREM ConnectionsAreCounted == Spec => []ConnectionsCounted
<1> DEFINE Inv == TypeOK /\ InArmOfBalancer /\ ConnectionsCounted
<1>1. Init => Inv
  BY TypeInit, CountInit
<1>2. Inv /\ [Next]_vars => Inv'
  BY TypeStep, ArmStep, CountStep
<1> QED BY <1>1, <1>2, PTL DEF Spec

-----------------------------------------------------------------------------
(* The record of failures *)

\* What a step may do to the records of failures.
LEMMA StepsOnRecords ==
  ASSUME TypeOK, [Next]_vars
  PROVE  \/ \E s \in Server : UpdateFailures(s) /\ now' = now
         \/ \E c \in Calls : AddFailure(c)
         \/ Tick
         \/ UNCHANGED <<now, failures>>
<1>1. ASSUME NEW c \in Calls, CheckTurn(c)
      PROVE  \E s \in Server : UpdateFailures(s) /\ now' = now
  BY <1>1 DEF CheckTurn, TypeOK
<1>2. ASSUME NEW c \in Calls, ScanHealth(c)
      PROVE  \E s \in Server : UpdateFailures(s) /\ now' = now
  <2>1. scan[c] \in Scans /\ scan[c].i < N
    BY <1>2 DEF ScanHealth, TypeOK
  <2>2. scan[c].i \in Server
    BY <2>1, NAssumption DEF Scans, Server, NAssumption
  <2> QED BY <1>2, <2>2 DEF ScanHealth
<1>3. ASSUME NEW c \in Calls, NEW s \in Server, HashServer(c, s)
      PROVE  UpdateFailures(s) /\ now' = now
  BY <1>3 DEF HashServer
<1>4. ASSUME NEW c \in Calls,
             \/ LoadTurn(c) \/ ClaimTurn(c) \/ LoseRace(c) \/ BeginScan(c) \/ ScanCount(c)
             \/ PickLeast(c) \/ Exchange(c) \/ CloseConnection(c)
      PROVE  UNCHANGED <<now, failures>>
  BY <1>4 DEF LoadTurn, ClaimTurn, LoseRace, BeginScan, ScanCount, PickLeast,
              Exchange, EndExchange, FailExchange, CloseConnection
<1>5. CASE UNCHANGED vars
  BY <1>5 DEF vars
<1> QED
  BY <1>1, <1>2, <1>3, <1>4, <1>5 DEF Next, CallStep, Arrive, Choose, Release, Finished

LEMMA OrderStep == TypeOK /\ FailuresInOrder /\ [Next]_vars => FailuresInOrder'
<1> SUFFICES ASSUME TypeOK, FailuresInOrder, [Next]_vars PROVE FailuresInOrder'
  OBVIOUS
<1>1. ASSUME NEW s \in Server, UpdateFailures(s), now' = now PROVE FailuresInOrder'
  <2>1. /\ failures'[s] = Remaining(s)
        /\ \A t \in Server : t # s => failures'[t] = failures[t]
    BY <1>1 DEF UpdateFailures, TypeOK
  <2>2. Popped(s) \in Nat /\ Len(failures[s]) \in Nat
    BY PoppedIsExpiredPrefix DEF TypeOK
  <2>3. /\ Len(Remaining(s)) \in Nat
        /\ \A j \in 1 .. Len(Remaining(s)) :
             /\ j + Popped(s) \in 1 .. Len(failures[s])
             /\ Remaining(s)[j] = failures[s][j + Popped(s)]
    BY RemainingIsSuffix DEF TypeOK
  <2>4. \A j, k \in 1 .. Len(Remaining(s)) : j <= k => Remaining(s)[j] <= Remaining(s)[k]
    <3>1. ASSUME NEW j \in 1 .. Len(Remaining(s)), NEW k \in 1 .. Len(Remaining(s)), j <= k
          PROVE  Remaining(s)[j] <= Remaining(s)[k]
      <4>1. /\ j + Popped(s) \in 1 .. Len(failures[s])
            /\ k + Popped(s) \in 1 .. Len(failures[s])
            /\ j + Popped(s) <= k + Popped(s)
        BY <2>2, <2>3, <3>1
      <4>2. failures[s][j + Popped(s)] <= failures[s][k + Popped(s)]
        BY <4>1 DEF FailuresInOrder
      <4> QED BY <2>3, <4>2
    <3> QED BY <3>1
  <2>5. \A j \in 1 .. Len(Remaining(s)) : Remaining(s)[j] <= now
    BY <2>3 DEF FailuresInOrder
  <2> QED BY <1>1, <2>1, <2>4, <2>5 DEF FailuresInOrder
<1>2. ASSUME NEW c \in Calls, AddFailure(c) PROVE FailuresInOrder'
  <2>1. PICK p \in Server : p = server[c]
    BY DEF TypeOK
  <2>2. /\ failures'[p] = Append(failures[p], now)
        /\ \A t \in Server : t # p => failures'[t] = failures[t]
        /\ now' = now
    BY <1>2, <2>1 DEF AddFailure, TypeOK
  <2>3. failures[p] \in Seq(Nat) /\ Len(failures[p]) \in Nat /\ now \in Nat
    BY DEF TypeOK
  <2>4. /\ Len(failures'[p]) = Len(failures[p]) + 1
        /\ \A i \in 1 .. Len(failures[p]) : failures'[p][i] = failures[p][i]
        /\ failures'[p][Len(failures[p]) + 1] = now
    BY <2>2, <2>3, AppendProperties
  <2>5. \A j \in 1 .. Len(failures'[p]) : failures'[p][j] <= now
    BY <2>3, <2>4, SMTT(40) DEF FailuresInOrder
  <2>6. \A j, k \in 1 .. Len(failures'[p]) : j <= k => failures'[p][j] <= failures'[p][k]
    <3>1. ASSUME NEW j \in 1 .. Len(failures'[p]), NEW k \in 1 .. Len(failures'[p]), j <= k
          PROVE  failures'[p][j] <= failures'[p][k]
      <4>1. CASE k = Len(failures[p]) + 1
        BY <2>4, <2>5, <4>1, SMTT(20)
      <4>2. CASE k # Len(failures[p]) + 1
        <5>1. j \in 1 .. Len(failures[p]) /\ k \in 1 .. Len(failures[p])
          <6>1. PICK n \in Nat : n = Len(failures[p])
            BY <2>3
          <6>2. j \in 1 .. n + 1 /\ k \in 1 .. n + 1 /\ k # n + 1
            BY <2>4, <4>2, <6>1, Zenon
          <6>3. j \in 1 .. n /\ k \in 1 .. n
            BY <3>1, <6>2
          <6> QED BY <6>1, <6>3, Zenon
        <5>2. failures[p][j] <= failures[p][k]
          BY <3>1, <5>1 DEF FailuresInOrder
        <5> QED BY <2>4, <5>1, <5>2
      <4> QED BY <4>1, <4>2
    <3> QED BY <3>1
  <2> QED BY <2>2, <2>5, <2>6 DEF FailuresInOrder
<1>3. CASE Tick
  <2>1. now \in Nat /\ now' = now + 1 /\ failures' = failures
    BY <1>3 DEF Tick, TypeOK
  <2>2. ASSUME NEW s \in Server, NEW j \in 1 .. Len(failures[s]) PROVE failures[s][j] <= now'
    <3>1. PICK instant \in Nat : instant = failures[s][j]
      BY ElementOfSeq DEF TypeOK
    <3>2. instant <= now
      BY <3>1 DEF FailuresInOrder
    <3>3. instant <= now'
      BY <2>1, <3>2
    <3> QED BY <3>1, <3>3
  <2> QED BY <2>1, <2>2, Zenon DEF FailuresInOrder
<1>4. CASE UNCHANGED <<now, failures>>
  BY <1>4 DEF FailuresInOrder
<1> QED BY <1>1, <1>2, <1>3, <1>4, StepsOnRecords

LEMMA OrderInit == Init => FailuresInOrder
BY DEF Init, FailuresInOrder

\* The record of a server is always in the order of time.
THEOREM FailuresAreInOrder == Spec => []FailuresInOrder
<1>1. Init => TypeOK /\ FailuresInOrder
  BY TypeInit, OrderInit
<1>2. TypeOK /\ FailuresInOrder /\ [Next]_vars => (TypeOK /\ FailuresInOrder)'
  BY TypeStep, OrderStep
<1> QED BY <1>1, <1>2, PTL DEF Spec

-----------------------------------------------------------------------------
(* The promise of max_fails and fail_timeout *)

\* A record is the end of everything that was ever recorded, and what is missing
\* from its beginning has expired.
Forgotten(s) == Len(past[s]) - Len(failures[s])

PastKept ==
  /\ past \in [Server -> Seq(Nat)]
  /\ \A s \in Server :
       /\ Forgotten(s) >= 0
       /\ \A j \in 1 .. Len(failures[s]) : failures[s][j] = past[s][Forgotten(s) + j]
       /\ \A j \in 1 .. Forgotten(s) : Expired(past[s][j])

\* A failure is entered in the past by the step that appends it to the record.
LEMMA FailedOnlyByAddFailure ==
  ASSUME TypeOK, [Next]_vars, NEW s \in Server, FailedOn(s)
  PROVE  \E c \in Calls : AddFailure(c) /\ server[c] = s
<1>1. PICK c \in Calls : pc[c] = "failed" /\ pc'[c] # "failed" /\ server[c] = s
  BY DEF FailedOn
<1>2. ASSUME NEW d \in Calls, Arrive(d) PROVE FALSE
  BY <1>1, <1>2 DEF Arrive, LoadTurn, BeginScan, HashServer, Return, Goto, TypeOK
<1>3. ASSUME NEW d \in Calls, Choose(d) PROVE FALSE
  BY <1>1, <1>3 DEF Choose, ClaimTurn, LoseRace, CheckTurn, ScanHealth, ScanCount, PickLeast,
                    Return, Goto, TypeOK
<1>4. ASSUME NEW d \in Calls, Exchange(d) \/ CloseConnection(d) PROVE FALSE
  BY <1>1, <1>4 DEF Exchange, EndExchange, FailExchange, CloseConnection, Goto, TypeOK
<1>5. ASSUME NEW d \in Calls, AddFailure(d) PROVE d = c
  BY <1>1, <1>5 DEF AddFailure, Goto, TypeOK
<1>6. ASSUME Tick \/ UNCHANGED vars PROVE FALSE
  BY <1>1, <1>6 DEF Tick, vars, callVars
<1> QED BY <1>1, <1>2, <1>3, <1>4, <1>5, <1>6 DEF Next, CallStep, Release, Finished

LEMMA AddFailureIsFailedOn ==
  ASSUME TypeOK, NEW c \in Calls, AddFailure(c), NEW s \in Server
  PROVE  FailedOn(s) <=> s = server[c]
<1>1. pc[c] = "failed" /\ pc'[c] = "closing" /\ \A d \in Calls : d # c => pc'[d] = pc[d]
  BY DEF AddFailure, Goto, TypeOK
<1> QED BY <1>1 DEF FailedOn

\* A record that loses an expired prefix, or nothing, is still the end of the past.
LEMMA PastKeptByUpdate ==
  ASSUME TypeOK, PastKept, NEW s \in Server, UpdateFailures(s), now' = now, past' = past
  PROVE  PastKept'
<1> DEFINE p == Popped(s)
<1>1. /\ failures'[s] = Remaining(s)
      /\ \A t \in Server : t # s => failures'[t] = failures[t]
  BY DEF UpdateFailures, TypeOK
<1>2. /\ p \in 0 .. Len(failures[s])
      /\ Len(failures[s]) \in Nat
      /\ \A j \in 1 .. p : Expired(failures[s][j])
  BY PoppedIsExpiredPrefix DEF TypeOK
<1>3. /\ Len(Remaining(s)) = Len(failures[s]) - p
      /\ \A j \in 1 .. Len(Remaining(s)) : Remaining(s)[j] = failures[s][j + p]
  BY RemainingIsSuffix DEF TypeOK
<1>4. Len(past[s]) \in Nat
  BY DEF PastKept
<1>5. PICK f \in Nat : f = Forgotten(s)
  <2>1. Forgotten(s) \in Int
    BY <1>2, <1>4 DEF Forgotten
  <2>2. Forgotten(s) >= 0
    BY DEF PastKept
  <2> QED BY <2>1, <2>2
<1>6. PICK q \in Nat : q = p
  BY <1>2
<1> HIDE DEF p
<1>7. Forgotten(s)' = f + q
  BY <1>1, <1>2, <1>3, <1>4, <1>5, <1>6 DEF Forgotten
<1>8. \A j \in 1 .. Len(failures'[s]) : failures'[s][j] = past[s][f + q + j]
  <2>1. ASSUME NEW j \in 1 .. Len(Remaining(s)) PROVE Remaining(s)[j] = past[s][f + q + j]
    <3>1. j + q \in 1 .. Len(failures[s]) /\ f + (j + q) = f + q + j
      BY <1>2, <1>3, <1>6
    <3>2. failures[s][j + q] = past[s][f + (j + q)]
      BY <1>5, <3>1 DEF PastKept
    <3> QED BY <1>3, <1>6, <3>1, <3>2
  <2> QED BY <1>1, <2>1
<1>9. \A j \in 1 .. f + q : Expired(past[s][j])
  <2>1. ASSUME NEW j \in 1 .. f + q PROVE Expired(past[s][j])
    <3>1. CASE j <= f
      BY <1>5, <3>1 DEF PastKept
    <3>2. CASE j > f
      <4>1. j - f \in 1 .. q /\ j - f \in 1 .. Len(failures[s]) /\ f + (j - f) = j
        BY <1>2, <1>6, <3>2
      <4>2. Expired(failures[s][j - f]) /\ failures[s][j - f] = past[s][f + (j - f)]
        BY <1>2, <1>5, <1>6, <4>1 DEF PastKept
      <4> QED BY <4>1, <4>2
    <3> QED BY <3>1, <3>2
  <2> QED BY <2>1
<1>10. ASSUME NEW t \in Server, t # s PROVE Forgotten(t)' = Forgotten(t)
  BY <1>1, <1>10 DEF Forgotten
<1>11. \A j \in 1 .. f + q : Expired(past[s][j])'
  BY <1>9 DEF Expired
<1>12. ASSUME NEW t \in Server
       PROVE  /\ Forgotten(t)' >= 0
              /\ \A j \in 1 .. Len(failures'[t]) : failures'[t][j] = past'[t][Forgotten(t)' + j]
              /\ \A j \in 1 .. Forgotten(t)' : Expired(past[t][j])'
  <2>1. CASE t = s
    BY <1>7, <1>8, <1>11, <2>1
  <2>2. CASE t # s
    BY <1>1, <1>10, <2>2 DEF PastKept, Expired
  <2> QED BY <2>1, <2>2
<1> QED BY <1>12 DEF PastKept

LEMMA PastKeptByAddFailure ==
  ASSUME TypeOK, PastKept, NEW c \in Calls, AddFailure(c), HistoryStep
  PROVE  PastKept'
<1>1. PICK p \in Server : p = server[c]
  BY DEF TypeOK
<1>2. /\ failures'[p] = Append(failures[p], now)
      /\ \A t \in Server : t # p => failures'[t] = failures[t]
      /\ now' = now
  BY <1>1 DEF AddFailure, TypeOK
<1>3. \A s \in Server : FailedOn(s) <=> s = p
  BY <1>1, AddFailureIsFailedOn
<1>4. past' = [s \in Server |-> IF FailedOn(s) THEN Append(past[s], now) ELSE past[s]]
  BY DEF HistoryStep
<1> HIDE DEF FailedOn
<1>5. past'[p] = Append(past[p], now) /\ \A t \in Server : t # p => past'[t] = past[t]
  BY <1>3, <1>4
<1>6. /\ failures[p] \in Seq(Nat) /\ Len(failures[p]) \in Nat
      /\ past[p] \in Seq(Nat) /\ Len(past[p]) \in Nat
      /\ now \in Nat
  BY DEF TypeOK, PastKept
<1>7. /\ Len(failures'[p]) = Len(failures[p]) + 1
      /\ \A i \in 1 .. Len(failures[p]) : failures'[p][i] = failures[p][i]
      /\ failures'[p][Len(failures[p]) + 1] = now
  BY <1>2, <1>6, AppendProperties
<1>8. /\ past'[p] \in Seq(Nat)
      /\ Len(past'[p]) = Len(past[p]) + 1
      /\ \A i \in 1 .. Len(past[p]) : past'[p][i] = past[p][i]
      /\ past'[p][Len(past[p]) + 1] = now
  BY <1>5, <1>6, AppendProperties
<1>9. past' \in [Server -> Seq(Nat)]
  <2>1. ASSUME NEW s \in Server PROVE past'[s] \in Seq(Nat)
    BY <1>5, <1>8 DEF PastKept
  <2> QED BY <1>4, <2>1
<1>10. PICK f \in Nat : f = Forgotten(p)
  <2>1. Forgotten(p) \in Int
    BY <1>6 DEF Forgotten
  <2> QED BY <2>1 DEF PastKept
<1>11. Forgotten(p)' = f /\ Len(past[p]) = f + Len(failures[p])
  BY <1>6, <1>7, <1>8, <1>10 DEF Forgotten
<1>12. ASSUME NEW j \in 1 .. Len(failures'[p]) PROVE failures'[p][j] = past'[p][f + j]
  <2>1. CASE j = Len(failures[p]) + 1
    BY <1>6, <1>7, <1>8, <1>11, <2>1, SMTT(40)
  <2>2. CASE j # Len(failures[p]) + 1
    <3>1. j \in 1 .. Len(failures[p]) /\ f + j \in 1 .. Len(past[p])
      BY <1>6, <1>7, <1>11, <2>2, SMTT(40)
    <3>2. failures[p][j] = past[p][f + j]
      BY <1>10, <3>1 DEF PastKept
    <3> QED BY <1>7, <1>8, <3>1, <3>2
  <2> QED BY <2>1, <2>2
<1>13. ASSUME NEW j \in 1 .. f PROVE Expired(past[p][j])'
  <2>1. j \in 1 .. Len(past[p])
    BY <1>6, <1>11
  <2>2. Expired(past[p][j])
    BY <1>10 DEF PastKept
  <2> QED BY <1>2, <1>8, <2>1, <2>2 DEF Expired
<1>14. ASSUME NEW t \in Server
       PROVE  /\ Forgotten(t)' >= 0
              /\ \A j \in 1 .. Len(failures'[t]) : failures'[t][j] = past'[t][Forgotten(t)' + j]
              /\ \A j \in 1 .. Forgotten(t)' : Expired(past[t][j])'
  <2>1. CASE t = p
    BY <1>11, <1>12, <1>13, <2>1
  <2>2. CASE t # p
    <3>1. /\ failures'[t] = failures[t] /\ past'[t] = past[t] /\ now' = now
      BY <1>2, <1>5, <2>2
    <3>2. Forgotten(t)' = Forgotten(t)
      BY <3>1 DEF Forgotten
    <3>3. /\ Forgotten(t) >= 0
          /\ \A j \in 1 .. Len(failures[t]) : failures[t][j] = past[t][Forgotten(t) + j]
          /\ \A j \in 1 .. Forgotten(t) : Expired(past[t][j])
      BY DEF PastKept
    <3>4. \A j \in 1 .. Forgotten(t) : Expired(past[t][j])'
      BY <3>1, <3>3 DEF Expired
    <3> QED BY <3>1, <3>2, <3>3, <3>4
  <2> QED BY <2>1, <2>2
<1> QED BY <1>9, <1>14 DEF PastKept

LEMMA PastStep == TypeOK /\ PastKept /\ [HNext]_hvars => PastKept'
<1> SUFFICES ASSUME TypeOK, PastKept, [HNext]_hvars PROVE PastKept'
  OBVIOUS
<1>1. CASE UNCHANGED hvars
  BY <1>1 DEF hvars, vars, history, PastKept, Forgotten, Expired
<1>2. CASE HNext
  <2>1. [Next]_vars /\ HistoryStep
    BY <1>2 DEF HNext
  <2>2. CASE \E c \in Calls : AddFailure(c)
    BY <2>1, <2>2, PastKeptByAddFailure
  <2>3. CASE ~ \E c \in Calls : AddFailure(c)
    <3>1. past' = past
      <4>1. \A s \in Server : ~FailedOn(s)
        BY <2>1, <2>3, FailedOnlyByAddFailure
      <4>2. past' = [s \in Server |-> IF FailedOn(s) THEN Append(past[s], now) ELSE past[s]]
        BY <2>1 DEF HistoryStep
      <4> QED BY <4>1, <4>2 DEF PastKept
    <3>2. CASE \E s \in Server : UpdateFailures(s) /\ now' = now
      BY <3>1, <3>2, PastKeptByUpdate
    <3>3. CASE Tick
      <4>1. now' = now + 1 /\ now \in Nat /\ failures' = failures
        BY <3>3 DEF Tick, TypeOK
      <4>2. ASSUME NEW s \in Server, NEW j \in 1 .. Forgotten(s) PROVE Expired(past[s][j])'
        <5>1. past[s] \in Seq(Nat) /\ failures[s] \in Seq(Nat)
          BY DEF PastKept, TypeOK
        <5>2. j \in 1 .. Len(past[s])
          <6>1. Len(past[s]) \in Nat /\ Len(failures[s]) \in Nat
            BY <5>1
          <6>2. j \in 1 .. Len(past[s]) - Len(failures[s])
            BY DEF Forgotten
          <6> QED BY <6>1, <6>2
        <5>3. past[s][j] \in Nat
          BY <5>1, <5>2, ElementOfSeq
        <5>4. Expired(past[s][j])
          BY DEF PastKept
        <5> QED BY <3>1, <4>1, <5>3, <5>4, LimitsAssumption DEF Expired, LimitsAssumption
      <4> QED BY <3>1, <4>1, <4>2 DEF PastKept, Forgotten
    <3>4. CASE UNCHANGED <<now, failures>>
      BY <3>1, <3>4 DEF PastKept, Forgotten, Expired
    <3> QED BY <2>1, <2>3, <3>2, <3>3, <3>4, StepsOnRecords
  <2> QED BY <2>2, <2>3
<1> QED BY <1>1, <1>2

LEMMA PastInit == HInit => PastKept
<1> SUFFICES ASSUME HInit PROVE PastKept
  OBVIOUS
<1>1. \A s \in Server : past[s] = <<>> /\ failures[s] = <<>>
  BY DEF HInit, HistoryInit, Init
<1>2. past \in [Server -> Seq(Nat)]
  BY DEF HInit, HistoryInit
<1>3. \A s \in Server : Len(failures[s]) = 0 /\ Forgotten(s) = 0
  BY <1>1 DEF Forgotten
<1> QED BY <1>2, <1>3 DEF PastKept

\* The verdict on a server, from what is left of its record.
LEMMA VerdictFromRecord ==
  ASSUME TypeOK, FailuresInOrder, PastKept, NEW s \in Server
  PROVE  Usable(s) <=> Fit(s)
<1>1. /\ failures[s] \in Seq(Nat) /\ past[s] \in Seq(Nat)
      /\ Len(failures[s]) \in Nat /\ Len(past[s]) \in Nat /\ now \in Nat
  BY DEF TypeOK, PastKept
<1>2. PICK p \in 0 .. Len(failures[s]) :
        /\ p = Popped(s)
        /\ \A j \in 1 .. p : Expired(failures[s][j])
        /\ p < Len(failures[s]) => ~Expired(failures[s][p + 1])
  BY PoppedIsExpiredPrefix DEF TypeOK
<1>3. PICK f \in Nat : f = Forgotten(s) /\ Len(past[s]) = f + Len(failures[s])
  <2>1. Forgotten(s) \in Int /\ Len(past[s]) = Forgotten(s) + Len(failures[s])
    BY <1>1 DEF Forgotten
  <2> QED BY <2>1 DEF PastKept
<1>4. ASSUME NEW j \in 1 .. f + p PROVE Expired(past[s][j])
  <2>1. CASE j <= f
    BY <1>3, <2>1 DEF PastKept
  <2>2. CASE j > f
    <3>1. j - f \in 1 .. p /\ j - f \in 1 .. Len(failures[s]) /\ f + (j - f) = j
      BY <1>1, <2>2
    <3>2. Expired(failures[s][j - f]) /\ failures[s][j - f] = past[s][f + (j - f)]
      BY <1>2, <1>3, <3>1 DEF PastKept
    <3> QED BY <3>1, <3>2
  <2> QED BY <2>1, <2>2
<1>5. ASSUME NEW j \in f + p + 1 .. Len(past[s]) PROVE ~Expired(past[s][j])
  <2> PICK n \in Nat : n = Len(failures[s])
    BY <1>1
  <2>0. p \in Nat /\ j \in Int /\ f + p + 1 <= j /\ j <= f + n
    BY <1>1, <1>3
  <2>1. /\ j - f \in Int /\ p + 1 <= j - f /\ j - f <= n
        /\ p + 1 \in 1 .. n
        /\ f + (j - f) = j
    BY <2>0, Z3
  <2>2. j - f \in 1 .. n
    BY <2>0, Z3
  <2>3. failures[s][j - f] = past[s][f + (j - f)]
    BY <1>3, <2>2 DEF PastKept
  <2>4. failures[s][p + 1] <= failures[s][j - f]
    BY <2>1, <2>2 DEF FailuresInOrder
  <2>5. failures[s][p + 1] \in Nat /\ failures[s][j - f] \in Nat
    BY <1>1, <2>1, <2>2, ElementOfSeq
  <2>6. ~Expired(failures[s][p + 1])
    BY <1>1, <1>2, <2>1
  <2>7. ~Expired(failures[s][j - f])
    <3> DEFINE old == failures[s][p + 1]
               new == failures[s][j - f]
    <3>1. old \in Nat /\ new \in Nat /\ old <= new /\ ~(now - old > FailTimeout)
      BY <2>4, <2>5, <2>6 DEF Expired
    <3> HIDE DEF old, new
    <3>2. ~(now - new > FailTimeout)
      BY <1>1, <3>1, LimitsAssumption DEF LimitsAssumption
    <3> QED BY <3>2 DEF Expired, new
  <2> QED BY <2>1, <2>3, <2>7
<1>6. \A j \in 1 .. Len(past[s]) : past[s][j] \in Nat
  BY <1>1, ElementOfSeq
<1>7. \A j \in 1 .. Len(past[s]) : now - past[s][j] <= FailTimeout <=> j \in f + p + 1 .. Len(past[s])
  <2>1. ASSUME NEW j \in 1 .. Len(past[s])
        PROVE  now - past[s][j] <= FailTimeout <=> j \in f + p + 1 .. Len(past[s])
    <3>1. now - past[s][j] <= FailTimeout <=> ~Expired(past[s][j])
      <4> DEFINE instant == past[s][j]
      <4>1. instant \in Nat /\ now \in Nat /\ FailTimeout \in Nat
        BY <1>1, <1>6, LimitsAssumption, Zenon DEF LimitsAssumption
      <4> HIDE DEF instant
      <4>2. now - instant <= FailTimeout <=> ~(now - instant > FailTimeout)
        BY <4>1
      <4> QED BY <4>2 DEF Expired, instant
    <3>2. j \in 1 .. f + p \/ j \in f + p + 1 .. Len(past[s])
      <4>1. PICK g \in Nat : g = f + p
        OBVIOUS
      <4>2. PICK n \in Nat : n = Len(past[s])
        BY <1>1
      <4>3. j \in 1 .. n
        BY <4>2, Zenon
      <4>4. j \in 1 .. g \/ j \in g + 1 .. n
        BY <4>3
      <4> QED BY <4>1, <4>2, <4>4, Zenon
    <3>3. ~(j \in 1 .. f + p /\ j \in f + p + 1 .. Len(past[s]))
      BY <1>1
    <3> QED BY <1>4, <1>5, <3>1, <3>2, <3>3
  <2> QED BY <2>1
<1>8. RecentFailures(s) = f + p + 1 .. Len(past[s])
  <2>1. f + p + 1 .. Len(past[s]) \subseteq 1 .. Len(past[s])
    BY <1>1
  <2> QED BY <1>7, <2>1 DEF RecentFailures
<1>9. Cardinality(RecentFailures(s)) = Len(failures[s]) - p
  <2>1. f + p + 1 \in Int /\ Len(past[s]) \in Int
    BY <1>1
  <2>2. Cardinality(f + p + 1 .. Len(past[s])) =
          IF f + p + 1 > Len(past[s]) THEN 0 ELSE Len(past[s]) - (f + p + 1) + 1
    BY <2>1, FS_Interval
  <2>3. p \in Nat /\ p <= Len(failures[s])
    BY <1>1
  <2>4. (IF f + p + 1 > Len(past[s]) THEN 0 ELSE Len(past[s]) - (f + p + 1) + 1)
          = Len(failures[s]) - p
    BY <1>1, <1>3, <2>3
  <2> QED BY <1>8, <2>2, <2>4
<1>10. Len(Remaining(s)) = Len(failures[s]) - p
  BY <1>2, RemainingIsSuffix DEF TypeOK
<1> QED BY <1>9, <1>10 DEF Usable, Fit

LEMMA HistorySafety == HSpec => [](TypeOK /\ FailuresInOrder /\ PastKept)
<1> DEFINE Inv == TypeOK /\ FailuresInOrder /\ PastKept
<1>1. HInit => Inv
  BY TypeInit, OrderInit, PastInit DEF HInit
<1>2. Inv /\ [HNext]_hvars => Inv'
  <2>1. [HNext]_hvars => [Next]_vars
    BY DEF HNext, hvars
  <2> QED BY <2>1, TypeStep, OrderStep, PastStep
<1> QED BY <1>1, <1>2, PTL DEF HSpec

\* In every reachable state and for every server, popping the expired failures
\* off the front and counting the rest answers by all failures of the last
\* fail_timeout and no others, whatever was forgotten by earlier checks: a server is
\* used just while they are fewer than max_fails.
THEOREM VerdictsAreOfTheWindow == HSpec => []VerdictIsOfTheWindow
<1>1. TypeOK /\ FailuresInOrder /\ PastKept => VerdictIsOfTheWindow
  BY VerdictFromRecord DEF VerdictIsOfTheWindow
<1> QED BY <1>1, HistorySafety, PTL

-----------------------------------------------------------------------------
(* The turns of the round robin *)

\* The servers before next_server have had one turn more than the others.
TurnsByRound ==
  /\ turns \in [Server -> Nat]
  /\ \E k \in Nat : \A s \in Server : turns[s] = IF s < next_server THEN k + 1 ELSE k

LEMMA ClaimedOnlyByClaimTurn ==
  ASSUME TypeOK, [Next]_vars, NEW s \in Server, Claimed(s)
  PROVE  \E c \in Calls : ClaimTurn(c) /\ current_server[c] = s
<1>1. PICK c \in Calls : pc[c] = "claim" /\ pc'[c] = "check" /\ current_server[c] = s
  BY DEF Claimed
<1>2. ASSUME NEW d \in Calls, Arrive(d) PROVE FALSE
  BY <1>1, <1>2 DEF Arrive, LoadTurn, BeginScan, HashServer, Return, Goto, TypeOK
<1>3. ASSUME NEW d \in Calls,
             LoseRace(d) \/ CheckTurn(d) \/ ScanHealth(d) \/ ScanCount(d) \/ PickLeast(d)
      PROVE  FALSE
  BY <1>1, <1>3 DEF LoseRace, CheckTurn, ScanHealth, ScanCount, PickLeast, Return, Goto, TypeOK
<1>4. ASSUME NEW d \in Calls, Exchange(d) \/ Release(d) PROVE FALSE
  BY <1>1, <1>4 DEF Exchange, Release, EndExchange, FailExchange, AddFailure, CloseConnection,
                    Goto, TypeOK
<1>5. ASSUME NEW d \in Calls, ClaimTurn(d) PROVE d = c
  BY <1>1, <1>5 DEF ClaimTurn, Goto, TypeOK
<1>6. ASSUME Tick \/ UNCHANGED vars PROVE FALSE
  BY <1>1, <1>6 DEF Tick, vars, callVars
<1> QED BY <1>1, <1>2, <1>3, <1>4, <1>5, <1>6 DEF Next, CallStep, Choose, Finished

\* Only a claim moves next_server.
LEMMA NextServerMovesByClaim ==
  ASSUME [Next]_vars, ~ \E c \in Calls : ClaimTurn(c)
  PROVE  next_server' = next_server
BY DEF Next, CallStep, Arrive, Choose, Exchange, Release, Finished, LoadTurn, LoseRace, CheckTurn,
       BeginScan, ScanHealth, ScanCount, PickLeast, HashServer, EndExchange, FailExchange,
       AddFailure, CloseConnection, Tick, vars

LEMMA TurnsStep == TypeOK /\ TurnsByRound /\ [HNext]_hvars => TurnsByRound'
<1> SUFFICES ASSUME TypeOK, TurnsByRound, [HNext]_hvars PROVE TurnsByRound'
  OBVIOUS
<1>1. CASE UNCHANGED hvars
  BY <1>1 DEF hvars, vars, history, TurnsByRound
<1>2. CASE HNext
  <2>1. [Next]_vars /\ HistoryStep
    BY <1>2 DEF HNext
  <2>2. turns' = [s \in Server |-> IF Claimed(s) THEN turns[s] + 1 ELSE turns[s]]
    BY <2>1 DEF HistoryStep
  <2>3. CASE ~ \E c \in Calls : ClaimTurn(c)
    <3>1. \A s \in Server : ~Claimed(s)
      BY <2>1, <2>3, ClaimedOnlyByClaimTurn
    <3>2. turns' = turns
      BY <2>2, <3>1 DEF TurnsByRound
    <3> QED BY <2>1, <2>3, <3>2, NextServerMovesByClaim DEF TurnsByRound
  <2>4. ASSUME NEW c \in Calls, ClaimTurn(c) PROVE TurnsByRound'
    <3>1. /\ pc[c] = "claim" /\ pc'[c] = "check" /\ current_server[c] = next_server
          /\ \A d \in Calls : d # c => pc'[d] = pc[d]
          /\ next_server' = (next_server + 1) % N
      BY <2>4 DEF ClaimTurn, Goto, TypeOK
    <3>2. \A s \in Server : Claimed(s) <=> s = next_server
      BY <3>1 DEF Claimed
    <3>3. next_server \in Server /\ next_server' = IF next_server + 1 = N THEN 0 ELSE next_server + 1
      BY <3>1, NextTurn DEF TypeOK
    <3> HIDE DEF Claimed
    <3>4. /\ turns'[next_server] = turns[next_server] + 1
          /\ \A s \in Server : s # next_server => turns'[s] = turns[s]
          /\ turns' \in [Server -> Nat]
      BY <2>2, <3>2, <3>3 DEF TurnsByRound
    <3>5. PICK k \in Nat : \A s \in Server : turns[s] = IF s < next_server THEN k + 1 ELSE k
      BY DEF TurnsByRound
    <3>6. turns'[next_server] = k + 1
      BY <3>3, <3>4, <3>5 DEF Server
    <3>7. CASE next_server + 1 = N
      <4>1. ASSUME NEW s \in Server PROVE turns'[s] = k + 1 /\ ~(s < next_server')
        BY <3>3, <3>4, <3>5, <3>6, <3>7, NAssumption DEF Server, NAssumption
      <4> QED BY <3>4, <4>1 DEF TurnsByRound
    <3>8. CASE next_server + 1 # N
      <4>1. ASSUME NEW s \in Server
            PROVE  turns'[s] = IF s < next_server' THEN k + 1 ELSE k
        <5>1. CASE s = next_server
          BY <3>3, <3>6, <3>8, <5>1, NAssumption DEF Server, NAssumption
        <5>2. CASE s # next_server
          BY <3>3, <3>4, <3>5, <3>8, <5>2, NAssumption DEF Server, NAssumption
        <5> QED BY <5>1, <5>2
      <4> QED BY <3>4, <4>1 DEF TurnsByRound
    <3> QED BY <3>7, <3>8
  <2> QED BY <2>3, <2>4
<1> QED BY <1>1, <1>2

LEMMA TurnsInit == HInit => TurnsByRound
<1> SUFFICES ASSUME HInit PROVE TurnsByRound
  OBVIOUS
<1>1. next_server = 0 /\ turns \in [Server -> Nat] /\ \A s \in Server : turns[s] = 0
  BY DEF HInit, HistoryInit, Init
<1>2. \A s \in Server : turns[s] = IF s < next_server THEN 0 + 1 ELSE 0
  BY <1>1, NAssumption DEF Server, NAssumption
<1> QED BY <1>1, <1>2 DEF TurnsByRound

\* The compare-exchange loop loses no turn and gives none twice: among any number
\* of servers and racing calls, an earlier server is at most one turn ahead.
THEOREM TurnsAreEven == HSpec => []TurnsEven
<1> DEFINE Inv == TypeOK /\ TurnsByRound
<1>1. HInit => Inv
  BY TypeInit, TurnsInit DEF HInit
<1>2. Inv /\ [HNext]_hvars => Inv'
  <2>1. [HNext]_hvars => [Next]_vars
    BY DEF HNext, hvars
  <2> QED BY <2>1, TypeStep, TurnsStep
<1>3. Inv => TurnsEven
  BY DEF TurnsByRound, TurnsEven, TypeOK, Server
<1> QED BY <1>1, <1>2, <1>3, PTL DEF HSpec

-----------------------------------------------------------------------------
(* What a call knows while it chooses *)

\* A call that has not begun has fresh locals, and one that has not begun, or has
\* its server, knows nothing.  What a call knows of a server is still so.
KnownIsSo(c) ==
  /\ pc[c] = "start" => scan[c] = NewScan /\ attempts[c] = 0
  /\ \A s \in good[c] : s \in Server /\ Fit(s)
  /\ \A s \in bad[c] : s \in Server /\ ~Fit(s)

\* The scan's best server was usable when it was looked at, and there is none only
\* when no server looked at was usable all the time.
ScanIsRight(c) ==
  /\ pc[c] = "count" => IF scan[c].healthy THEN scan[c].i \notin bad[c] ELSE scan[c].i \notin good[c]
  /\ pc[c] = "pick" => scan[c].i = N
  /\ pc[c] \in {"health", "count", "pick"} =>
       IF scan[c].best_count = U32Max
       THEN \A s \in good[c] : ~(s < scan[c].i)
       ELSE scan[c].best_server \notin bad[c]

\* It is no more loaded than it was, and than the others that were read, but for the
\* changes since.
ScanIsLeast(c) ==
  pc[c] \in {"health", "count", "pick"} /\ scan[c].best_count # U32Max =>
    /\ scan[c].best_server < scan[c].i
    /\ connection_counts[scan[c].best_server] <= scan[c].best_count + moves[c]
    /\ \A s \in good[c] : s < scan[c].i =>
         /\ scan[c].best_count <= connection_counts[s] + moves[c]
         /\ connection_counts[scan[c].best_server] <= connection_counts[s] + moves[c]

\* How many turns before the one of server n the one of server s is.
StepsBack(s, n) == IF s < n THEN n - s ELSE n - s + N

\* Undisturbed, the attempts of a call were at the servers before its own, and none
\* of them was usable all the time.
TurnsAreNext(c) ==
  quiet[c] =>
    /\ pc[c] = "claim" => \A s \in good[c] : attempts[c] < StepsBack(s, next_server)
    /\ pc[c] = "check" =>
         /\ next_server = (current_server[c] + 1) % N
         /\ \A s \in good[c] : attempts[c] < StepsBack(s, current_server[c])

ChoiceInv == \A c \in Calls : KnownIsSo(c) /\ ScanIsRight(c) /\ ScanIsLeast(c) /\ TurnsAreNext(c)

MovesCounted == \A c \in Calls : moves[c] \in Nat

HistoryInv ==
  /\ TypeOK /\ InArmOfBalancer /\ ConnectionsCounted
  /\ FailuresInOrder /\ PastKept /\ MovesCounted /\ ChoiceInv

\* At most one count changes, by one.
CountsStep ==
  \E s \in Server :
    /\ \A t \in Server : t # s => connection_counts'[t] = connection_counts[t]
    /\ connection_counts'[s] \in
         {connection_counts[s] - 1, connection_counts[s], connection_counts[s] + 1}

LEMMA MovesInit == HInit => MovesCounted
BY DEF HInit, HistoryInit, MovesCounted

LEMMA MovesStep == HistoryInv /\ [HNext]_hvars => MovesCounted'
BY DEF HistoryInv, HNext, HistoryStep, MovesCounted, hvars, history

\* A call knows less with every step, and what it knows is so.
LEMMA KnowledgeShrinks ==
  ASSUME HistoryStep, NEW c \in Calls
  PROVE  /\ \A s \in good'[c] : s \in Server /\ Fit(s)'
         /\ \A s \in bad'[c] : s \in Server /\ ~Fit(s)'
         /\ pc[c] # "start" => good'[c] \subseteq good[c] /\ bad'[c] \subseteq bad[c]
<1>1. /\ good'[c] = Still(c, good[c], {s \in Server : Fit(s)'})
      /\ bad'[c] = Still(c, bad[c], {s \in Server : ~Fit(s)'})
  BY DEF HistoryStep
<1> QED BY <1>1 DEF Still

\* A step of another call leaves the locals of this one.
LEMMA OthersKeepLocals ==
  ASSUME TypeOK, NEW c \in Calls, NEW d \in Calls, c # d, CallStep(d)
  PROVE  /\ pc'[c] = pc[c] /\ scan'[c] = scan[c] /\ attempts'[c] = attempts[c]
         /\ current_server'[c] = current_server[c]
<1> USE DEF TypeOK
<1>1. CASE Arrive(d)
  BY <1>1 DEF Arrive, LoadTurn, BeginScan, HashServer, Return, Goto
<1>2. CASE ClaimTurn(d) \/ LoseRace(d) \/ CheckTurn(d)
  BY <1>2 DEF ClaimTurn, LoseRace, CheckTurn, Return, Goto
<1>3. CASE ScanHealth(d) \/ ScanCount(d) \/ PickLeast(d)
  BY <1>3 DEF ScanHealth, ScanCount, PickLeast, Return, Goto
<1>4. CASE Exchange(d) \/ Release(d)
  BY <1>4 DEF Exchange, Release, EndExchange, FailExchange, AddFailure, CloseConnection, Goto
<1> QED BY <1>1, <1>2, <1>3, <1>4 DEF CallStep, Choose

\* Only a claim moves the turn.
LEMMA StepsThatDisturb ==
  ASSUME TypeOK, NEW d \in Calls, CallStep(d), pc'[d] = pc[d] \/ pc'[d] # "check"
  PROVE  UNCHANGED next_server
<1> USE DEF TypeOK
<1>1. CASE Arrive(d)
  BY <1>1 DEF Arrive, LoadTurn, BeginScan, HashServer
<1>2. CASE ClaimTurn(d) \/ LoseRace(d) \/ CheckTurn(d)
  BY <1>2 DEF ClaimTurn, LoseRace, CheckTurn, Goto
<1>3. CASE ScanHealth(d) \/ ScanCount(d) \/ PickLeast(d)
  BY <1>3 DEF ScanHealth, ScanCount, PickLeast
<1>4. CASE Exchange(d) \/ Release(d)
  BY <1>4 DEF Exchange, Release, EndExchange, FailExchange, AddFailure, CloseConnection
<1> QED BY <1>1, <1>2, <1>3, <1>4 DEF CallStep, Choose

\* While a call stays undisturbed, no other call moves the turn.
LEMMA UndisturbedMeans ==
  ASSUME TypeOK, HistoryStep, NEW c \in Calls, NEW d \in Calls, c # d,
         CallStep(d), pc[c] \in Choosing, quiet'[c]
  PROVE  quiet[c] /\ UNCHANGED next_server
<1>1. pc'[c] = pc[c]
  BY OthersKeepLocals
<1>2. quiet[c] /\ (pc'[d] = pc[d] \/ pc'[d] # "check")
  BY <1>1 DEF HistoryStep, Choosing
<1> QED BY <1>2, StepsThatDisturb

\* A server with an exchange open is counted.
LEMMA HolderCounts ==
  ASSUME ConnectionsCounted, balancing = "LeastConnected",
         NEW d \in Calls, Holding(d), server[d] \in Server
  PROVE  connection_counts[server[d]] \in 1 .. U32Max
<1>1. PICK s \in Server : s = server[d]
  OBVIOUS
<1>2. /\ IsFiniteSet(Holders(s)) /\ Cardinality(Holders(s)) \in Nat
      /\ Cardinality(Holders(s)) < U32Max
  BY HoldersFinite
<1>3. Holders(s) # {}
  BY <1>1 DEF Holders
<1>4. Cardinality(Holders(s)) # 0
  BY <1>2, <1>3, FS_EmptySet
<1>5. connection_counts[s] = Cardinality(Holders(s))
  BY DEF ConnectionsCounted
<1> QED BY <1>1, <1>2, <1>4, <1>5, CallsAssumption DEF CallsAssumption

LEMMA SameCounts ==
  ASSUME UNCHANGED connection_counts
  PROVE  CountsStep
<1>1. 0 \in Server
  BY NAssumption DEF NAssumption, Server
<1> QED BY <1>1 DEF CountsStep

\* No count wraps: a choice raises one by one, and the end of an exchange lowers it.
LEMMA StepsMoveOneCount ==
  ASSUME HistoryInv, NEW d \in Calls, CallStep(d)
  PROVE  CountsStep
<1>1. TypeOK /\ InArmOfBalancer /\ ConnectionsCounted
  BY DEF HistoryInv
<1>2. CASE PickLeast(d)
  <2>1. PICK s \in Server : s = Picked(d)
    BY <1>1 DEF TypeOK, Scans, Picked
  <2>2. connection_counts' = [connection_counts EXCEPT ![s] = Increment(@)]
    BY <1>2, <2>1 DEF PickLeast
  <2>3. connection_counts[s] \in Nat /\ connection_counts[s] < U32Max /\ U32Max \in Nat
    BY <1>1, HoldersFinite, CallsAssumption DEF ConnectionsCounted, CallsAssumption
  <2>4. Increment(connection_counts[s]) = connection_counts[s] + 1
    BY <2>3 DEF Increment
  <2> QED BY <1>1, <2>2, <2>4 DEF CountsStep, TypeOK
<1>3. CASE CloseConnection(d) /\ balancing = "LeastConnected"
  <2>1. PICK s \in Server : s = server[d]
    BY <1>1 DEF TypeOK
  <2>2. connection_counts' = [connection_counts EXCEPT ![s] = Decrement(@)]
    BY <1>3, <2>1 DEF CloseConnection
  <2>3. connection_counts[s] \in 1 .. U32Max /\ U32Max \in Nat
    BY <1>1, <1>3, <2>1, HolderCounts, CallsAssumption
       DEF CloseConnection, Holding, CallsAssumption
  <2>4. Decrement(connection_counts[s]) = connection_counts[s] - 1
    BY <2>3 DEF Decrement
  <2> QED BY <1>1, <2>2, <2>4 DEF CountsStep, TypeOK
<1>4. CASE CloseConnection(d) /\ balancing # "LeastConnected"
  BY <1>4, SameCounts DEF CloseConnection
<1>5. CASE Arrive(d)
  BY <1>5, SameCounts DEF Arrive, LoadTurn, BeginScan, HashServer
<1>6. CASE ClaimTurn(d) \/ LoseRace(d) \/ CheckTurn(d)
  BY <1>6, SameCounts DEF ClaimTurn, LoseRace, CheckTurn
<1>7. CASE ScanHealth(d) \/ ScanCount(d)
  BY <1>7, SameCounts DEF ScanHealth, ScanCount
<1>8. CASE Exchange(d) \/ AddFailure(d)
  BY <1>8, SameCounts DEF Exchange, EndExchange, FailExchange, AddFailure
<1> QED BY <1>2, <1>3, <1>4, <1>5, <1>6, <1>7, <1>8 DEF CallStep, Choose, Release

\* Where no count changes none is moved behind the scan.
LEMMA NothingMoved ==
  ASSUME HistoryStep, NEW c \in Calls, UNCHANGED connection_counts, pc'[c] \in Choosing
  PROVE  moves'[c] = moves[c]
BY DEF HistoryStep, Moved

\* A change of one count by one is made good by the one change more.
LEMMA ScanStaysLeast ==
  ASSUME HistoryInv, HistoryStep, NEW c \in Calls, ScanIsLeast(c), CountsStep,
         pc'[c] = pc[c] /\ scan'[c] = scan[c],
         pc[c] # "start" => good'[c] \subseteq good[c]
  PROVE  ScanIsLeast(c)'
<1>1. SUFFICES ASSUME pc[c] \in {"health", "count", "pick"}, scan[c].best_count # U32Max
               PROVE  ScanIsLeast(c)'
  BY DEF ScanIsLeast
<1>2. PICK i \in Nat, best \in Server, load \in Nat, m \in Nat :
        /\ i = scan[c].i /\ best = scan[c].best_server
        /\ load = scan[c].best_count /\ m = moves[c]
  <2>1. scan[c] \in Scans /\ moves[c] \in Nat
    BY DEF HistoryInv, TypeOK, MovesCounted
  <2>2. scan[c].i \in Nat /\ scan[c].best_server \in Server /\ scan[c].best_count \in Nat
    BY <2>1, CallsAssumption, NAssumption DEF Scans, CallsAssumption, NAssumption
  <2> QED BY <2>1, <2>2
<1>3. /\ best < i /\ connection_counts[best] <= load + m
      /\ \A s \in good[c] : s < i => load <= connection_counts[s] + m
                                   /\ connection_counts[best] <= connection_counts[s] + m
  BY <1>1, <1>2 DEF ScanIsLeast
<1>4. good'[c] \subseteq good[c] /\ good'[c] \subseteq Server
  BY <1>1, KnowledgeShrinks
<1>5. moves'[c] = IF Moved(c) THEN m + 1 ELSE m
  BY <1>1, <1>2 DEF HistoryStep, Choosing
<1>6. \A s \in Server : connection_counts[s] \in Nat
  BY CallsAssumption DEF HistoryInv, TypeOK, CallsAssumption
<1>7. PICK changed \in Server :
        /\ \A t \in Server : t # changed => connection_counts'[t] = connection_counts[t]
        /\ connection_counts'[changed] \in
             {connection_counts[changed] - 1, connection_counts[changed], connection_counts[changed] + 1}
  BY DEF CountsStep
<1>8. SUFFICES /\ connection_counts'[best] <= load + moves'[c]
               /\ \A s \in good'[c] : s < i =>
                    /\ load <= connection_counts'[s] + moves'[c]
                    /\ connection_counts'[best] <= connection_counts'[s] + moves'[c]
  BY <1>2, <1>3 DEF ScanIsLeast
<1>9. CASE Moved(c)
  <2>1. moves'[c] = m + 1
    BY <1>5, <1>9
  <2>2. connection_counts'[best] <= load + moves'[c]
    BY <1>2, <1>3, <1>6, <1>7, <2>1
  <2>3. ASSUME NEW s \in good'[c], s < i
        PROVE  /\ load <= connection_counts'[s] + moves'[c]
               /\ connection_counts'[best] <= connection_counts'[s] + moves'[c]
    <3>1. /\ s \in Server /\ load <= connection_counts[s] + m
          /\ connection_counts[best] <= connection_counts[s] + m
      BY <1>3, <1>4, <2>3
    <3>2. CASE s = changed
      BY <1>2, <1>6, <1>7, <2>1, <3>1, <3>2
    <3>3. CASE s # changed
      BY <1>2, <1>6, <1>7, <2>1, <3>1, <3>3
    <3> QED BY <3>2, <3>3
  <2> QED BY <2>2, <2>3
<1>10. CASE ~Moved(c)
  <2>1. moves'[c] = m /\ \A s \in Server : s < i => connection_counts'[s] = connection_counts[s]
    BY <1>2, <1>5, <1>10 DEF Moved
  <2> QED BY <1>3, <1>4, <2>1
<1> QED BY <1>9, <1>10

\* What a call knows survives a step that leaves its locals and disturbs nothing.
LEMMA KnowledgeKept ==
  ASSUME HistoryInv, HistoryStep, NEW c \in Calls,
         pc'[c] = pc[c] /\ scan'[c] = scan[c] /\ attempts'[c] = attempts[c],
         current_server'[c] = current_server[c],
         CountsStep,
         pc[c] \in Choosing /\ quiet'[c] => quiet[c] /\ UNCHANGED next_server
  PROVE  KnownIsSo(c)' /\ ScanIsRight(c)' /\ ScanIsLeast(c)' /\ TurnsAreNext(c)'
<1>1. KnownIsSo(c) /\ ScanIsRight(c) /\ ScanIsLeast(c) /\ TurnsAreNext(c)
  BY DEF HistoryInv, ChoiceInv
<1>2. KnownIsSo(c)'
  BY <1>1, KnowledgeShrinks DEF KnownIsSo
<1>3. pc[c] # "start" => good'[c] \subseteq good[c] /\ bad'[c] \subseteq bad[c]
  BY KnowledgeShrinks
<1>4. ScanIsRight(c)'
  BY <1>1, <1>3 DEF ScanIsRight
<1>5. ScanIsLeast(c)'
  BY <1>1, <1>3, ScanStaysLeast
<1>6. TurnsAreNext(c)'
  BY <1>1, <1>3 DEF TurnsAreNext, Choosing, StepsBack
<1> QED BY <1>2, <1>4, <1>5, <1>6

LEMMA OthersKnow ==
  ASSUME HistoryInv, HistoryStep, NEW c \in Calls, NEW d \in Calls, c # d, CallStep(d)
  PROVE  KnownIsSo(c)' /\ ScanIsRight(c)' /\ ScanIsLeast(c)' /\ TurnsAreNext(c)'
<1>1. CountsStep
  BY StepsMoveOneCount
<1> QED BY <1>1, OthersKeepLocals, UndisturbedMeans, KnowledgeKept DEF HistoryInv

\* A step in which no failure is entered leaves every verdict as it is.
LEMMA VerdictStays ==
  ASSUME PastKept, HistoryStep, now' = now, \A d \in Calls : pc[d] = "failed" => pc'[d] = "failed",
         NEW s \in Server
  PROVE  Fit(s)' = Fit(s)
<1>1. \A t \in Server : ~FailedOn(t)
  BY DEF FailedOn
<1>2. past' = past
  BY <1>1 DEF HistoryStep, PastKept
<1> QED BY <1>2 DEF Fit, RecentFailures

\* A verdict the call itself comes to stays with it.
LEMMA OwnVerdict ==
  ASSUME HistoryInv, HistoryStep, NEW c \in Calls, NEW s \in Server,
         CheckTurn(c) \/ ScanHealth(c)
  PROVE  IF Usable(s) THEN s \notin bad'[c] ELSE s \notin good'[c]
<1>1. \A d \in Calls : pc[d] = "failed" => pc'[d] = "failed"
  BY DEF HistoryInv, TypeOK, CheckTurn, ScanHealth, Return, Goto
<1>2. now' = now
  BY DEF CheckTurn, ScanHealth
<1>3. Fit(s)' = Fit(s)
  BY <1>1, <1>2, VerdictStays DEF HistoryInv
<1>4. Usable(s) <=> Fit(s)
  BY VerdictFromRecord DEF HistoryInv
<1> QED BY <1>3, <1>4, KnowledgeShrinks

\* Nothing is known before the choice and after it.
LEMMA NotChoosing ==
  ASSUME HistoryStep, NEW c \in Calls, pc'[c] \notin Choosing \cup {"start"}
  PROVE  KnownIsSo(c)' /\ ScanIsRight(c)' /\ ScanIsLeast(c)' /\ TurnsAreNext(c)'
BY KnowledgeShrinks DEF KnownIsSo, ScanIsRight, ScanIsLeast, TurnsAreNext, Choosing

\* A call stays undisturbed only if it was so, once it has begun to choose.
LEMMA WasQuiet ==
  ASSUME HistoryStep, NEW c \in Calls, pc[c] # "start", pc'[c] \in Choosing, quiet'[c]
  PROVE  quiet[c]
BY DEF HistoryStep

\* One turn further, every server but the one just left is a turn further back.
LEMMA OneTurnBack ==
  ASSUME NEW s \in Server, NEW n \in Server, s # n
  PROVE  StepsBack(s, (n + 1) % N) = StepsBack(s, n) + 1
<1>1. (n + 1) % N = IF n + 1 = N THEN 0 ELSE n + 1
  BY NextTurn
<1>2. s \in Int /\ n \in Int /\ N \in Int /\ 0 <= s /\ s < N /\ 0 <= n /\ n < N
  BY NAssumption DEF Server, NAssumption
<1>3. CASE n + 1 = N
  BY <1>1, <1>2, <1>3 DEF StepsBack
<1>4. CASE n + 1 # N
  BY <1>1, <1>2, <1>4 DEF StepsBack
<1> QED BY <1>3, <1>4

LEMMA StepsBackBounded ==
  ASSUME NEW s \in Server, NEW n \in Server
  PROVE  StepsBack(s, n) \in 1 .. N
BY NAssumption DEF StepsBack, Server, NAssumption

LEMMA OwnArrival ==
  ASSUME HistoryInv, HistoryStep, NEW c \in Calls, Arrive(c)
  PROVE  KnownIsSo(c)' /\ ScanIsRight(c)' /\ ScanIsLeast(c)' /\ TurnsAreNext(c)'
<1>1. TypeOK /\ KnownIsSo(c)
  BY DEF HistoryInv, ChoiceInv
<1>2. CASE LoadTurn(c)
  <2>1. /\ pc[c] = "start" /\ pc'[c] = "claim" /\ attempts'[c] = 0
        /\ next_server' \in Server
    BY <1>1, <1>2 DEF LoadTurn, Goto, TypeOK, KnownIsSo
  <2>2. \A s \in good'[c] : s \in Server /\ 0 < StepsBack(s, next_server')
    BY <2>1, KnowledgeShrinks, StepsBackBounded
  <2> QED BY <2>1, <2>2, KnowledgeShrinks DEF KnownIsSo, ScanIsRight, ScanIsLeast, TurnsAreNext
<1>3. CASE BeginScan(c)
  <2>1. pc[c] = "start" /\ pc'[c] = "health" /\ scan'[c] = NewScan
    BY <1>1, <1>3 DEF BeginScan, Goto, TypeOK, KnownIsSo
  <2>2. \A s \in good'[c] : ~(s < 0)
    BY KnowledgeShrinks DEF Server
  <2>3. scan'[c].best_count = U32Max /\ scan'[c].i = 0
    BY <2>1 DEF NewScan
  <2> QED BY <2>1, <2>2, <2>3, KnowledgeShrinks
          DEF KnownIsSo, ScanIsRight, ScanIsLeast, TurnsAreNext
<1>4. ASSUME NEW s \in Server, HashServer(c, s) PROVE pc'[c] = "held"
  BY <1>1, <1>4 DEF HashServer, Return, Goto, TypeOK
<1>5. CASE \E s \in Server : HashServer(c, s)
  BY <1>4, <1>5, NotChoosing DEF Choosing
<1> QED BY <1>2, <1>3, <1>5 DEF Arrive

LEMMA OwnTurn ==
  ASSUME HistoryInv, HistoryStep, NEW c \in Calls, ClaimTurn(c) \/ LoseRace(c) \/ CheckTurn(c)
  PROVE  KnownIsSo(c)' /\ ScanIsRight(c)' /\ ScanIsLeast(c)' /\ TurnsAreNext(c)'
<1>1. TypeOK /\ TurnsAreNext(c)
  BY DEF HistoryInv, ChoiceInv
<1>2. pc[c] \in {"claim", "check"}
  BY DEF ClaimTurn, LoseRace, CheckTurn
<1>3. good'[c] \subseteq good[c] /\ (pc'[c] \in {"claim", "check"} /\ quiet'[c] => quiet[c])
  BY <1>2, KnowledgeShrinks, WasQuiet DEF Choosing
<1>4. ASSUME pc'[c] \in {"claim", "check"}, TurnsAreNext(c)'
      PROVE  KnownIsSo(c)' /\ ScanIsRight(c)' /\ ScanIsLeast(c)' /\ TurnsAreNext(c)'
  BY <1>4, KnowledgeShrinks DEF KnownIsSo, ScanIsRight, ScanIsLeast
<1>5. CASE ClaimTurn(c)
  <2>1. /\ pc[c] = "claim" /\ pc'[c] = "check" /\ attempts'[c] = attempts[c]
        /\ current_server'[c] = next_server /\ next_server' = (current_server'[c] + 1) % N
    BY <1>1, <1>5 DEF ClaimTurn, Goto, TypeOK
  <2>2. TurnsAreNext(c)'
    BY <1>1, <1>3, <2>1 DEF TurnsAreNext, StepsBack
  <2> QED BY <1>4, <2>1, <2>2
<1>6. CASE LoseRace(c)
  <2>1. /\ pc[c] = "claim" /\ pc'[c] = "claim" /\ attempts'[c] = attempts[c]
        /\ next_server' = next_server
    BY <1>1, <1>6 DEF LoseRace, TypeOK
  <2>2. TurnsAreNext(c)'
    BY <1>1, <1>3, <2>1 DEF TurnsAreNext, StepsBack
  <2> QED BY <1>4, <2>1, <2>2
<1>7. CASE CheckTurn(c)
  <2>1. PICK n \in Server : n = current_server[c]
    BY <1>1 DEF TypeOK
  <2>2. CASE pc'[c] = "held"
    BY <2>2, NotChoosing DEF Choosing
  <2>3. CASE pc'[c] # "held"
    <3>1. /\ pc[c] = "check" /\ pc'[c] = "claim" /\ attempts'[c] = attempts[c] + 1
          /\ next_server' = next_server /\ ~Usable(n)
      BY <1>1, <1>7, <2>1, <2>3 DEF CheckTurn, Return, Goto, TypeOK
    <3>2. n \notin good'[c]
      BY <1>7, <3>1, OwnVerdict
    <3>3. ASSUME quiet'[c], NEW s \in good'[c]
          PROVE  attempts'[c] < StepsBack(s, next_server')
      <4>1. s \in Server /\ s # n /\ s \in good[c]
        BY <1>3, <3>2, <3>3, KnowledgeShrinks
      <4>2. attempts[c] < StepsBack(s, n) /\ next_server = (n + 1) % N
        BY <1>1, <1>3, <2>1, <3>1, <3>3, <4>1 DEF TurnsAreNext
      <4>3. StepsBack(s, next_server') = StepsBack(s, n) + 1 /\ StepsBack(s, n) \in Int
        BY <3>1, <4>1, <4>2, OneTurnBack, StepsBackBounded
      <4>4. attempts[c] \in Int
        BY <1>1 DEF TypeOK
      <4> QED BY <3>1, <4>2, <4>3, <4>4
    <3>4. TurnsAreNext(c)'
      BY <3>1, <3>3 DEF TurnsAreNext
    <3> QED BY <1>4, <3>1, <3>4
  <2> QED BY <2>2, <2>3
<1> QED BY <1>5, <1>6, <1>7

LEMMA OwnHealth ==
  ASSUME HistoryInv, HistoryStep, NEW c \in Calls, ScanHealth(c)
  PROVE  KnownIsSo(c)' /\ ScanIsRight(c)' /\ ScanIsLeast(c)' /\ TurnsAreNext(c)'
<1>1. TypeOK /\ ScanIsRight(c) /\ ScanIsLeast(c)
  BY DEF HistoryInv, ChoiceInv
<1>2. PICK i \in Server : i = scan[c].i
  <2>1. pc[c] = "health" /\ scan[c] \in Scans /\ scan[c].i < N
    BY <1>1 DEF ScanHealth, TypeOK
  <2> QED BY <2>1, NAssumption DEF Scans, Server, NAssumption
<1>3. /\ pc[c] = "health" /\ pc'[c] = "count" /\ connection_counts' = connection_counts
      /\ scan'[c].i = i /\ scan'[c].healthy = Usable(i)
      /\ scan'[c].best_server = scan[c].best_server /\ scan'[c].best_count = scan[c].best_count
  BY <1>1, <1>2 DEF ScanHealth, Goto, TypeOK, Scans
<1>4. /\ good'[c] \subseteq good[c] /\ bad'[c] \subseteq bad[c]
      /\ moves'[c] = moves[c]
  BY <1>3, KnowledgeShrinks, NothingMoved DEF Choosing
<1>5. IF Usable(i) THEN i \notin bad'[c] ELSE i \notin good'[c]
  BY OwnVerdict
<1>6. ScanIsRight(c)'
  BY <1>1, <1>2, <1>3, <1>4, <1>5 DEF ScanIsRight
<1>7. ScanIsLeast(c)'
  BY <1>1, <1>2, <1>3, <1>4 DEF ScanIsLeast
<1>8. KnownIsSo(c)' /\ TurnsAreNext(c)'
  BY <1>3, KnowledgeShrinks DEF KnownIsSo, TurnsAreNext
<1> QED BY <1>6, <1>7, <1>8

LEMMA OwnCount ==
  ASSUME HistoryInv, HistoryStep, NEW c \in Calls, ScanCount(c)
  PROVE  KnownIsSo(c)' /\ ScanIsRight(c)' /\ ScanIsLeast(c)' /\ TurnsAreNext(c)'
<1>1. TypeOK /\ ScanIsRight(c) /\ ScanIsLeast(c)
  BY DEF HistoryInv, ChoiceInv
<1>2. PICK i \in Server : i = scan[c].i
  <2>1. pc[c] = "count" /\ scan[c] \in Scans /\ scan[c].i < N
    BY <1>1 DEF ScanCount, TypeOK
  <2> QED BY <2>1, NAssumption DEF Scans, Server, NAssumption
<1>3. PICK n \in Nat : n = connection_counts[i] /\ n < U32Max
  BY HoldersFinite, CallsAssumption DEF HistoryInv, ConnectionsCounted, CallsAssumption
<1>4. PICK best \in Server, load \in 0 .. U32Max, ok \in BOOLEAN :
        /\ best = scan[c].best_server /\ load = scan[c].best_count /\ ok = scan[c].healthy
  BY <1>1 DEF TypeOK, Scans
<1>5. /\ pc[c] = "count" /\ connection_counts' = connection_counts
      /\ pc'[c] = IF i + 1 < N THEN "health" ELSE "pick"
      /\ scan'[c] = Compare(scan[c], n)
  BY <1>1, <1>2, <1>3 DEF ScanCount, Goto, TypeOK
<1>6. /\ scan'[c].i = i + 1
      /\ scan'[c].best_server = IF ok /\ n < load THEN i ELSE best
      /\ scan'[c].best_count = IF ok /\ n < load THEN n ELSE load
  BY <1>2, <1>4, <1>5 DEF Compare
<1>7. pc'[c] \in {"health", "pick"} /\ (pc'[c] = "pick" => i + 1 = N)
  BY <1>5, NAssumption DEF Server, NAssumption
<1>8. /\ good'[c] \subseteq good[c] /\ bad'[c] \subseteq bad[c]
      /\ good'[c] \subseteq Server
  BY <1>5, <1>7, KnowledgeShrinks DEF Choosing
<1> DEFINE m == moves[c]
<1>14. moves'[c] = m /\ m \in Nat
  BY <1>5, <1>7, NothingMoved DEF Choosing, HistoryInv, MovesCounted
<1>15. \A s \in Server : connection_counts[s] \in Nat
  BY <1>1, CallsAssumption DEF TypeOK, CallsAssumption
<1>16. load # U32Max =>
         /\ best < i /\ connection_counts[best] <= load + m
         /\ \A s \in good[c] : s < i => load <= connection_counts[s] + m
                                      /\ connection_counts[best] <= connection_counts[s] + m
  BY <1>1, <1>2, <1>4, <1>5 DEF ScanIsLeast
<1> HIDE DEF m
<1>9. IF ok THEN i \notin bad[c] ELSE i \notin good[c]
  BY <1>1, <1>2, <1>4, <1>5 DEF ScanIsRight
<1>10. IF load = U32Max THEN \A s \in good[c] : ~(s < i) ELSE best \notin bad[c]
  BY <1>1, <1>2, <1>4, <1>5 DEF ScanIsRight
<1>11. ASSUME NEW s \in good'[c], s < i + 1 PROVE s \in good[c] /\ s \in Server /\ (s = i \/ s < i)
  BY <1>8, <1>11 DEF Server
<1>12. CASE ok /\ n < load
  <2>1. scan'[c].best_count = n /\ scan'[c].best_count # U32Max /\ scan'[c].best_server = i
    BY <1>3, <1>6, <1>12
  <2>2. ScanIsRight(c)'
    BY <1>6, <1>7, <1>8, <1>9, <1>12, <2>1 DEF ScanIsRight
  <2>3. ASSUME NEW s \in good'[c], s < i + 1 PROVE n <= connection_counts[s] + m
    <3>1. CASE s = i
      BY <1>3, <1>14, <3>1
    <3>2. CASE s < i
      <4>1. load # U32Max /\ s \in good[c] /\ s \in Server
        BY <1>10, <1>11, <2>3, <3>2
      <4>2. load <= connection_counts[s] + m /\ connection_counts[s] \in Nat
        BY <1>15, <1>16, <3>2, <4>1
      <4> QED BY <1>3, <1>4, <1>12, <1>14, <4>2, CallsAssumption DEF CallsAssumption
    <3> QED BY <1>11, <2>3, <3>1, <3>2
  <2>4. /\ i < i + 1 /\ connection_counts'[i] <= n + m
        /\ \A s \in good'[c] : s < i + 1 => /\ n <= connection_counts'[s] + m
                                            /\ connection_counts'[i] <= connection_counts'[s] + m
    BY <1>3, <1>5, <1>14, <2>3 DEF Server
  <2>5. ScanIsLeast(c)'
    BY <1>6, <1>14, <2>1, <2>4 DEF ScanIsLeast
  <2> QED BY <1>7, <2>2, <2>5, KnowledgeShrinks DEF KnownIsSo, TurnsAreNext
<1>13. CASE ~(ok /\ n < load)
  <2>1. scan'[c].best_count = load /\ scan'[c].best_server = best
    BY <1>6, <1>13
  <2>2. load = U32Max => ~ok
    BY <1>3, <1>13
  <2>3. ScanIsRight(c)'
    <3>1. load = U32Max => \A s \in good'[c] : ~(s < i + 1)
      BY <1>9, <1>10, <1>11, <2>2
    <3>2. load # U32Max => best \notin bad'[c]
      BY <1>8, <1>10
    <3> QED BY <1>6, <1>7, <2>1, <3>1, <3>2 DEF ScanIsRight
  <2>4. ASSUME load # U32Max, NEW s \in good'[c], s < i + 1
        PROVE  /\ load <= connection_counts[s] + m
               /\ connection_counts[best] <= connection_counts[s] + m
    <3>1. CASE s = i
      <4>1. ok
        BY <1>9, <1>11, <2>4, <3>1
      <4>2. load <= n
        BY <1>3, <1>4, <1>13, <4>1, CallsAssumption DEF CallsAssumption
      <4>3. connection_counts[best] <= load + m /\ connection_counts[best] \in Nat
        BY <1>4, <1>15, <1>16, <2>4
      <4> QED BY <1>3, <1>4, <1>14, <3>1, <4>2, <4>3, CallsAssumption DEF CallsAssumption
    <3>2. CASE s < i
      BY <1>11, <1>16, <2>4, <3>2
    <3> QED BY <1>11, <2>4, <3>1, <3>2
  <2>5. load # U32Max => best < i + 1 /\ connection_counts[best] <= load + m
    BY <1>2, <1>4, <1>16 DEF Server
  <2>6. ScanIsLeast(c)'
    BY <1>5, <1>6, <1>14, <2>1, <2>4, <2>5 DEF ScanIsLeast
  <2> QED BY <1>7, <2>3, <2>6, KnowledgeShrinks DEF KnownIsSo, TurnsAreNext
<1> QED BY <1>12, <1>13

\* The steps of a call keep what is said of its own choice.
LEMMA OwnStep ==
  ASSUME HistoryInv, HistoryStep, NEW c \in Calls, CallStep(c)
  PROVE  KnownIsSo(c)' /\ ScanIsRight(c)' /\ ScanIsLeast(c)' /\ TurnsAreNext(c)'
<1>1. TypeOK
  BY DEF HistoryInv
<1>2. CASE PickLeast(c)
  <2>1. pc'[c] = "held"
    BY <1>1, <1>2 DEF PickLeast, Return, Goto, TypeOK
  <2> QED BY <2>1, NotChoosing DEF Choosing
<1>3. CASE Exchange(c) \/ Release(c)
  <2>1. pc'[c] \in {"closing", "failed", "done"}
    BY <1>1, <1>3 DEF Exchange, Release, EndExchange, FailExchange, AddFailure, CloseConnection,
                      Goto, TypeOK
  <2> QED BY <2>1, NotChoosing DEF Choosing
<1> QED BY <1>2, <1>3, OwnArrival, OwnTurn, OwnHealth, OwnCount DEF CallStep, Choose

LEMMA ChoiceStep == HistoryInv /\ [HNext]_hvars => ChoiceInv'
<1> SUFFICES ASSUME HistoryInv, [HNext]_hvars, NEW c \in Calls
             PROVE  KnownIsSo(c)' /\ ScanIsRight(c)' /\ ScanIsLeast(c)' /\ TurnsAreNext(c)'
  BY DEF ChoiceInv
<1>1. CASE UNCHANGED hvars
  <2>1. KnownIsSo(c) /\ ScanIsRight(c) /\ ScanIsLeast(c) /\ TurnsAreNext(c)
    BY DEF HistoryInv, ChoiceInv
  <2> QED BY <1>1, <2>1 DEF hvars, vars, callVars, history, KnownIsSo, ScanIsRight, ScanIsLeast,
                            TurnsAreNext, Fit, RecentFailures, StepsBack
<1>2. CASE HNext
  <2>1. Next /\ HistoryStep
    BY <1>2 DEF HNext
  <2>2. ASSUME NEW d \in Calls, CallStep(d)
        PROVE  KnownIsSo(c)' /\ ScanIsRight(c)' /\ ScanIsLeast(c)' /\ TurnsAreNext(c)'
    BY <2>1, <2>2, OwnStep, OthersKnow
  <2>3. CASE Tick \/ Finished
    <3>1. /\ pc' = pc /\ scan' = scan /\ attempts' = attempts /\ current_server' = current_server
          /\ UNCHANGED next_server /\ CountsStep
      BY <2>3, SameCounts DEF Tick, Finished, vars, callVars
    <3>2. pc[c] \in Choosing /\ quiet'[c] => quiet[c]
      BY <2>1, <3>1, WasQuiet DEF Choosing
    <3> QED BY <2>1, <3>1, <3>2, KnowledgeKept DEF HistoryInv
  <2> QED BY <2>1, <2>2, <2>3 DEF Next
<1> QED BY <1>1, <1>2

LEMMA ChoiceInit == HInit => ChoiceInv
BY DEF HInit, Init, HistoryInit, ChoiceInv, KnownIsSo, ScanIsRight, ScanIsLeast, TurnsAreNext

LEMMA ChoiceSafety == HSpec => []HistoryInv
<1>1. HInit => HistoryInv
  BY TypeInit, CountInit, OrderInit, PastInit, MovesInit, ChoiceInit DEF HInit, HistoryInv
<1>2. HistoryInv /\ [HNext]_hvars => HistoryInv'
  <2>1. [HNext]_hvars => [Next]_vars
    BY DEF HNext, hvars
  <2> QED BY <2>1, TypeStep, ArmStep, CountStep, OrderStep, PastStep, MovesStep, ChoiceStep
          DEF HistoryInv
<1> QED BY <1>1, <1>2, PTL DEF HSpec

-----------------------------------------------------------------------------
(* The server a call is given *)

\* A call is given its server by its own step, the last of its arm.
LEMMA GivenByOwnStep ==
  ASSUME HistoryInv, [HNext]_hvars, NEW c \in Calls, Given(c)
  PROVE  /\ balancing = "LeastConnected" => PickLeast(c)
         /\ balancing = "RoundRobin" => CheckTurn(c)
<1>1. TypeOK /\ InArmOfBalancer
  BY DEF HistoryInv
<1>2. Next
  BY DEF HNext, hvars, vars, callVars, Given
<1>3. PICK d \in Calls : CallStep(d)
  BY <1>2 DEF Next, Tick, Finished, vars, callVars, Given
<1>4. d = c
  BY <1>1, <1>3, OthersKeepLocals DEF Given
<1>5. ~(Exchange(c) \/ Release(c))
  BY <1>1 DEF Exchange, Release, EndExchange, FailExchange, AddFailure, CloseConnection,
              Goto, TypeOK, Given
<1>6. ~(ClaimTurn(c) \/ LoseRace(c) \/ ScanHealth(c) \/ ScanCount(c) \/ LoadTurn(c) \/ BeginScan(c))
  BY <1>1 DEF ClaimTurn, LoseRace, ScanHealth, ScanCount, LoadTurn, BeginScan, Goto, TypeOK, Given
<1>7. CheckTurn(c) \/ PickLeast(c) \/ balancing = "IpHash"
  BY <1>3, <1>4, <1>5, <1>6 DEF CallStep, Arrive, Choose, HashServer
<1> QED BY <1>1, <1>7 DEF CheckTurn, PickLeast, InArmOfBalancer

LEMMA PickAvoidsFailed ==
  ASSUME HistoryInv, NEW c \in Calls, PickLeast(c)
  PROVE  AllFailed(c)
<1>1. TypeOK /\ ScanIsRight(c) /\ KnownIsSo(c)
  BY DEF HistoryInv, ChoiceInv
<1>2. pc[c] = "pick" /\ server'[c] = Picked(c)
  BY <1>1 DEF PickLeast, Return, TypeOK
<1>3. CASE scan[c].best_count = U32Max
  <2>1. \A s \in good[c] : s \in Server /\ ~(s < N)
    BY <1>1, <1>2, <1>3 DEF ScanIsRight, KnownIsSo
  <2>2. good[c] = {}
    BY <2>1, NAssumption DEF Server, NAssumption
  <2> QED BY <2>2 DEF AllFailed
<1>4. CASE scan[c].best_count # U32Max
  BY <1>1, <1>2, <1>4 DEF ScanIsRight, AllFailed, Picked
<1> QED BY <1>3, <1>4

LEMMA PickIsLeastLoaded ==
  ASSUME HistoryInv, NEW c \in Calls, PickLeast(c), NEW s \in good[c]
  PROVE  connection_counts[server'[c]] <= connection_counts[s] + moves[c]
<1>1. TypeOK /\ ScanIsRight(c) /\ ScanIsLeast(c) /\ KnownIsSo(c)
  BY DEF HistoryInv, ChoiceInv
<1>2. pc[c] = "pick" /\ server'[c] = Picked(c)
  BY <1>1 DEF PickLeast, Return, TypeOK
<1>3. s \in Server /\ s < N /\ scan[c].i = N
  BY <1>1, <1>2, NAssumption DEF KnownIsSo, ScanIsRight, Server, NAssumption
<1>4. scan[c].best_count # U32Max
  BY <1>1, <1>2, <1>3 DEF ScanIsRight
<1> QED BY <1>1, <1>2, <1>3, <1>4 DEF ScanIsLeast, Picked

LEMMA TurnAvoidsFailed ==
  ASSUME HistoryInv, NEW c \in Calls, CheckTurn(c), quiet[c], pc'[c] = "held"
  PROVE  AllFailed(c)
<1>1. TypeOK /\ TurnsAreNext(c) /\ KnownIsSo(c)
  BY DEF HistoryInv, ChoiceInv
<1>2. PICK n \in Server : n = current_server[c]
  BY <1>1 DEF TypeOK
<1>3. /\ pc[c] = "check" /\ server'[c] = n
      /\ Usable(n) \/ attempts[c] = N
  BY <1>1, <1>2 DEF CheckTurn, Return, Goto, TypeOK
<1>4. CASE Usable(n)
  BY <1>1, <1>3, <1>4, VerdictFromRecord DEF HistoryInv, KnownIsSo, AllFailed
<1>5. CASE attempts[c] = N
  <2>1. ASSUME NEW s \in good[c] PROVE FALSE
    <3>1. s \in Server /\ N < StepsBack(s, n)
      BY <1>1, <1>2, <1>3, <1>5 DEF TurnsAreNext, KnownIsSo
    <3>2. StepsBack(s, n) \in 1 .. N
      BY <3>1, StepsBackBounded
    <3> QED BY <3>1, <3>2, NAssumption DEF NAssumption
  <2>2. good[c] = {}
    BY <2>1
  <2> QED BY <2>2 DEF AllFailed
<1> QED BY <1>3, <1>4, <1>5

\* With any number of servers and calls, the scan of least_conn gives a server that
\* was over its limit of failures all through the scan only when no server was
\* under its limit all through it.
THEOREM LeastConnectedPrefersUsable == HSpec => LeastConnectedAvoidsFailed
<1>1. HistoryInv /\ [HNext]_hvars
        => [\A c \in Calls : Given(c) /\ balancing = "LeastConnected" => AllFailed(c)]_hvars
  BY GivenByOwnStep, PickAvoidsFailed
<1> QED BY <1>1, ChoiceSafety, PTL DEF HSpec, LeastConnectedAvoidsFailed

\* With any number of servers, N + 1 attempts of a round robin that no other call
\* takes a turn from reach every server before a failed one is given.
THEOREM QuietRoundRobinPrefersUsable == HSpec => RoundRobinAvoidsFailedWhenQuiet
<1>1. HistoryInv /\ [HNext]_hvars
        => [\A c \in Calls :
              Given(c) /\ balancing = "RoundRobin" /\ quiet[c] => AllFailed(c)]_hvars
  BY GivenByOwnStep, TurnAvoidsFailed DEF Given
<1> QED BY <1>1, ChoiceSafety, PTL DEF HSpec, RoundRobinAvoidsFailedWhenQuiet

\* However the other calls race with a scan of least_conn, with any number of servers
\* and calls: the server it gives is more loaded than one that was usable all through
\* it by no more than the changes of counts that the scan had read.
THEOREM LeastConnectedGivesLeastLoaded == HSpec => LeastConnectedIsLeastLoaded
<1>1. HistoryInv /\ [HNext]_hvars
        => [\A c \in Calls :
              Given(c) /\ balancing = "LeastConnected"
                => \A s \in good[c] :
                     connection_counts[server'[c]] <= connection_counts[s] + moves[c]]_hvars
  BY GivenByOwnStep, PickIsLeastLoaded
<1> QED BY <1>1, ChoiceSafety, PTL DEF HSpec, LeastConnectedIsLeastLoaded

-----------------------------------------------------------------------------
(* Steps of the group *)

\* The steps of an exchange, by what they do to the group.
Begins(c) == BeginCall(c) \/ ChooseServer(c)
Ends(c, outcome) == \E from \in Phases \ {"none", "over"} : End(c, from, outcome)
Proceeds(c) ==
  /\ UNCHANGED <<vars, result>>
  /\ phase[c] # "over"
  /\ c \in Calls => phase[c] # "none"
  /\ \E p \in Phases \ {"none", "over"}, n \in 0 .. MaxReads :
       /\ phase' = [phase EXCEPT ![c] = p]
       /\ reads' = [reads EXCEPT ![c] = n]

LEMMA StepsOfExchange ==
  ASSUME PPTypeOK, [PPNext]_ppvars
  PROVE  \/ \E c \in Calls : Begins(c) \/ Close(c)
         \/ \E c \in AllCalls : Proceeds(c) \/ \E outcome \in Results \ {"none"} : Ends(c, outcome)
         \/ Tick /\ UNCHANGED <<phase, reads, result>>
         \/ UNCHANGED ppvars
<1> USE CallKindsAssumption DEF CallKindsAssumption, PPTypeOK, AllCalls, Phases
<1>1. ASSUME NEW c \in AllCalls, NEW from, NEW to,
             Advance(c, from, to), UNCHANGED reads,
             from \notin {"over"}, c \in Calls => from # "none", to \in Phases \ {"none", "over"}
      PROVE  Proceeds(c)
  <2>1. reads[c] \in 0 .. MaxReads /\ reads' = [reads EXCEPT ![c] = reads[c]]
    BY <1>1
  <2> QED BY <1>1, <2>1 DEF Advance, Proceeds
<1>2. ASSUME NEW c \in DirectCalls, BeginDirectCall(c) PROVE Proceeds(c)
  BY <1>1, <1>2 DEF BeginDirectCall
<1>3. ASSUME NEW c \in AllCalls, NEW from \in Phases \ {"none", "over"},
             NEW outcome \in Results \ {"none"}, End(c, from, outcome)
      PROVE  \E o \in Results \ {"none"} : Ends(c, o)
  BY <1>3 DEF Ends
<1>4. ASSUME NEW c \in AllCalls, LocalStep(c)
      PROVE  Proceeds(c) \/ \E outcome \in Results \ {"none"} : Ends(c, outcome)
  <2>1. CASE ResolveHost(c)
    BY <1>1, <1>3, <2>1 DEF ResolveHost, Results
  <2>2. CASE BuildRequest(c)
    BY <1>1, <1>3, <2>2 DEF BuildRequest, Results
  <2>3. CASE CheckDomain(c)
    <3>1. (IF c \in Https THEN "tls" ELSE "write") \in {"tls", "write"}
      OBVIOUS
    <3> QED BY <1>1, <1>3, <2>3, <3>1 DEF CheckDomain, Results
  <2>4. CASE BodyComplete(c)
    BY <1>3, <2>4 DEF BodyComplete, Results
  <2> QED BY <1>4, <2>1, <2>2, <2>3, <2>4 DEF LocalStep
<1>5. ASSUME NEW c \in AllCalls, ServerActs(c)
      PROVE  Proceeds(c) \/ \E outcome \in Results \ {"none"} : Ends(c, outcome)
  <2>1. CASE Connected(c) \/ RequestWritten(c)
    BY <1>1, <2>1 DEF Connected, RequestWritten
  <2>2. CASE Handshake(c)
    BY <1>1, <1>3, <2>2 DEF Handshake, Results
  <2>3. CASE HeaderRead(c)
    <3>1. CASE Advance(c, "header", "chunks") /\ UNCHANGED reads
      BY <1>1, <3>1
    <3>2. CASE Advance(c, "header", "body") /\ ~ UNCHANGED reads
      BY <2>3, <3>2 DEF HeaderRead, Advance, Proceeds
    <3>3. CASE Advance(c, "header", "body") /\ UNCHANGED reads
      BY <1>1, <3>3
    <3> QED BY <2>3, <3>1, <3>2, <3>3 DEF HeaderRead
  <2>4. CASE BodyRead(c) \/ NextPart(c)
    <3>1. phase[c] \in {"body", "chunks"} /\ UNCHANGED <<vars, phase, result>>
      BY <2>4 DEF BodyRead, NextPart, InBody
    <3>2. phase' = [phase EXCEPT ![c] = phase[c]]
      BY <3>1
    <3>3. \E n \in 0 .. MaxReads : reads' = [reads EXCEPT ![c] = n]
      <4>1. reads[c] \in 0 .. MaxReads
        OBVIOUS
      <4>2. BodyRead(c) => reads[c] - 1 \in 0 .. MaxReads /\ reads' = [reads EXCEPT ![c] = reads[c] - 1]
        BY <4>1 DEF BodyRead
      <4>3. NextPart(c) => \E n \in 1 .. MaxReads : reads' = [reads EXCEPT ![c] = n]
        BY DEF NextPart
      <4> QED BY <2>4, <4>2, <4>3
    <3> QED BY <3>1, <3>2, <3>3 DEF Proceeds
  <2>5. CASE BodyEndsEarly(c) \/ LastPart(c)
    BY <1>3, <2>5 DEF BodyEndsEarly, LastPart, Results
  <2> QED BY <1>5, <2>1, <2>2, <2>3, <2>4, <2>5 DEF ServerActs
<1>6. ASSUME NEW c \in AllCalls, TimerFires(c)
      PROVE  \E outcome \in Results \ {"none"} : Ends(c, outcome)
  BY <1>3, <1>6 DEF TimerFires, ConnectFails, WriteFails, HeaderFails, BodyFails, Results
<1> QED BY <1>2, <1>4, <1>5, <1>6 DEF PPNext, GroupStep, Begins, Over

\* What an end does to the group.
LEMMA EndOfCall ==
  ASSUME NEW c \in AllCalls, NEW outcome, Ends(c, outcome)
  PROVE  /\ phase[c] \notin {"none", "over"}
         /\ phase' = [phase EXCEPT ![c] = "over"]
         /\ result' = [result EXCEPT ![c] = outcome]
         /\ reads' = [reads EXCEPT ![c] = 0]
         /\ \/ c \in DirectCalls /\ UNCHANGED vars
            \/ c \in Calls \ DirectCalls /\ outcome = "error" /\ FailExchange(c)
            \/ c \in Calls \ DirectCalls /\ outcome # "error" /\ EndExchange(c)
BY DEF Ends, End, AllCalls

\* Every step of an exchange is a step of the group or leaves it alone.
LEMMA GroupTakesStep == PPTypeOK /\ [PPNext]_ppvars => [Next]_vars
<1> SUFFICES ASSUME PPTypeOK, [PPNext]_ppvars PROVE [Next]_vars
  OBVIOUS
<1>1. ASSUME NEW c \in Calls, Begins(c) \/ Close(c) PROVE Next
  BY <1>1 DEF Begins, BeginCall, ChooseServer, Close, Next, CallStep
<1>2. ASSUME NEW c \in AllCalls, NEW outcome, Ends(c, outcome) PROVE [Next]_vars
  BY <1>2, EndOfCall DEF Next, CallStep, Exchange
<1>3. ASSUME NEW c \in AllCalls, Proceeds(c) PROVE UNCHANGED vars
  BY <1>3 DEF Proceeds
<1>4. CASE Tick
  BY <1>4 DEF Next
<1>5. CASE UNCHANGED ppvars
  BY <1>5 DEF ppvars
<1> QED BY <1>1, <1>2, <1>3, <1>4, <1>5, StepsOfExchange

-----------------------------------------------------------------------------
(* Types *)

LEMMA PPTypeInit == PPInit => PPTypeOK
BY TypeInit, CallKindsAssumption
   DEF PPInit, Init, PPTypeOK, AllCalls, Phases, Results, CallKindsAssumption

\* A call is given its server by a step of its own, with no other call's place touched.
LEMMA BeginsOnlyItself ==
  ASSUME TypeOK, NEW c \in Calls, Begins(c)
  PROVE  /\ pc[c] \notin {"held", "failed", "closing", "done"}
         /\ pc'[c] \notin {"failed", "closing", "done"}
         /\ \A d \in Calls : d # c => pc'[d] = pc[d] /\ server'[d] = server[d]
         /\ phase' = IF pc'[c] = "held" THEN [phase EXCEPT ![c] = "resolve"] ELSE phase
         /\ UNCHANGED <<reads, result>>
<1> USE DEF TypeOK
<1>1. ASSUME NEW s \in Server, HashServer(c, s)
      PROVE  /\ pc[c] = "start" /\ pc'[c] = "held"
             /\ \A d \in Calls : d # c => pc'[d] = pc[d] /\ server'[d] = server[d]
  BY <1>1 DEF HashServer, Return, Goto
<1>2. ASSUME LoadTurn(c) \/ BeginScan(c)
      PROVE  /\ pc[c] = "start" /\ pc'[c] \in {"claim", "health"}
             /\ \A d \in Calls : d # c => pc'[d] = pc[d] /\ server'[d] = server[d]
  BY <1>2 DEF LoadTurn, BeginScan, Goto
<1>3. ASSUME ClaimTurn(c) \/ LoseRace(c) \/ ScanHealth(c)
      PROVE  /\ pc[c] \in {"claim", "health"} /\ pc'[c] \in {"claim", "check", "count"}
             /\ \A d \in Calls : d # c => pc'[d] = pc[d] /\ server'[d] = server[d]
  BY <1>3 DEF ClaimTurn, LoseRace, ScanHealth, Goto
<1>4. ASSUME ScanCount(c)
      PROVE  /\ pc[c] = "count" /\ pc'[c] \in {"health", "pick"}
             /\ \A d \in Calls : d # c => pc'[d] = pc[d] /\ server'[d] = server[d]
  BY <1>4 DEF ScanCount, Goto
<1>5. ASSUME CheckTurn(c) \/ PickLeast(c)
      PROVE  /\ pc[c] \in {"check", "pick"} /\ pc'[c] \in {"held", "claim"}
             /\ \A d \in Calls : d # c => pc'[d] = pc[d] /\ server'[d] = server[d]
  BY <1>5 DEF CheckTurn, PickLeast, Return, Goto
<1>6. /\ Arrive(c) \/ Choose(c)
      /\ phase' = IF pc'[c] = "held" THEN [phase EXCEPT ![c] = "resolve"] ELSE phase
      /\ UNCHANGED <<reads, result>>
  BY DEF Begins, BeginCall, ChooseServer
<1> QED BY <1>1, <1>2, <1>3, <1>4, <1>5, <1>6 DEF Arrive, Choose

LEMMA CloseOnlyItself ==
  ASSUME TypeOK, NEW c \in Calls, Close(c)
  PROVE  /\ \/ pc[c] = "failed" /\ pc'[c] = "closing" /\ AddFailure(c)
            \/ pc[c] = "closing" /\ pc'[c] = "done" /\ CloseConnection(c)
         /\ \A d \in Calls : d # c => pc'[d] = pc[d]
         /\ UNCHANGED <<server, phase, reads, result>>
BY DEF Close, Release, AddFailure, CloseConnection, Goto, TypeOK

LEMMA EndOnlyItself ==
  ASSUME TypeOK, NEW c \in Calls, FailExchange(c) \/ EndExchange(c)
  PROVE  /\ pc[c] = "held" /\ pc'[c] = IF FailExchange(c) THEN "failed" ELSE "closing"
         /\ \A d \in Calls : d # c => pc'[d] = pc[d]
         /\ UNCHANGED <<now, failures, server>>
BY DEF FailExchange, EndExchange, Goto, TypeOK

LEMMA PPTypeStep == PPTypeOK /\ [PPNext]_ppvars => PPTypeOK'
<1> SUFFICES ASSUME PPTypeOK, [PPNext]_ppvars PROVE PPTypeOK'
  OBVIOUS
<1>1. TypeOK'
  BY GroupTakesStep, TypeStep DEF PPTypeOK
<1>2. Calls \cap DirectCalls = {} /\ Calls \subseteq AllCalls /\ 0 \in 0 .. MaxReads
  BY CallKindsAssumption DEF CallKindsAssumption, AllCalls
<1> USE DEF PPTypeOK
<1>3. ASSUME NEW c \in Calls, Begins(c) PROVE PPTypeOK'
  <2>1. /\ \A d \in Calls : d # c => pc'[d] = pc[d]
        /\ pc[c] # "held"
        /\ phase' = IF pc'[c] = "held" THEN [phase EXCEPT ![c] = "resolve"] ELSE phase
        /\ UNCHANGED <<reads, result>>
    BY <1>3, BeginsOnlyItself
  <2>2. phase' \in [AllCalls -> Phases]
    BY <1>2, <2>1 DEF Phases
  <2>3. ASSUME NEW d \in Calls PROVE pc'[d] = "held" <=> phase'[d] \notin {"none", "over"}
    BY <1>2, <2>1
  <2> QED BY <1>1, <2>1, <2>2, <2>3
<1>4. ASSUME NEW c \in Calls, Close(c) PROVE PPTypeOK'
  BY <1>1, <1>4, CloseOnlyItself
<1>5. ASSUME NEW c \in AllCalls, Proceeds(c) PROVE PPTypeOK'
  BY <1>1, <1>2, <1>5 DEF Proceeds, vars, callVars
<1>6. ASSUME NEW c \in AllCalls, NEW outcome \in Results \ {"none"}, Ends(c, outcome) PROVE PPTypeOK'
  <2>1. /\ phase[c] \notin {"none", "over"}
        /\ phase' = [phase EXCEPT ![c] = "over"]
        /\ result' = [result EXCEPT ![c] = outcome]
        /\ reads' = [reads EXCEPT ![c] = 0]
    BY <1>6, EndOfCall
  <2>2. phase' \in [AllCalls -> Phases] /\ result' \in [AllCalls -> Results]
    BY <2>1 DEF Phases
  <2>3. reads' \in [AllCalls -> 0 .. MaxReads]
    BY <1>2, <2>1
  <2>4. ASSUME NEW d \in Calls PROVE pc'[d] = "held" <=> phase'[d] \notin {"none", "over"}
    <3>1. CASE c \in DirectCalls
      BY <1>2, <1>6, <2>1, <3>1, EndOfCall DEF vars, callVars
    <3>2. CASE c \in Calls
      BY <1>2, <1>6, <2>1, <3>2, EndOfCall, EndOnlyItself
    <3> QED BY <3>1, <3>2 DEF AllCalls
  <2> QED BY <1>1, <2>2, <2>3, <2>4
<1>7. CASE UNCHANGED <<pc, phase, reads, result>>
  BY <1>1, <1>7
<1> QED BY <1>3, <1>4, <1>5, <1>6, <1>7, StepsOfExchange DEF Tick, ppvars, vars, callVars

\* In every reachable state of an exchange, with any calls, servers and reads, every
\* variable has its type, and an exchange runs just while the call holds its server.
THEOREM ExchangeTypeCorrect == PPSpec => []PPTypeOK
BY PPTypeInit, PPTypeStep, PTL DEF PPSpec

\* Forgetting the phases, the exchange is a behaviour of the group: its calls are
\* given servers, fail and give back as the group has them do.
THEOREM ExchangeTakesGroupSteps == PPSpec => Init /\ [][Next]_vars
<1>1. PPInit => Init
  BY DEF PPInit
<1> QED BY <1>1, ExchangeTypeCorrect, GroupTakesStep, PTL DEF PPSpec

\* What was proved of the group holds of it while it carries exchanges.
GroupInv == PPTypeOK /\ InArmOfBalancer /\ ConnectionsCounted

LEMMA GroupStays == GroupInv /\ [PPNext]_ppvars => GroupInv'
BY PPTypeStep, GroupTakesStep, ArmStep, CountStep DEF GroupInv, PPTypeOK

LEMMA GroupSafety == PPSpec => []GroupInv
<1>1. PPInit => GroupInv
  BY PPTypeInit, CountInit DEF PPInit, GroupInv
<1> QED BY <1>1, GroupStays, PTL DEF PPSpec

-----------------------------------------------------------------------------
(* Sockets *)

\* Whatever phase the exchanges are in and however they end, least_conn never
\* counts fewer connections to a server than there are sockets open to it.
THEOREM SocketsAreCounted == PPSpec => []SocketsCounted
<1>1. ASSUME GroupInv, balancing = "LeastConnected", NEW s \in Server
      PROVE  Cardinality(OpenSockets(s)) <= connection_counts[s]
  <2>1. OpenSockets(s) \subseteq Holders(s)
    BY <1>1 DEF GroupInv, PPTypeOK, OpenSockets, Holders, Holding
  <2>2. Cardinality(OpenSockets(s)) <= Cardinality(Holders(s))
    BY <2>1, HoldersFinite, FS_Subset
  <2> QED BY <1>1, <2>2 DEF GroupInv, ConnectionsCounted
<1>2. GroupInv => SocketsCounted
  BY <1>1 DEF SocketsCounted
<1> QED BY <1>2, GroupSafety, PTL

-----------------------------------------------------------------------------
(* Failures *)

\* The calls whose failed exchange with server s was recorded.
Failed(s) == {c \in Calls : /\ server[c] = s /\ result[c] = "error"
                            /\ pc[c] \in {"closing", "done"}}

\* A call has a result when its exchange has ended, and is on its way to record a
\* failure when that result is an error.
ResultFits ==
  \A c \in Calls :
    /\ pc[c] \notin {"failed", "closing", "done"} => result[c] = "none"
    /\ pc[c] = "failed" => result[c] = "error"

FailuresInv == /\ now <= MaxTime
               /\ ResultFits
               /\ FailuresAreFailedExchanges

\* Before fail_timeout has passed since the beginning no failure has expired.
LEMMA NothingExpires ==
  ASSUME TypeOK, now <= MaxTime, FailTimeout >= MaxTime, NEW s \in Server
  PROVE  Remaining(s) = failures[s]
<1>1. failures[s] \in Seq(Nat) /\ Len(failures[s]) \in Nat /\ now \in Nat
  BY DEF TypeOK
<1>2. \A j \in 1 .. Len(failures[s]) : ~Expired(failures[s][j])
  <2>1. ASSUME NEW j \in 1 .. Len(failures[s]) PROVE ~Expired(failures[s][j])
    <3>1. PICK x \in Nat : x = failures[s][j]
      BY <1>1, ElementOfSeq
    <3>2. ~(now - x > FailTimeout)
      BY <1>1, LimitsAssumption DEF LimitsAssumption
    <3> QED BY <3>1, <3>2 DEF Expired
  <2> QED BY <2>1
<1>3. PICK p \in 0 .. Len(failures[s]) : p = Popped(s) /\ \A j \in 1 .. p : Expired(failures[s][j])
  BY PoppedIsExpiredPrefix DEF TypeOK
<1>4. p = 0
  BY <1>1, <1>2, <1>3
<1>5. /\ Remaining(s) \in Seq(Nat)
      /\ Len(Remaining(s)) = Len(failures[s]) - p
      /\ \A j \in 1 .. Len(Remaining(s)) : Remaining(s)[j] = failures[s][j + p]
  BY <1>3, RemainingIsSuffix DEF TypeOK
<1>6. /\ Len(Remaining(s)) = Len(failures[s])
      /\ \A j \in 1 .. Len(failures[s]) : Remaining(s)[j] = failures[s][j]
  BY <1>1, <1>4, <1>5
<1> QED BY <1>1, <1>5, <1>6, SeqEqual

LEMMA FailedFinite ==
  ASSUME NEW s \in Server
  PROVE  IsFiniteSet(Failed(s)) /\ Cardinality(Failed(s)) \in Nat
<1>1. Failed(s) \subseteq Calls
  BY DEF Failed
<1> QED BY <1>1, CallsAssumption, FS_Subset, FS_CardinalityType DEF CallsAssumption

\* A step that records no failure leaves the records, as long as nothing expires.
LEMMA OnlyFailuresRecorded ==
  ASSUME TypeOK, [Next]_vars, now <= MaxTime, FailTimeout >= MaxTime
  PROVE  failures' = failures \/ \E c \in Calls : AddFailure(c)
<1>1. ASSUME NEW s \in Server, UpdateFailures(s) PROVE failures' = failures
  BY <1>1, NothingExpires DEF UpdateFailures, TypeOK
<1> QED BY <1>1, StepsOnRecords DEF Tick

LEMMA ResultStep == PPTypeOK /\ ResultFits /\ [PPNext]_ppvars => ResultFits'
<1> SUFFICES ASSUME PPTypeOK, ResultFits, [PPNext]_ppvars PROVE ResultFits'
  OBVIOUS
<1>1. TypeOK /\ result \in [AllCalls -> Results] /\ Calls \cap DirectCalls = {}
      /\ Calls \subseteq AllCalls
  BY CallKindsAssumption DEF PPTypeOK, CallKindsAssumption, AllCalls
<1>2. ASSUME NEW c \in Calls, Begins(c) PROVE ResultFits'
  BY <1>1, <1>2, BeginsOnlyItself DEF ResultFits
<1>3. ASSUME NEW c \in Calls, Close(c) PROVE ResultFits'
  BY <1>1, <1>3, CloseOnlyItself DEF ResultFits
<1>4. ASSUME NEW c \in AllCalls, NEW outcome \in Results \ {"none"}, Ends(c, outcome)
      PROVE  ResultFits'
  <2>1. /\ result'[c] = outcome
        /\ \A d \in Calls : d # c => result'[d] = result[d]
    BY <1>1, <1>4, EndOfCall
  <2>2. CASE c \in DirectCalls
    BY <1>1, <1>4, <2>1, <2>2, EndOfCall DEF ResultFits, vars, callVars
  <2>3. CASE c \in Calls /\ FailExchange(c) /\ outcome = "error"
    BY <1>1, <2>1, <2>3, EndOnlyItself DEF ResultFits
  <2>4. CASE c \in Calls /\ EndExchange(c) /\ outcome # "error"
    <3>1. pc'[c] = "closing" /\ \A d \in Calls : d # c => pc'[d] = pc[d]
      BY <1>1, <2>4 DEF EndExchange, Goto, TypeOK
    <3> QED BY <2>1, <2>4, <3>1 DEF ResultFits
  <2> QED BY <1>4, <2>2, <2>3, <2>4, EndOfCall
<1>5. CASE UNCHANGED <<pc, result>>
  BY <1>5 DEF ResultFits
<1> QED BY <1>2, <1>3, <1>4, <1>5, StepsOfExchange DEF Proceeds, Tick, ppvars, vars, callVars

\* The call that records a failure is one more of the failed ones.
LEMMA FailureRecorded ==
  ASSUME PPTypeOK, ResultFits, NEW c \in Calls, Close(c), AddFailure(c),
         \A s \in Server : Len(failures[s]) = Cardinality(Failed(s))
  PROVE  \A s \in Server : Len(failures'[s]) = Cardinality(Failed(s)')
<1>1. TypeOK /\ pc[c] = "failed" /\ result[c] = "error"
  BY DEF PPTypeOK, AddFailure, ResultFits
<1>2. PICK p \in Server : p = server[c]
  BY <1>1 DEF TypeOK
<1>3. /\ pc'[c] = "closing" /\ \A d \in Calls : d # c => pc'[d] = pc[d]
      /\ UNCHANGED <<server, result>>
  BY <1>1, CloseOnlyItself
<1>4. /\ failures'[p] = Append(failures[p], now)
      /\ \A s \in Server : s # p => failures'[s] = failures[s]
  BY <1>1, <1>2 DEF AddFailure, TypeOK
<1>5. c \notin Failed(p) /\ Failed(p)' = Failed(p) \cup {c}
  BY <1>1, <1>2, <1>3 DEF Failed
<1>6. \A s \in Server : s # p => Failed(s)' = Failed(s)
  BY <1>1, <1>2, <1>3 DEF Failed
<1>7. Cardinality(Failed(p)') = Cardinality(Failed(p)) + 1
  BY <1>5, FailedFinite, FS_AddElement
<1>8. Len(failures'[p]) = Len(failures[p]) + 1
  BY <1>1, <1>4, AppendProperties DEF TypeOK
<1> QED BY <1>4, <1>6, <1>7, <1>8

LEMMA FailuresStep == PPTypeOK /\ FailuresInv /\ [PPNext]_ppvars => FailuresInv'
<1> SUFFICES ASSUME PPTypeOK, FailuresInv, [PPNext]_ppvars PROVE FailuresInv'
  OBVIOUS
<1>1. TypeOK /\ ResultFits /\ now <= MaxTime /\ [Next]_vars
  BY GroupTakesStep DEF PPTypeOK, FailuresInv
<1>2. now' <= MaxTime
  <2>1. now' = now \/ (now < MaxTime /\ now' = now + 1)
    BY <1>1, StepsOnRecords DEF Tick, AddFailure
  <2> QED BY <1>1, <2>1, LimitsAssumption DEF TypeOK, LimitsAssumption
<1>3. ResultFits'
  BY <1>1, ResultStep
<1>4. ASSUME FailTimeout >= MaxTime
      PROVE  \A s \in Server : Len(failures'[s]) = Cardinality(Failed(s)')
  <2>1. \A s \in Server : Len(failures[s]) = Cardinality(Failed(s))
    BY <1>4 DEF FailuresInv, FailuresAreFailedExchanges, Failed
  <2>2. CASE \E c \in Calls : Close(c) /\ AddFailure(c)
    BY <1>1, <2>1, <2>2, FailureRecorded
  <2>3. ASSUME ~ \E c \in Calls : Close(c) /\ AddFailure(c)
        PROVE  failures' = failures /\ \A s \in Server : Failed(s)' = Failed(s)
    <3>1. ASSUME NEW c \in Calls, Begins(c)
          PROVE  /\ ~ \E d \in Calls : AddFailure(d)
                 /\ \A s \in Server : Failed(s)' = Failed(s)
      <4>1. /\ pc[c] \notin {"held", "failed", "closing", "done"}
            /\ pc'[c] \notin {"failed", "closing", "done"}
            /\ \A d \in Calls : d # c => pc'[d] = pc[d] /\ server'[d] = server[d]
            /\ result' = result
        BY <1>1, <3>1, BeginsOnlyItself
      <4>2. \A d \in Calls : ~AddFailure(d)
        BY <1>1, <4>1 DEF AddFailure, Goto, TypeOK
      <4> QED BY <4>1, <4>2 DEF Failed
    <3>2. ASSUME NEW c \in Calls, Close(c)
          PROVE  /\ ~ \E d \in Calls : AddFailure(d)
                 /\ \A s \in Server : Failed(s)' = Failed(s)
      <4>1. /\ pc[c] = "closing" /\ pc'[c] = "done"
            /\ \A d \in Calls : d # c => pc'[d] = pc[d]
            /\ UNCHANGED <<server, result>>
        BY <1>1, <2>3, <3>2, CloseOnlyItself
      <4>2. \A d \in Calls : ~AddFailure(d)
        BY <1>1, <4>1 DEF AddFailure, Goto, TypeOK
      <4> QED BY <4>1, <4>2 DEF Failed
    <3>3. ASSUME NEW c \in AllCalls, NEW outcome \in Results \ {"none"}, Ends(c, outcome)
          PROVE  failures' = failures /\ \A s \in Server : Failed(s)' = Failed(s)
      <4>1. result' = [result EXCEPT ![c] = outcome]
        BY <3>3, EndOfCall
      <4>2. CASE c \in DirectCalls /\ UNCHANGED vars
        <5>1. /\ UNCHANGED <<pc, server, failures>>
              /\ \A d \in Calls : result'[d] = result[d]
          BY <4>1, <4>2, CallKindsAssumption DEF CallKindsAssumption, PPTypeOK, AllCalls, vars, callVars
        <5> QED BY <5>1 DEF Failed
      <4>3. ASSUME c \in Calls,
                   \/ FailExchange(c) /\ outcome = "error"
                   \/ EndExchange(c) /\ outcome # "error"
            PROVE  failures' = failures /\ \A s \in Server : Failed(s)' = Failed(s)
        <5>1. /\ pc[c] = "held" /\ (pc'[c] = "failed" \/ result'[c] # "error")
              /\ \A d \in Calls : d # c => pc'[d] = pc[d] /\ result'[d] = result[d]
              /\ UNCHANGED <<server, failures>>
          BY <1>1, <4>1, <4>3, EndOnlyItself DEF PPTypeOK, AllCalls
        <5> QED BY <5>1 DEF Failed
      <4>4. \/ c \in DirectCalls /\ UNCHANGED vars
            \/ c \in Calls \ DirectCalls /\ outcome = "error" /\ FailExchange(c)
            \/ c \in Calls \ DirectCalls /\ outcome # "error" /\ EndExchange(c)
        BY <3>3, EndOfCall
      <4> QED BY <4>2, <4>3, <4>4
    <3>4. ASSUME UNCHANGED <<pc, server, failures, result>>
          PROVE  failures' = failures /\ \A s \in Server : Failed(s)' = Failed(s)
      BY <3>4 DEF Failed
    <3>5. Tick \/ UNCHANGED vars => UNCHANGED <<pc, server, failures>>
      BY DEF Tick, vars, callVars
    <3>6. failures' = failures \/ \E d \in Calls : AddFailure(d)
      BY <1>1, <1>4, OnlyFailuresRecorded
    <3> QED BY <3>1, <3>2, <3>3, <3>4, <3>5, <3>6, StepsOfExchange DEF Proceeds, ppvars
  <2> QED BY <2>1, <2>2, <2>3
<1>5. FailuresAreFailedExchanges'
  BY <1>4 DEF FailuresAreFailedExchanges, Failed
<1> QED BY <1>2, <1>3, <1>5 DEF FailuresInv

LEMMA FailuresInit == PPInit => FailuresInv
<1> SUFFICES ASSUME PPInit PROVE FailuresInv
  OBVIOUS
<1>1. /\ \A c \in Calls : pc[c] = "start" /\ result[c] = "none"
      /\ \A s \in Server : failures[s] = <<>>
      /\ now = 0
  BY DEF PPInit, Init, AllCalls
<1>2. \A s \in Server : Failed(s) = {} /\ Len(failures[s]) = 0
  BY <1>1 DEF Failed
<1>3. FailuresAreFailedExchanges
  BY <1>2, FS_EmptySet DEF FailuresAreFailedExchanges, Failed
<1> QED BY <1>1, <1>3, LimitsAssumption DEF FailuresInv, ResultFits, LimitsAssumption

\* For any number of servers and calls, the record of a server has one entry for
\* every call whose exchange with it failed and none for any other call.
THEOREM FailuresAreOfExchanges == PPSpec => []FailuresAreFailedExchanges
<1> DEFINE Inv == PPTypeOK /\ FailuresInv
<1>1. PPInit => Inv
  BY PPTypeInit, FailuresInit
<1>2. Inv /\ [PPNext]_ppvars => Inv'
  BY PPTypeStep, FailuresStep
<1>3. Inv => FailuresAreFailedExchanges
  BY DEF FailuresInv
<1> QED BY <1>1, <1>2, <1>3, PTL DEF PPSpec

-----------------------------------------------------------------------------
(* The pool of leases *)

leases == [c \in Calls |-> Lease(c)]
loads == [s \in Server |-> Load(s)]

\* Every balancer's load is the number of its exchanges, kept in a counter or not.
LEMMA LoadIsHolders ==
  ASSUME ConnectionsCounted, NEW s \in Server
  PROVE  Load(s) = Cardinality(Holders(s))
BY DEF Load, ConnectionsCounted

\* A call that is given a server takes a lease of it.
LEMMA GivenIsAcquire ==
  ASSUME TypeOK, ConnectionsCounted, ConnectionsCounted', NEW c \in Calls, NEW p \in Server,
         ~Holding(c), pc[c] # "done", pc' = [pc EXCEPT ![c] = "held"], server' = [server EXCEPT ![c] = p]
  PROVE  Pool!Acquire(c, p)
<1>1. leases[c] = "waiting" /\ leases' = [leases EXCEPT ![c] = "holding"]
  BY DEF leases, Lease, Holding, TypeOK
<1>2. c \notin Holders(p) /\ Holders(p)' = Holders(p) \cup {c}
  BY DEF Holders, Holding, TypeOK
<1>3. ASSUME NEW s \in Server, s # p PROVE Holders(s)' = Holders(s)
  BY <1>3 DEF Holders, Holding, TypeOK
<1>4. Cardinality(Holders(p)') = Cardinality(Holders(p)) + 1
  BY <1>2, HoldersFinite, FS_AddElement
<1>5. ASSUME NEW s \in Server PROVE Load(s)' = Cardinality(Holders(s)')
  BY DEF Load, ConnectionsCounted
<1>6. loads' = [loads EXCEPT ![p] = loads[p] + 1]
  BY <1>3, <1>4, <1>5, LoadIsHolders DEF loads
<1> QED BY <1>1, <1>6 DEF Pool!Acquire, leases, loads

\* A call that ends gives its lease back.
LEMMA CloseIsGiveBack ==
  ASSUME TypeOK, ConnectionsCounted, ConnectionsCounted', NEW c \in Calls,
         pc[c] = "closing", pc' = [pc EXCEPT ![c] = "done"], server' = server
  PROVE  Pool!GiveBack(c)
<1>1. PICK p \in Server : p = server[c]
  BY DEF TypeOK
<1>2. leases[c] = "holding" /\ leases' = [leases EXCEPT ![c] = "over"]
  BY DEF leases, Lease, Holding, TypeOK
<1>3. c \in Holders(p) /\ Holders(p)' = Holders(p) \ {c}
  BY <1>1 DEF Holders, Holding, TypeOK
<1>4. ASSUME NEW s \in Server, s # p PROVE Holders(s)' = Holders(s)
  BY <1>1, <1>4 DEF Holders, Holding, TypeOK
<1>5. Cardinality(Holders(p)') = Cardinality(Holders(p)) - 1
  BY <1>3, HoldersFinite, FS_RemoveElement
<1>6. ASSUME NEW s \in Server PROVE Load(s)' = Cardinality(Holders(s)')
  BY DEF Load, ConnectionsCounted
<1>7. loads' = [loads EXCEPT ![p] = loads[p] - 1]
  BY <1>4, <1>5, <1>6, LoadIsHolders DEF loads
<1> QED BY <1>1, <1>2, <1>7 DEF Pool!GiveBack, leases, loads

\* Any other step is no step of the pool.
LEMMA OthersStutter ==
  ASSUME ConnectionsCounted, ConnectionsCounted', server' = server,
         \A d \in Calls : Lease(d)' = Lease(d) /\ Holding(d)' = Holding(d)
  PROVE  UNCHANGED Pool!pool
<1>1. leases' = leases
  BY DEF leases
<1>2. ASSUME NEW s \in Server PROVE Load(s)' = Load(s)
  <2>1. Holders(s)' = Holders(s)
    BY DEF Holders
  <2>2. Load(s)' = Cardinality(Holders(s)')
    BY DEF Load, ConnectionsCounted
  <2> QED BY <2>1, <2>2, LoadIsHolders
<1>3. loads' = loads
  BY <1>2 DEF loads
<1> QED BY <1>1, <1>3 DEF Pool!pool, leases, loads

LEMMA PoolStep ==
  TypeOK /\ ConnectionsCounted /\ ConnectionsCounted' /\ [Next]_vars => [Pool!PoolNext]_(Pool!pool)
<1> SUFFICES ASSUME TypeOK, ConnectionsCounted, ConnectionsCounted', [Next]_vars
             PROVE  [Pool!PoolNext]_(Pool!pool)
  OBVIOUS
<1>1. ASSUME NEW c \in Calls, LoadTurn(c) \/ BeginScan(c) PROVE UNCHANGED Pool!pool
  BY <1>1, OthersStutter DEF LoadTurn, BeginScan, Goto, Lease, Holding, TypeOK
<1>2. ASSUME NEW c \in Calls, ClaimTurn(c) \/ LoseRace(c) PROVE UNCHANGED Pool!pool
  <2>1. server' = server /\ \A d \in Calls \ {c} : pc'[d] = pc[d]
    BY <1>2 DEF ClaimTurn, LoseRace, Goto, TypeOK
  <2>2. pc[c] = "claim" /\ pc'[c] \in {"load", "claim", "check"}
    BY <1>2 DEF ClaimTurn, LoseRace, Goto, TypeOK
  <2>3. \A d \in Calls : Lease(d)' = Lease(d) /\ Holding(d)' = Holding(d)
    BY <2>1, <2>2 DEF Lease, Holding
  <2> QED BY <2>1, <2>3, OthersStutter
<1>3. ASSUME NEW c \in Calls, ScanHealth(c) \/ ScanCount(c) PROVE UNCHANGED Pool!pool
  <2>1. server' = server /\ \A d \in Calls \ {c} : pc'[d] = pc[d]
    BY <1>3 DEF ScanHealth, ScanCount, Goto, TypeOK
  <2>2. pc[c] \in {"health", "count"} /\ pc'[c] \in {"health", "count", "pick"}
    BY <1>3 DEF ScanHealth, ScanCount, Goto, TypeOK
  <2>3. \A d \in Calls : Lease(d)' = Lease(d) /\ Holding(d)' = Holding(d)
    BY <2>1, <2>2 DEF Lease, Holding
  <2> QED BY <2>1, <2>3, OthersStutter
<1>4. ASSUME NEW c \in Calls, NEW p \in Server, Return(c, p), pc[c] \in {"start", "check", "pick"}
      PROVE  Pool!PoolNext
  <2>1. Pool!Acquire(c, p)
    BY <1>4, GivenIsAcquire DEF Return, Goto, Holding
  <2> QED BY <2>1 DEF Pool!PoolNext
<1>5. ASSUME NEW c \in Calls, CheckTurn(c) PROVE [Pool!PoolNext]_(Pool!pool)
  <2>1. PICK p \in Server : p = current_server[c]
    BY DEF TypeOK
  <2>2. CASE Return(c, p)
    BY <1>4, <1>5, <2>2 DEF CheckTurn
  <2>3. CASE ~Return(c, p)
    <3>1. server' = server /\ \A d \in Calls \ {c} : pc'[d] = pc[d]
      BY <1>5, <2>1, <2>3 DEF CheckTurn, Goto, TypeOK
    <3>2. pc[c] = "check" /\ pc'[c] \in {"load", "claim", "check"}
      BY <1>5, <2>1, <2>3 DEF CheckTurn, Goto, TypeOK
    <3>3. \A d \in Calls : Lease(d)' = Lease(d) /\ Holding(d)' = Holding(d)
      BY <3>1, <3>2 DEF Lease, Holding
    <3> QED BY <3>1, <3>3, OthersStutter
  <2> QED BY <2>2, <2>3
<1>6. ASSUME NEW c \in Calls, PickLeast(c) PROVE Pool!PoolNext
  BY <1>4, <1>6, PickedType DEF PickLeast, TypeOK
<1>7. ASSUME NEW c \in Calls, NEW s \in Server, HashServer(c, s) PROVE Pool!PoolNext
  BY <1>4, <1>7 DEF HashServer
<1>8. ASSUME NEW c \in Calls, Exchange(c) \/ AddFailure(c) PROVE UNCHANGED Pool!pool
  <2>1. server' = server /\ \A d \in Calls \ {c} : pc'[d] = pc[d]
    BY <1>8 DEF Exchange, EndExchange, FailExchange, AddFailure, Goto, TypeOK
  <2>2. pc[c] \in {"held", "failed"} /\ pc'[c] \in {"failed", "closing"}
    BY <1>8 DEF Exchange, EndExchange, FailExchange, AddFailure, Goto, TypeOK
  <2>3. \A d \in Calls : Lease(d)' = Lease(d) /\ Holding(d)' = Holding(d)
    BY <2>1, <2>2 DEF Lease, Holding
  <2> QED BY <2>1, <2>3, OthersStutter
<1>9. ASSUME NEW c \in Calls, CloseConnection(c) PROVE Pool!PoolNext
  <2>1. Pool!GiveBack(c)
    BY <1>9, CloseIsGiveBack DEF CloseConnection, Goto
  <2> QED BY <2>1 DEF Pool!PoolNext
<1>10. CASE Tick \/ UNCHANGED vars
  BY <1>10, OthersStutter DEF Tick, vars, callVars, Lease, Holding
<1> QED
  BY <1>1, <1>2, <1>3, <1>5, <1>6, <1>7, <1>8, <1>9, <1>10
  DEF Next, CallStep, Arrive, Choose, Release, Finished

LEMMA PoolInitially == Init => Pool!PoolInit
<1> SUFFICES ASSUME Init PROVE Pool!PoolInit
  OBVIOUS
<1>1. TypeOK /\ ConnectionsCounted /\ \A c \in Calls : pc[c] = "start"
  BY TypeInit, CountInit DEF Init
<1>2. leases = [c \in Calls |-> "waiting"]
  BY <1>1 DEF leases, Lease, Holding
<1>3. \A s \in Server : Holders(s) = {}
  BY <1>1 DEF Holders, Holding
<1>4. loads = [s \in Server |-> 0]
  BY <1>1, <1>3, LoadIsHolders, FS_EmptySet DEF loads
<1> QED BY <1>1, <1>2, <1>4 DEF Pool!PoolInit, leases, loads, TypeOK

\* Whatever the balancer, and however choices, exchanges, failures and ends of
\* calls interleave, a call takes one lease of one server in one step, and gives
\* it back once.
THEOREM CallsImplementPool == PPSpec => ImplementsPool
<1>1. PPInit => Pool!PoolInit
  BY PoolInitially DEF PPInit
<1>2. GroupInv /\ [PPNext]_ppvars => [Pool!PoolNext]_(Pool!pool)
  BY GroupStays, GroupTakesStep, PoolStep DEF GroupInv, PPTypeOK
<1> QED BY <1>1, <1>2, GroupSafety, PTL DEF PPSpec, ImplementsPool, Pool!PoolSpec
=============================================================================
