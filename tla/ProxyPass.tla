------------------------------ MODULE ProxyPass ------------------------------
(***************************************************************************)
(* proxy_pass, proxy_pass_to and exchange_data (proxy.rs): the steps of an *)
(* exchange with a server, what may end each of them, and which of the     *)
(* ends the upstream group hears of.  A call of Upstream goes through      *)
(* these phases while it is "held"; a direct call names its server in the  *)
(* proxy directive and belongs to no group.                                *)
(*                                                                         *)
(* The timeouts have no clock here.  A timer may fire at any moment of     *)
(* what it covers, and fires at last if that does not end otherwise: a     *)
(* whole phase up to the header of the response, one read of its body.     *)
(***************************************************************************)
EXTENDS Upstream

CONSTANTS
  DirectCalls,  \* calls whose uri names no upstream
  Https,        \* the calls, of either kind, whose uri has scheme https
  MaxReads      \* bound: reads that a body of a known length, or a chunk, takes

AllCalls == Calls \cup DirectCalls

CallKindsAssumption ==
  Calls \cap DirectCalls = {} /\ Https \subseteq AllCalls /\ MaxReads \in Nat \ {0}
ASSUME CallKindsAssumption

VARIABLES
  phase,   \* call -> the step of its exchange
  reads,   \* call -> reads that its response body, or the chunk of it, still takes
  result   \* call -> how the exchange ended

ppvars == <<vars, phase, reads, result>>

Phases == {"none", "resolve", "build", "connect", "domain", "tls",
           "write", "header", "body", "chunks", "over"}

Results == {"none", "response", "short_response", "error", "var_error", "panic"}

PPInit ==
  /\ Init
  /\ phase = [c \in AllCalls |-> "none"]
  /\ reads = [c \in AllCalls |-> 0]
  /\ result = [c \in AllCalls |-> "none"]

-----------------------------------------------------------------------------
\* The call goes from one phase to another and nothing else happens.
Advance(c, from, to) ==
  /\ phase[c] = from
  /\ phase' = [phase EXCEPT ![c] = to]
  /\ UNCHANGED <<vars, result>>

\* Mutant: close_connection is not deferred, so a panic skips it.
EndWithoutDefer(c, from, outcome) ==
  /\ phase[c] = from
  /\ phase' = [phase EXCEPT ![c] = "over"]
  /\ result' = [result EXCEPT ![c] = outcome]
  /\ reads' = [reads EXCEPT ![c] = 0]
  /\ IF c \in DirectCalls \/ outcome = "panic" THEN UNCHANGED vars
     ELSE IF outcome = "error" THEN FailExchange(c)
     ELSE EndExchange(c)

\* Mutant: a bad variable counts as a failure of the server.
EndBlamesServer(c, from, outcome) ==
  /\ phase[c] = from
  /\ phase' = [phase EXCEPT ![c] = "over"]
  /\ result' = [result EXCEPT ![c] = outcome]
  /\ reads' = [reads EXCEPT ![c] = 0]
  /\ IF c \in DirectCalls THEN UNCHANGED vars
     ELSE IF outcome \in {"error", "var_error"} THEN FailExchange(c)
     ELSE EndExchange(c)

\* Mutant: the guard closes the connection at once and the failure comes after.
EndClosesFirst(c, from, outcome) ==
  /\ phase[c] = from
  /\ phase' = [phase EXCEPT ![c] = "over"]
  /\ result' = [result EXCEPT ![c] = outcome]
  /\ reads' = [reads EXCEPT ![c] = 0]
  /\ IF c \in DirectCalls THEN UNCHANGED vars
     ELSE IF outcome = "error" /\ balancing = "LeastConnected"
     THEN /\ connection_counts' = [connection_counts EXCEPT ![server[c]] = Decrement(@)]
          /\ Goto(c, "failed")
          /\ UNCHANGED <<balancing, now, failures, next_server, current_server, attempts, scan, server>>
     ELSE EndExchange(c)

\* The exchange is over.  The socket is dropped with the frame of proxy_pass_to,
\* before the group hears of a failure and before close_connection.
End(c, from, outcome) ==
  /\ phase[c] = from
  /\ phase' = [phase EXCEPT ![c] = "over"]
  /\ result' = [result EXCEPT ![c] = outcome]
  /\ reads' = [reads EXCEPT ![c] = 0]
  /\ IF c \in DirectCalls THEN UNCHANGED vars
     ELSE IF outcome = "error" THEN FailExchange(c)
     ELSE EndExchange(c)

-----------------------------------------------------------------------------
\* get_server; the exchange begins when it returns.
BeginCall(c) ==
  /\ Arrive(c)
  /\ phase' = IF pc'[c] = "held" THEN [phase EXCEPT ![c] = "resolve"] ELSE phase
  /\ UNCHANGED <<reads, result>>

ChooseServer(c) ==
  /\ Choose(c)
  /\ phase' = IF pc'[c] = "held" THEN [phase EXCEPT ![c] = "resolve"] ELSE phase
  /\ UNCHANGED <<reads, result>>

BeginDirectCall(c) == Advance(c, "none", "resolve") /\ UNCHANGED reads

\* The variables in the name of the group's server; a direct call has none.
ResolveHost(c) ==
  \/ Advance(c, "resolve", "build") /\ UNCHANGED reads
  \/ c \in Calls /\ End(c, "resolve", "var_error")

\* replace_path_prefix panics when the request's path is shorter than the prefix.
BuildRequest(c) ==
  \/ Advance(c, "build", "connect") /\ UNCHANGED reads
  \/ End(c, "build", "panic")

Connected(c) == Advance(c, "connect", "domain") /\ UNCHANGED reads
ConnectFails(c) == End(c, "connect", "error")

\* The server's name is read after the connection is made, for TLS or not.
CheckDomain(c) ==
  \/ Advance(c, "domain", IF c \in Https THEN "tls" ELSE "write") /\ UNCHANGED reads
  \/ End(c, "domain", "error")

\* No timer covers the handshake.
Handshake(c) ==
  \/ Advance(c, "tls", "write") /\ UNCHANGED reads
  \/ End(c, "tls", "error")

RequestWritten(c) == Advance(c, "write", "header") /\ UNCHANGED reads
WriteFails(c) == End(c, "write", "error")

\* A response has a body of a known length (none if it is not stated) or comes
\* in chunks.
HeaderRead(c) ==
  \/ /\ Advance(c, "header", "body")
     /\ \E n \in 0 .. MaxReads : reads' = [reads EXCEPT ![c] = n]
  \/ Advance(c, "header", "chunks") /\ UNCHANGED reads
HeaderFails(c) == End(c, "header", "error")

InBody(c) == phase[c] \in {"body", "chunks"}

\* The timer of the body starts again with every read.
BodyRead(c) ==
  /\ InBody(c) /\ reads[c] > 0
  /\ reads' = [reads EXCEPT ![c] = @ - 1]
  /\ UNCHANGED <<vars, phase, result>>

\* Another chunk, or another line behind the last one.  Neither the chunks nor
\* those lines are counted: there is an end to them only if the server ends them.
NextPart(c) ==
  /\ phase[c] = "chunks" /\ reads[c] = 0
  /\ \E n \in 1 .. MaxReads : reads' = [reads EXCEPT ![c] = n]
  /\ UNCHANGED <<vars, phase, result>>

\* The empty line behind the last chunk.
LastPart(c) == reads[c] = 0 /\ End(c, "chunks", "response")

\* The server closes early: what there is of the body is returned, with no error.
BodyEndsEarly(c) ==
  \/ reads[c] > 0 /\ End(c, "body", "short_response")
  \/ End(c, "chunks", "short_response")

\* A read fails or takes too long, or a chunk's length is not a number.
BodyFails(c) ==
  \/ reads[c] > 0 /\ End(c, "body", "error")
  \/ End(c, "chunks", "error")

BodyComplete(c) == reads[c] = 0 /\ End(c, "body", "response")

Close(c) == Release(c) /\ UNCHANGED <<phase, reads, result>>

-----------------------------------------------------------------------------
\* Mutant: no timer covers the header of the response.
TimerFiresExceptHeader(c) == ConnectFails(c) \/ WriteFails(c) \/ BodyFails(c)

\* A timer fires; for the code this is one more way for the exchange to fail.
TimerFires(c) ==
  \/ ConnectFails(c)
  \/ WriteFails(c)
  \/ HeaderFails(c)
  \/ BodyFails(c)

\* What depends on the server at the other end.
ServerActs(c) ==
  \/ Connected(c) \/ Handshake(c) \/ RequestWritten(c)
  \/ HeaderRead(c) \/ BodyRead(c) \/ NextPart(c) \/ LastPart(c) \/ BodyEndsEarly(c)

\* What the call does by itself.
LocalStep(c) ==
  \/ ResolveHost(c) \/ BuildRequest(c) \/ CheckDomain(c) \/ BodyComplete(c)

GroupStep(c) == ChooseServer(c) \/ Close(c)

Over == /\ \A c \in Calls : pc[c] = "done"
        /\ \A c \in DirectCalls : phase[c] = "over"
        /\ UNCHANGED ppvars

PPNext ==
  \/ \E c \in Calls : BeginCall(c) \/ GroupStep(c)
  \/ \E c \in DirectCalls : BeginDirectCall(c)
  \/ \E c \in AllCalls : LocalStep(c) \/ ServerActs(c) \/ TimerFires(c)
  \/ Tick /\ UNCHANGED <<phase, reads, result>>
  \/ Over

\* The timer of a phase, or of the read that leaves n more to come: a body that
\* goes on is read under one timer after the other.
TimerOfRead(c, n) == reads[c] = n /\ TimerFires(c)

\* Tasks are scheduled and timers fire; servers need never answer.
PPFairness ==
  /\ \A c \in Calls : WF_ppvars(ChooseServer(c)) /\ WF_ppvars(Close(c))
  /\ \A c \in AllCalls :
       /\ WF_ppvars(LocalStep(c))
       /\ \A n \in 0 .. MaxReads : WF_ppvars(TimerOfRead(c, n))

PPSpec == PPInit /\ [][PPNext]_ppvars /\ PPFairness

-----------------------------------------------------------------------------
\* Types, and the phase of a call agrees with its place in the group.
PPTypeOK ==
  /\ TypeOK
  /\ phase \in [AllCalls -> Phases]
  /\ reads \in [AllCalls -> 0 .. MaxReads]
  /\ result \in [AllCalls -> Results]
  /\ \A c \in Calls : pc[c] = "held" <=> phase[c] \notin {"none", "over"}

\* The calls that have a connection to server s open.
OpenSockets(s) ==
  {c \in Calls : /\ server[c] = s
                 /\ phase[c] \in {"domain", "tls", "write", "header", "body", "chunks"}}

\* The count of least_conn is never below the sockets really open: a server is
\* charged before the connection is made and released after the socket is closed.
SocketsCounted ==
  balancing = "LeastConnected" =>
    \A s \in Server : Cardinality(OpenSockets(s)) <= connection_counts[s]

\* While nothing expires, the record of a server has one entry for every call
\* whose exchange with it failed, and none for a request that never left the
\* proxy (a bad variable, a panic) or whose body was cut short.
FailuresAreFailedExchanges ==
  FailTimeout >= MaxTime =>
    \A s \in Server :
      Len(failures[s]) =
        Cardinality({c \in Calls : /\ server[c] = s /\ result[c] = "error"
                                   /\ pc[c] \in {"closing", "done"}})

Started(c) == phase[c] # "none" \/ (c \in Calls /\ pc[c] # "start")
Ended(c) == IF c \in Calls THEN pc[c] = "done" ELSE phase[c] = "over"

\* The server sends chunks, or lines behind the last one, for ever.
Endless(c) == []<><<NextPart(c)>>_ppvars

\* A call to a plain http server ends, whether the server answers or not, unless
\* the server sends chunks, or lines behind the last one, for ever.
PlainCallsEnd == \A c \in AllCalls \ Https : (Started(c) ~> Ended(c)) \/ Endless(c)

\* Every call ends, to an https server too, but for such a response.
AllCallsEnd == \A c \in AllCalls : (Started(c) ~> Ended(c)) \/ Endless(c)

-----------------------------------------------------------------------------
(* The abstract specification, implemented by every balancer. *)

Lease(c) == IF Holding(c) THEN "holding" ELSE IF pc[c] = "done" THEN "over" ELSE "waiting"

\* least_conn keeps the load itself; the other balancers keep none.
Load(s) ==
  IF balancing = "LeastConnected" THEN connection_counts[s] ELSE Cardinality(Holders(s))

Pool == INSTANCE ConnectionPool
          WITH Clients <- Calls, Servers <- Server,
               lease <- [c \in Calls |-> Lease(c)],
               holds <- server,
               load <- [s \in Server |-> Load(s)]

\* Choosing, exchanging and releasing add up to a lease taken and given back once.
ImplementsPool == Pool!PoolSpec

\* The exchange in phases implements the exchange the group is modelled with.
ImplementsUpstream == Spec
=============================================================================
