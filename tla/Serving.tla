------------------------------- MODULE Serving -------------------------------
(***************************************************************************)
(* main and handle_ip_port (main.rs): a task for every listener that binds *)
(* its address and accepts, a task for every connection it accepts, and    *)
(* the end of the program when no listener is left.                        *)
(***************************************************************************)
EXTENDS Connection

VARIABLES
  listener,  \* listener -> "starting", "listening" or "ended"
  exited     \* main has returned

svars == <<cvars, listener, exited>>

ServingInit ==
  /\ ConnInit
  /\ listener = [g \in Listeners |-> "starting"]
  /\ exited = FALSE

-----------------------------------------------------------------------------
\* The certificates are read and the address is bound.
Start(g) ==
  /\ listener[g] = "starting"
  /\ listener' = [listener EXCEPT ![g] = "listening"]
  /\ UNCHANGED <<cvars, exited>>

\* A start that fails, or an error of accept, ends the listener for good; its
\* connections are tasks of their own.
End(g) ==
  /\ listener[g] # "ended" /\ ~exited
  /\ listener' = [listener EXCEPT ![g] = "ended"]
  /\ UNCHANGED <<cvars, exited>>

Accept(c) ==
  /\ stage[c] = "waiting" /\ listener[via[c]] = "listening"
  /\ Enter(c, IF Group[via[c]].tls THEN "tls" ELSE "header")
  /\ UNCHANGED <<disk, via, request, left, vhost, error, matched, tries, response, answered>>
  /\ UNCHANGED <<listener, exited>>

\* No timer covers the handshake.
TlsAccept(c) ==
  /\ stage[c] = "tls"
  /\ Enter(c, "header") \/ Enter(c, "closed")
  /\ UNCHANGED <<disk, via, request, left, vhost, error, matched, tries, response, answered>>
  /\ UNCHANGED <<listener, exited>>

Ended(c) == stage[c] \in {"closed", "panicked", "aborted"}

\* join_all returns when every listener has ended, and main with it: the runtime
\* drops the tasks of the connections that are still open.
Exit ==
  /\ ~exited /\ \A g \in Listeners : listener[g] = "ended"
  /\ exited' = TRUE
  /\ stage' = [c \in Conns |-> IF Ended(c) \/ stage[c] = "waiting" THEN stage[c] ELSE "aborted"]
  /\ UNCHANGED <<disk, via, request, left, vhost, error, matched, tries, response, answered, listener>>

Exited == exited /\ UNCHANGED svars

ServingNext ==
  \/ \E g \in Listeners : Start(g) \/ End(g)
  \/ \E c \in Conns : Accept(c) \/ TlsAccept(c) \/ (ConnStep(c) /\ UNCHANGED <<listener, exited>>)
  \/ Exit
  \/ Exited

ServingSpec == ServingInit /\ [][ServingNext]_svars /\ ConnFairness

-----------------------------------------------------------------------------
\* Every variable has its type, and the indices are of servers and routes there are.
ServingTypeOK ==
  /\ disk \in Disks
  /\ stage \in [Conns -> Stages]
  /\ via \in [Conns -> Listeners]
  /\ request \in [Conns -> Requests \cup {EmptyRequest}]
  /\ left \in [Conns -> 0 .. MaxReads]
  /\ \A c \in Conns :
       /\ vhost[c] \in 0 .. Len(Servers(c))
       /\ stage[c] \in {"page", "construct", "proxying", "writing"} => vhost[c] # 0
       /\ stage[c] \in {"construct", "proxying"} => matched[c] \in 1 .. Len(Server(c).routes)
  /\ error \in [Conns -> {0, 400, 404, 408, 500, 501}]
  /\ tries \in [Conns -> Nat]
  /\ response \in [Conns -> [status : Nat, file : Nat]]
  /\ answered \in [Conns -> BOOLEAN]
  /\ listener \in [Listeners -> {"starting", "listening", "ended"}]
  /\ exited \in BOOLEAN

\* A request without an error dies only of a missing Host, a uri the parser cannot
\* take, a bad regular expression in its server, or an empty group: the slice of its path behind
\* the matched prefix is in range, the route having been matched by this very path.
RequestsDieOnlyOf ==
  \A c \in Conns :
    stage[c] = "panicked" /\ error[c] = 0 =>
      \/ request[c].host = NoHost
      \/ SearchPanics(Server(c))
      \/ matched[c] # 0 /\ Route(c).bad \in {"uri", "group"}

\* docs/index.md: an error is answered, with the page at the path of error_page
\* or an empty response.
ErrorsAreAnswered == \A c \in Conns : stage[c] = "panicked" => error[c] = 0

\* No request is worked on more than twice: an error page that fails has no
\* error page, so that a request costs at most two proxied exchanges.
AtMostTwoTries == \A c \in Conns : tries[c] <= 2

\* What may keep a connection for ever: chunks of its request without end, an
\* exchange with a server that never returns (a handshake that is not answered, a
\* response in chunks without end), a client that does not take the end of TLS.
Kept(c) ==
  \/ []<><<NextChunk(c)>>_svars
  \/ <>[](stage[c] = "proxying")
  \/ <>[](stage[c] = "shutdown" /\ Group[via[c]].tls)

\* A connection whose request was begun ends, whatever its client does or leaves
\* undone and however often its request fails, unless it is kept in one of the
\* three ways: it serves one request, and the rest is under a timer or waits for none.
ConnectionsEnd == \A c \in Conns : (stage[c] = "header" ~> Ended(c)) \/ Kept(c)
=============================================================================
