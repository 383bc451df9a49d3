----------------------------- MODULE Connection -----------------------------
(***************************************************************************)
(* process_connection (process.rs): what becomes of one accepted           *)
(* connection.  A request is read, the server its Host names is chosen and *)
(* in it the route its path matches, a response is constructed from the    *)
(* route, and written.  An error on the way is answered with the error     *)
(* page of the server, itself constructed from a route, or with an empty   *)
(* response.  A connection serves one request.                             *)
(*                                                                         *)
(* A path is the sequence of its segments, the leading slash being one, so *)
(* that the path of Request::empty is shorter than every other.            *)
(***************************************************************************)
EXTENDS Routes, FiniteSets

CONSTANTS
  Conns,      \* the connections
  Listeners,  \* the ip and port pairs the program listens on
  Group,      \* listener -> its ServerGroup: servers and default; and whether it has TLS
  Requests,   \* what clients may ask for
  Disks,      \* the file systems: functions on pairs of a file and the rest of a path
  MaxReads    \* bound: reads that the body, or a chunk of it, takes

\* The default server of a group is one of its servers (Startup, ServersAreGrouped).
GroupAssumption ==
  /\ MaxReads \in Nat
  /\ \A r \in Requests : Len(r.path) \in Nat
  /\ \A g \in Listeners :
       /\ Len(Group[g].servers) \in Nat /\ Group[g].default \in 1 .. Len(Group[g].servers)
       /\ \A v \in 1 .. Len(Group[g].servers) :
            LET routes == Group[g].servers[v].routes IN
            /\ Len(routes) \in Nat
            /\ \A r \in 1 .. Len(routes) :
                 Len(routes[r].uri) \in Nat /\ Len(routes[r].files) \in Nat /\ routes[r].status \in Nat
ASSUME GroupAssumption

\* A Host header is missing, or nothing could be read (Request::empty).
NoHost == "no host"
EmptyRequest == [host |-> NoHost, path |-> <<>>, chunked |-> FALSE]

NoResponse == [status |-> 0, file |-> 0]

VARIABLES
  disk,      \* the file system
  stage,     \* connection -> where its task is
  via,       \* connection -> the listener that accepts it
  request,   \* connection -> local request
  left,      \* connection -> reads still to come of its body or chunk
  vhost,     \* connection -> index of local server
  error,     \* connection -> the status given to write_error, 0 before
  matched,   \* connection -> index of the route a response is constructed from
  tries,     \* connection -> calls of construct_response
  response,  \* connection -> the response constructed
  answered   \* connection -> the response was written

cvars == <<disk, stage, via, request, left, vhost, error, matched, tries, response, answered>>

Stages ==
  {"waiting", "tls", "header", "body", "route", "page", "construct", "proxying",
   "writing", "shutdown", "closed", "panicked", "aborted"}

ConnInit ==
  /\ disk \in Disks
  /\ stage = [c \in Conns |-> "waiting"]
  /\ via \in [Conns -> Listeners]
  /\ request = [c \in Conns |-> EmptyRequest]
  /\ left = [c \in Conns |-> 0]
  /\ vhost = [c \in Conns |-> 0]
  /\ error = [c \in Conns |-> 0]
  /\ matched = [c \in Conns |-> 0]
  /\ tries = [c \in Conns |-> 0]
  /\ response = [c \in Conns |-> NoResponse]
  /\ answered = [c \in Conns |-> FALSE]

Servers(c) == Group[via[c]].servers
Server(c) == Servers(c)[vhost[c]]
Route(c) == Server(c).routes[matched[c]]

Enter(c, s) == stage' = [stage EXCEPT ![c] = s]

-----------------------------------------------------------------------------
(* parse_request *)

HeaderRead(c) ==
  /\ stage[c] = "header"
  /\ \E r \in Requests, n \in 0 .. MaxReads :
       /\ request' = [request EXCEPT ![c] = r]
       /\ left' = [left EXCEPT ![c] = n]
  /\ Enter(c, "body")
  /\ UNCHANGED <<disk, via, vhost, error, matched, tries, response, answered>>

\* parse_uri slices behind the end of a query that no fragment follows.
ParsePanics(c) ==
  /\ stage[c] = "header"
  /\ Enter(c, "panicked")
  /\ UNCHANGED <<disk, via, request, left, vhost, error, matched, tries, response, answered>>

BodyRead(c) ==
  /\ stage[c] = "body" /\ left[c] > 0
  /\ left' = [left EXCEPT ![c] = @ - 1]
  /\ UNCHANGED <<disk, stage, via, request, vhost, error, matched, tries, response, answered>>

\* Another chunk follows; there is no limit to their number.
NextChunk(c) ==
  /\ stage[c] = "body" /\ left[c] = 0 /\ request[c].chunked
  /\ left' = [left EXCEPT ![c] = MaxReads]
  /\ UNCHANGED <<disk, stage, via, request, vhost, error, matched, tries, response, answered>>

\* A body that is cut short is taken for a whole one.
BodyEnds(c) ==
  /\ stage[c] = "body"
  /\ left' = [left EXCEPT ![c] = 0]
  /\ Enter(c, "route")
  /\ UNCHANGED <<disk, via, request, vhost, error, matched, tries, response, answered>>

\* The request cannot be read, or not in time.  It is forgotten, and answered
\* by the default server.
RequestFails(c, status) ==
  /\ stage[c] \in {"header", "body"}
  /\ request' = [request EXCEPT ![c] = EmptyRequest]
  /\ left' = [left EXCEPT ![c] = 0]
  /\ vhost' = [vhost EXCEPT ![c] = Group[via[c]].default]
  /\ error' = [error EXCEPT ![c] = status]
  /\ Enter(c, "page")
  /\ UNCHANGED <<disk, via, matched, tries, response, answered>>

-----------------------------------------------------------------------------
(* The server and the route of a request, and of an error page *)

\* The first server of the group that lists the host, else the default one.
Vhost(c) ==
  LET named == {v \in 1 .. Len(Servers(c)) : request[c].host \in Servers(c)[v].domains}
  IN  IF named = {} THEN Group[via[c]].default ELSE CHOOSE v \in named : \A w \in named : v <= w

SearchPanics(server) == \E r \in 1 .. Len(server.routes) : IsBroken(server.routes[r])

\* construct_response is called for route r.
Match(c, r) ==
  /\ matched' = [matched EXCEPT ![c] = r]
  /\ tries' = [tries EXCEPT ![c] = @ + 1]
  /\ Enter(c, "construct")

\* Mutant: the routes searched are those of the default server.
RouteRequestInDefault(c) ==
  LET server == Servers(c)[Group[via[c]].default]
      r == MatchingRoute(server.routes, request[c].path)
  IN
  /\ stage[c] = "route"
  /\ vhost' = [vhost EXCEPT ![c] = Vhost(c)]
  /\ \/ /\ request[c].host = NoHost \/ SearchPanics(server)
        /\ Enter(c, "panicked")
        /\ UNCHANGED <<error, matched, tries>>
     \/ /\ request[c].host # NoHost /\ ~SearchPanics(server) /\ r = 0
        /\ error' = [error EXCEPT ![c] = 404]
        /\ Enter(c, "page")
        /\ UNCHANGED <<matched, tries>>
     \/ /\ request[c].host # NoHost /\ ~SearchPanics(server) /\ r # 0
        /\ Match(c, r)
        /\ UNCHANGED error
  /\ UNCHANGED <<disk, via, request, left, response, answered>>

\* get_host panics without a Host, and the search panics on a bad regular
\* expression: the task dies and the socket is dropped unanswered.
RouteRequest(c) ==
  LET server == Servers(c)[Vhost(c)]
      r == MatchingRoute(server.routes, request[c].path)
  IN
  /\ stage[c] = "route"
  /\ vhost' = [vhost EXCEPT ![c] = Vhost(c)]
  /\ \/ /\ request[c].host = NoHost \/ SearchPanics(server)
        /\ Enter(c, "panicked")
        /\ UNCHANGED <<error, matched, tries>>
     \/ /\ request[c].host # NoHost /\ ~SearchPanics(server) /\ r = 0
        /\ error' = [error EXCEPT ![c] = 404]
        /\ Enter(c, "page")
        /\ UNCHANGED <<matched, tries>>
     \/ /\ request[c].host # NoHost /\ ~SearchPanics(server) /\ r # 0
        /\ Match(c, r)
        /\ UNCHANGED error
  /\ UNCHANGED <<disk, via, request, left, response, answered>>

\* The response that answers an error when its page fails.
EmptyResponse(c) == [status |-> error[c], file |-> 0]

\* The route of the error page is that of its path; its response will be
\* constructed for the request that failed.
FindErrorPage(c) ==
  LET pages == Server(c).error_pages
      r == MatchingRoute(Server(c).routes, pages[error[c]])
  IN
  /\ stage[c] = "page"
  /\ \/ /\ error[c] \in DOMAIN pages /\ SearchPanics(Server(c))
        /\ Enter(c, "panicked")
        /\ UNCHANGED <<matched, tries, response>>
     \/ /\ error[c] \in DOMAIN pages => ~SearchPanics(Server(c)) /\ r = 0
        /\ response' = [response EXCEPT ![c] = EmptyResponse(c)]
        /\ Enter(c, "writing")
        /\ UNCHANGED <<matched, tries>>
     \/ /\ error[c] \in DOMAIN pages /\ ~SearchPanics(Server(c)) /\ r # 0
        /\ Match(c, r)
        /\ UNCHANGED response
  /\ UNCHANGED <<disk, via, request, left, vhost, error, answered>>

-----------------------------------------------------------------------------
(* What construct_response may come to, and what its caller does then *)

\* An error page that says 200 is sent with the status of the error; one that says
\* otherwise, be it another success, is sent as it is.
PageStatus(c, status) == IF error[c] # 0 /\ status = 200 THEN error[c] ELSE status

Respond(c, status, file) ==
  /\ response' = [response EXCEPT ![c] = [status |-> PageStatus(c, status), file |-> file]]
  /\ Enter(c, "writing")
  /\ UNCHANGED error

\* Mutant: the failure of an error page is an error with a page of its own.
FailAgain(c, status) ==
  /\ error' = [error EXCEPT ![c] = status]
  /\ Enter(c, "page")
  /\ UNCHANGED response

\* The first failure is answered with an error page, that of an error page with
\* an empty response.
Fail(c, status) ==
  \/ /\ error[c] = 0
     /\ error' = [error EXCEPT ![c] = status]
     /\ Enter(c, "page")
     /\ UNCHANGED response
  \/ /\ error[c] # 0
     /\ response' = [response EXCEPT ![c] = EmptyResponse(c)]
     /\ Enter(c, "writing")
     /\ UNCHANGED error

Panic(c) == Enter(c, "panicked") /\ UNCHANGED <<error, response>>

\* What is wrong with a route: a template with an unknown variable, which fails, a uri
\* that panics its parser, or an upstream group without a server.
BadTemplate(c, template) == Route(c).bad = template

Constructing(c, content) ==
  /\ stage[c] = "construct"
  /\ Route(c).content = content
  /\ ~BadTemplate(c, "headers")
  /\ UNCHANGED <<disk, via, request, left, vhost, matched, tries, answered>>

StatusOr(c, status) == IF Route(c).status = 0 THEN status ELSE Route(c).status

\* The default type is looked at when the file's name does not tell its type.
RespondWithFile(c, status, file) ==
  \/ Respond(c, status, file)
  \/ BadTemplate(c, "content_type") /\ Fail(c, 500)

\* read_file: "data", "absent" or "io_error".
Look(file, rest) == IF <<file, rest>> \in DOMAIN disk THEN disk[<<file, rest>>] ELSE "absent"

-----------------------------------------------------------------------------
(* construct_response, one action for each kind of content *)

HeadersFail(c) ==
  /\ stage[c] = "construct" /\ BadTemplate(c, "headers")
  /\ Fail(c, 500)
  /\ UNCHANGED <<disk, via, request, left, vhost, matched, tries, answered>>

\* No content is named: the file at the request's path, or a bare status.
ServePath(c) ==
  LET status == Route(c).status
      file == Look("cwd", request[c].path)
  IN
  /\ Constructing(c, "None")
  /\ \/ status \notin {0, 200} /\ Respond(c, status, 0)
     \/ status \in {0, 200} /\ file = "data" /\ RespondWithFile(c, 200, 1)
     \/ status \in {0, 200} /\ file = "io_error" /\ Fail(c, 500)
     \/ status = 200 /\ file = "absent" /\ Respond(c, 200, 0)
     \/ status = 0 /\ file = "absent" /\ Fail(c, 404)

ServeNoContent(c) == Constructing(c, "NoContent") /\ Respond(c, StatusOr(c, 200), 0)

ServeBody(c) ==
  /\ Constructing(c, "RawData")
  /\ IF BadTemplate(c, "content") \/ BadTemplate(c, "content_type")
     THEN Fail(c, 500)
     ELSE Respond(c, StatusOr(c, 200), 0)

ServeRedirect(c) ==
  /\ Constructing(c, "Redirect")
  /\ IF BadTemplate(c, "content") THEN Fail(c, 500) ELSE Respond(c, StatusOr(c, 308), 0)

PastPrefix(c) == SubSeq(request[c].path, MatchedPrefixLen(Route(c)) + 1, Len(request[c].path))

\* Mutant: the slice begins behind the slash that follows the prefix.
PrefixTooLongPastSlash(c) == MatchedPrefixLen(Route(c)) >= Len(request[c].path)

PrefixTooLong(c) == MatchedPrefixLen(Route(c)) > Len(request[c].path)

\* All the files are read; one that exists replaces the one before it.  The path
\* is sliced behind the first file's name, which panics past its end.
ServeFiles(c) ==
  LET files == Route(c).files
      Is(k, what) == Look(files[k], PastPrefix(c)) = what
      exist == {k \in 1 .. Len(files) : Is(k, "data")}
      last == CHOOSE k \in exist : \A j \in exist : j <= k
  IN
  /\ Constructing(c, "FileAny")
  /\ \/ BadTemplate(c, "content") /\ Fail(c, 500)
     \/ ~BadTemplate(c, "content") /\ files # <<>> /\ PrefixTooLong(c) /\ Panic(c)
     \/ /\ ~BadTemplate(c, "content") /\ (files # <<>> => ~PrefixTooLong(c))
        /\ \/ (\E k \in 1 .. Len(files) : Is(k, "io_error")) /\ Fail(c, 500)
           \/ /\ \A k \in 1 .. Len(files) : ~Is(k, "io_error")
              /\ \/ exist = {} /\ Fail(c, 404)
                 \/ exist # {} /\ RespondWithFile(c, StatusOr(c, 200), last)

\* A bad template, or a uri that cannot be parsed, or that panics the parser.
BeginProxy(c) ==
  /\ Constructing(c, "Proxy")
  /\ \/ BadTemplate(c, "content") /\ Fail(c, 500)
     \/ BadTemplate(c, "uri") /\ Panic(c)
     \/ ~BadTemplate(c, "content") /\ ~BadTemplate(c, "uri")
        /\ Enter(c, "proxying") /\ UNCHANGED <<error, response>>

\* proxy_pass returns a response or an error; get_server panics when the group has no
\* server, replace_path_prefix when the path is shorter than the prefix.
EndProxy(c) ==
  /\ stage[c] = "proxying"
  /\ \/ BadTemplate(c, "group") /\ Panic(c)
     \/ ~BadTemplate(c, "group") /\ \E status \in {200, 404} : RespondWithFile(c, status, 0)
     \/ ~BadTemplate(c, "group") /\ Fail(c, 500)
     \/ PrefixTooLong(c) /\ Panic(c)
  /\ UNCHANGED <<disk, via, request, left, vhost, matched, tries, answered>>

Construct(c) ==
  \/ HeadersFail(c) \/ ServePath(c) \/ ServeNoContent(c) \/ ServeBody(c)
  \/ ServeRedirect(c) \/ ServeFiles(c) \/ BeginProxy(c)

-----------------------------------------------------------------------------
(* write_response and the end of the connection *)

ResponseWritten(c) ==
  /\ stage[c] = "writing"
  /\ answered' = [answered EXCEPT ![c] = TRUE]
  /\ Enter(c, "shutdown")
  /\ UNCHANGED <<disk, via, request, left, vhost, error, matched, tries, response>>

\* The client is gone, or does not read in time.
WriteFails(c) ==
  /\ stage[c] = "writing"
  /\ Enter(c, "shutdown")
  /\ UNCHANGED <<disk, via, request, left, vhost, error, matched, tries, response, answered>>

\* The end of TLS is written to the socket without a timer, and waits for a client
\* that does not read.
Shutdown(c) ==
  /\ stage[c] = "shutdown"
  /\ Enter(c, "closed")
  /\ UNCHANGED <<disk, via, request, left, vhost, error, matched, tries, response, answered>>

\* What a connection does without waiting for anyone.
Proceed(c) ==
  \/ RouteRequest(c) \/ FindErrorPage(c) \/ Construct(c)
  \/ ~Group[via[c]].tls /\ Shutdown(c)

ClientActs(c) ==
  \/ HeaderRead(c) \/ ParsePanics(c) \/ BodyRead(c) \/ NextChunk(c) \/ BodyEnds(c)
  \/ RequestFails(c, 400) \/ RequestFails(c, 501)
  \/ ResponseWritten(c)
  \/ Group[via[c]].tls /\ Shutdown(c)

\* Mutant: no timer covers the header.
TimerFiresExceptHeader(c) == (stage[c] = "body" /\ RequestFails(c, 408)) \/ WriteFails(c)

\* header_timeout, body_timeout or send_timeout.
TimerFires(c) == RequestFails(c, 408) \/ WriteFails(c)

ConnStep(c) == Proceed(c) \/ ClientActs(c) \/ TimerFires(c) \/ EndProxy(c)

\* Tasks are scheduled and timers fire.  The timer of the body starts again with
\* each read.  A proxied exchange need not end: no timer covers the handshake with an
\* https server, and there may be no end to a response in chunks (ProxyPass).
ConnFairness ==
  \A c \in Conns :
    /\ WF_cvars(Proceed(c))
    /\ WF_cvars(stage[c] # "body" /\ TimerFires(c))
    /\ \A n \in 0 .. MaxReads : WF_cvars(stage[c] = "body" /\ left[c] = n /\ TimerFires(c))
=============================================================================
