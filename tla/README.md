# A verification of jjinx

jjinx is a small web server and reverse proxy in Rust: it reads a configuration in the style of
nginx, listens on the addresses it names, and answers each connection with a file, a fixed body, a
redirect or the response of another server, which it may choose from a group of upstream servers.
This directory holds TLA+ models of it, the TLC runs that check them on small instances, and
proofs, checked by TLAPS, of what matters most for every instance.

## The system

| Part | Source | State | Operations |
|---|---|---|---|
| Upstream group | `src/proxy.rs` 39-195 | the turn of the round robin (`AtomicUsize`), a count per server (`AtomicU32`), a record of failures per server (`Mutex<VecDeque<Instant>>`), the limits | `get_server` (three balancers), `update_failures`, `add_failure`, `close_connection` |
| Proxied exchange | `src/proxy.rs` 197-353 | one call: its server, its socket, the phase it waits in | `proxy_pass`, `proxy_pass_to`, `exchange_data` |
| Route search | `src/route_matching.rs` | the best match of each class so far | `find_matching_route` |
| Connection | `src/process.rs` | request, virtual server, route, response, error | `process_connection`, `construct_response`, `construct_error_page`, `write_error` |
| Listeners, program | `src/main.rs` | a task per address, a task per connection | `handle_ip_port`, `main` |
| HTTP messages | `src/http/` | reader position, headers, body | `parse_request`, `parse_response`, `parse_headers`, `parse_body`, `write_request`, `write_response` |
| Configuration | `src/config/` | the tree of servers, routes and groups being built | tokenizer, one function for each block |
| Uris | `src/uri.rs` | one text and offsets into it | `parse_uri`, `replace_path_prefix` |
| Variables | `src/vars.rs` | none | `replace_static_vars`, `replace_dynamic_vars` |
| TLS | `src/tls.rs` | certificates by name | `make_acceptor`, `make_connector` |

How they interact: `main` parses the configuration, makes the upstream groups and spawns a task for
every listener.  A listener spawns a task for every connection, which calls the parts below it one
after another.  The connections share nothing that changes except the upstream groups, which they
reach through an `Arc`: that is where the concurrency is.  All waiting is for the peers (the client,
the server behind the proxy), under timers that cover most of it.

What is hard here, and what would make each part correct:

* **Upstream groups**: calls race on atomics without a lock.  No turn is lost, a count is the number
  of open exchanges on every way out, a failed server is avoided, a least loaded one chosen.  The
  record is pruned lazily and must still answer for the whole window of time.
* **Exchange**: each phase may fail, time out or never end.  What was acquired is released once, the
  right ends count as failures, and the call ends although its server need do nothing (a body in chunks
  is the exception: the server may send chunks for ever).
* **Route search**: one pass with three best-so-far values must give the documented priority.
* **Connection**: errors are answered by error pages that are themselves requests of a kind and may
  fail, panic or time out.  Work is bounded, and a connection ends unless a peer keeps it where no timer is.
* **Listeners**: one may fail and must not take the others' connections with it.
* **Messages**: bytes come in any fragments and may stop anywhere.  Bodies are read whole and sent on
  with a framing that fits.
* **Configuration**: a pass over characters in buffers that end anywhere, then one over directives, with
  variables in nested scopes and content that may be given in parts.  What is built is what the text
  says, the default server of an address is one of its servers, and the parser ends.
* **Uris**: offsets kept in step with a text that shrinks while its dots are resolved, and changes
  again when a request is sent on.  Each part stays the text it was.
* **Certificates**: chosen by name before the request is read, they are to be those of the server that
  answers it.

## The modules

| Module | Models | |
|---|---|---|
| `Upstream` | one group and the calls on it | one action for each atomic access and for each critical section |
| `UpstreamHistory` | nothing of the code | history variables over `Upstream`: turns handed out, all failures, which servers were good or bad during a whole choice |
| `ConnectionPool` | nothing of the code | what a group promises: a lease taken in one step and given back once |
| `ProxyPass` | an exchange, composed with `Upstream` | extends `Upstream`: the phases while a call is "held", and direct calls, which have no group |
| `Routes` | the routes and what matching means | the search in one line, used by `RouteMatching` (implemented) and `Connection` (called) |
| `RouteMatching` | the search as the code's loop | |
| `Connection` | `process_connection` | one action for each step with an outcome of its own, one for each kind of content |
| `Serving` | `main` and `handle_ip_port`, composed with `Connection` | listeners, TLS accept, the end of the program |
| `Relay` | a message read and passed on | the bytes, in any fragments |
| `Tokenizer` | `next_token` and its reader | one action for each mode; buffers of any length |
| `ConfigParse` | `parse_config` and a function for each block | one action for each directive, or group of directives treated alike |
| `ConfigMeaning` | nothing of the code | what the text of a configuration means, said of braces and positions |
| `Startup` | the end of `parse_config`, `make_acceptor`, composed with `ConfigParse` | grouping by address, default servers, certificates |
| `Uris` | `parse_uri`, `replace_path_prefix` | one text and offsets into it |
| `ProxyProofs`, `RouteMatchingProofs`, `ServingProofs`, `RelayProofs`, `TokenizerProofs`, `StartupProofs`, `UrisProofs` | | theorems and proofs; `ProxyProofs` has those of `Upstream`, `UpstreamHistory` and `ProxyPass` |
| `NaturalLemmas` | | facts about natural numbers that the proofs share |
| `MC*` | | values of constants for TLC |

State and actions by name: the variables `next_server`, `connection_counts`, `failures` of `Upstream`
are the fields of `Balancer` and `Upstream`; `current_server`, `attempts`, `scan` are the locals of
`get_server`; `pc` says where a call is.  `LoadTurn`, `ClaimTurn`, `LoseRace` are the accesses of the
round robin loop, `CheckTurn` its `update_failures`; `ScanHealth`, `ScanCount`, `PickLeast` are the
accesses of the `least_conn` scan; `FailExchange`, `AddFailure`, `CloseConnection` the end of
`proxy_pass`.  In `Tokenizer`, `mode` and `token` are the locals of `next_token`, `SKIP` being the
loop of `skip_whitespace` before it.  In `ConfigParse`, `open` holds the server, route and group that
the nested functions build and `scopes` the maps they pass down; a function's return is `CloseRoute`,
`CloseServer` or `CloseUpstream`.  In `Uris`, `ends` has the fields of `Uri` by name, `rest` and `slash` are the locals
`str` and `last_slash`.  The definitions marked "Mutant" in their comment are plausible wrong versions of the definition that follows
them; no specification uses them.  Put in its place, each makes the property that PROJECT.json names with it
fail, which shows that the property can.

### What is abstracted

* *Memory and time.*  All atomics are `Relaxed`, and each counter is a single atomic that no other data
  hangs on, so interleaving of single accesses is enough.  A load in the model reads the latest
  value; a spurious failure of `compare_exchange_weak` changes nothing and is a stutter.  The
  failure records have a clock; timeouts have none: a timer may fire at any moment of what it covers, and
  fires at last if that does not end otherwise: a phase of an exchange or a connection up to its header, and one
  read of a body.  That covers every setting of the durations.
* *Data.*  Paths, uris and texts are sequences of segments; a regular expression is a literal text or
  is broken.  A start line and a header line are one symbol each, well- or ill-formed, and a body is a few bytes.  A template either expands or fails;
  which variables it has does not matter.  In the configuration a token is a text or one variable, not
  a mixture, and no variable has a brace for its value; the line break or brace that must follow a directive
  is no token of the model, but `missing` has the places where another token or the end of the file stands
  instead of it, and the parse fails there.  A character without a meaning of its own is "x"; an escape in a uri is one symbol, a port too.  The address hash of `ip_hash` picks any server.
* *Panics.*  A panic ends a task: `panicked` in `Connection`, `panic` in `ProxyPass`, where the deferred
  `close_connection` still runs.  No panic is possible inside a critical section, so the mutexes are
  never poisoned and the branches for that are left out.
* *Composition.*  `Connection` knows a proxied exchange by its ends, and does not assume that it ends:
  `EndProxy` has no fairness, and `ConnectionsEnd` makes exception of a connection that stays "proxying".  When
  an exchange does end is what `ProxyPass` shows (`PlainCallsEnd`): to a server without TLS, unless its
  response is in chunks without end.  `ProxyPass` has one exchange for a call;
  `AtMostTwoTries` shows that a connection makes at most two.
  `Startup` shows what `Serving` assumes of its groups (`GroupAssumption`): their default server exists.
  `Uris` shows when the parser panics, which `ParsePanics` and the bad uri of a route are.
* *Left out*: the contents of response headers, MIME types, log lines, the contents of certificates and
  `make_connector`, which loads those of the system.

## The runs

| Run | Configuration | What it shows |
|---|---|---|
| `balancing` | 4 calls, 2 servers, each balancer, times 0..2, u32 of 0..5 | `ConnectionsCounted`, `FailuresInOrder`, `TurnsEven`, `VerdictIsOfTheWindow`; that least_conn never prefers a server failed all along to one good all along (`LeastConnectedAvoidsFailed`); that the round robin does the same for a call that no other overtakes; that least_conn gives a server more loaded than another by no more than the counts that changed behind its scan |
| `proxying` | a plain and an https call on a group of 2 with round robin or least_conn, one direct call; bodies in chunks of one read, any number of them | sockets are covered by counts, failures are exactly the failed exchanges, plain calls end unless chunks come for ever, choosing ends; `ImplementsPool` and `ImplementsUpstream` are refinements |
| `routing` | tables of up to 3 routes over 4 uris, 4 paths | the loop computes `IsMatchingRoute`; the documented priority but for ties |
| `serving` | 1 connection, 2 listeners, 3 servers, 12 file systems | what a request dies of, two tries at most, connections end unless a peer keeps them where no timer is |
| `relaying` | 26 messages, every fragmentation and cut | whole bodies are read, responses framed (with chunks and a length besides: by that length), every message ends |
| `tokenizing` | every text of up to 4 characters of 8, longer ones of quotes and escapes, in every division into buffers | the tokens are those of the text; the reader never goes back; the tokenizer ends |
| `uris` | 8 beginnings, some 400 paths of up to 3 components, 4 ends, every replacement of a prefix by 2 others | a uri is its text with a normal path, its offsets those of its parts, before and after the replacement |
| `configuring` | 9463 files: routes of up to 3 lines, sets in every place, 3 servers on 2 addresses, groups, a file cut anywhere and lacking a line break or brace anywhere | variables end with their block, blocks are built as written, servers grouped, certificates fit, the parser ends |
| `round_robin_race`, `handshake_hang`, `error_pages`, `request_copy` | as small as shows it | each violates a sentence of the documentation, see below |

Why the bounds are enough: with two servers and four calls a call can be overtaken more often than it
has attempts, and every pair of scans can overlap; one failure is the limit that the code always has
(`max_fails` cannot be configured, see below) and a clock of three instants has an expired, an old and a
new failure.  Three routes hold one of each class that competes, or three of one class.  One
connection is enough in `serving` because connections share nothing there but the end of the
program; the calls that share a group are in `balancing`.  `MaxReads` is 1 in `proxying` and `serving`: a body is
empty, or a read of it is left when its peer goes away; a body in chunks takes as many reads as its peer likes, the number
being drawn again for every chunk.  `ip_hash`, which chooses in one step and counts nothing, is left to `balancing`.  A buffer of two bytes makes bodies smaller
than it, equal to it and split across it.  Four characters are a token, its end and a buffer's end on either side of both; an
escaped quote takes more, and the longer texts have it.  Three components are enough for two dots behind a
component, behind another pair of dots and behind an empty one.  Three servers have a first, a default
and a last one that differ, and three lines of a route a proxy between two headers, or behind both.

Fairness: `WF` of the steps of a task that wait for nothing (the runtime schedules every ready task),
and of timers where the code has one.  No fairness is assumed of clients, servers, the arrival of
calls, TLS handshakes or the clock, nor of the return of `proxy_pass` in `Connection`.  `body_timeout` starts again with each read, so its fairness is
stated for each number of reads that are left (`TimerOfRead`): a timer fires if the very read it covers does not end.  A body in
chunks has then no end that the proxy could force, and the liveness properties say so by name: `Endless` in
`PlainCallsEnd`, and `Kept` in `ConnectionsEnd`, which has the three ways to keep a connection for ever: chunks of its request
without end, an exchange that does not return (a TLS handshake without an answer, or chunks again), and a
TLS shutdown, which is written without a timer.
The tokenizer and the parser are sequential programs on a finite file: `WF` of their steps says that they
run.  `EveryCallGetsAServer` holds because every call makes finitely many claims: a call loses a race only to
one that succeeds.

Only `Finished`, `Over`, `Returned`, `Exited`, `Settled`, `TokDone`, `UriDone` and `StartupDone` let a specification stop where
the program has nothing left to do; deadlock is checked in all runs.

## What the documentation says otherwise

1. `round_robin_race`: a call of the round robin may be given a server over its limit of failures
   although another was usable all the time (docs/index.md:191-192).
2. `balancing` (`VerdictIsOfTheWindow`): a server is left out from `max_fails` failures on, where the
   documentation says above `max_fails` (`proxy.rs` 81, docs/index.md:191-192).
3. `handshake_hang`: `connect_timeout` does not cover the TLS handshake (docs/index.md:179).
4. `error_pages`: the response of an error page is constructed for the path of the failed request, and
   panics if that is shorter than the prefix of the page's route (docs/index.md:97).
5. `request_copy`: bodies may be sent in part, and chunked ones lose their framing (docs/index.md:153).

Seen while reading.  The models have these as the code does them, and the properties make exception of
them by name, but no run is about them:

* Two overlapping scans of `least_conn` choose the same server (`proxy.rs` 140, docs/index.md:173;
  `LeastConnectedIsLeastLoaded` bounds by how much its choice is off then).
* A response in chunks with a `Content-Length` besides goes to the client with that length and without the
  chunks, so the client waits for more, or loses what is over, when the two differ (`http/parse.rs` 135,
  `response_write.rs` 83; `FramedTwice`).
* A body in chunks is read for as long as the peer sends chunks, or lines behind the last (`http/parse.rs` 83-127), though
  `body_timeout` is said to be for the body (docs/index.md:188).
* An error page whose own response is a success other than 200 is sent with that status (`process.rs` 286).
* A response to `HEAD` with a `Content-Length` is waited for until `body_timeout`, and a response without a
  length loses its body (`http/parse.rs` 143-148).
* The last existing file of a `file` list is served, not the first (`process.rs` 186, docs/index.md:142).
* `^~` beats `=` for the same uri when declared later (`route_matching.rs` 33, docs/index.md:128).
* A configuration that ends inside a `file`, `domain` or `error_page` line is read for ever
  (`tokenizer.rs` 144).  The empty token `""` at the top level ends the configuration like the end of the file,
  silently.
* Variables in `domain`, the timeouts, the paths of certificates and the name of a group are not expanded.
* `proxy ""` counts as no proxy, and `proxy_header` alone makes a proxy to an empty uri.
* A second `upstream` of a name replaces the first.  A group without servers is accepted, and the first
  request to it panics (`proxy.rs` 98).
* Of servers that list the same name the first answers and the last shows its certificate; a name that none
  lists gets the certificate of the last server without names, or none, and the answer of the default
  server (`tls.rs` 78, `process.rs` 382).
* `..` above the root of a uri with a scheme or a host takes away the host; an escaped slash
  is decoded into the path and then looks like one of its own (`uri.rs` 96, 122).  Behind an empty scheme (`:/a`) the
  first slash of the path is lost: `last_slash` is zero until there is a slash, so the first one is taken for the second
  of a run (`uri.rs` 111, 132).  The proof of `UrisSayWhatTheyMean` asked for this exception; no run had met it.
* `replace_path_prefix` on a uri that is only a host puts the path before the host.
* A uri with a query and no fragment panics the parser (`uri.rs` 215).

In no model: `max_fails` and `fail_timeout` are documented (docs/index.md:190-195)
but the parser refuses them, so the limit is always 1 within 10 seconds; `$method` expands to the host (`vars.rs` 60); a `server` of an
upstream group without a port cannot be connected to.

## What is proved

For every number of servers and calls, every limit and duration, with
`NAssumption` (a group has a server), `CallsAssumption` (fewer calls at once than a u32 counts),
`LimitsAssumption` and `BalancingsAssumption`:

* `TypeCorrect`: `Spec => []TypeOK`.  The type invariant is inductive once it says that a scan is
  within the group where it is used.
* `ConnectionsAreCounted`: `Spec => []ConnectionsCounted`.  The invariant is `TypeOK`,
  `InArmOfBalancer` (a call inside `get_server` is in the arm of the group's balancer, which no action
  changes) and `ConnectionsCounted`.  A step moves at most one call into or out of `Holders(s)`, so
  the cardinality changes by one with the counter; `CallsAssumption` keeps it from wrapping.
* `FailuresAreInOrder`: pruning takes a prefix (`RemainingIsSuffix`), and what is appended is now.
* `VerdictsAreOfTheWindow`: `HSpec => []VerdictIsOfTheWindow`.  What is proved is the rule of the code (`Fit`: fewer than
  `max_fails` failures in the window), not the documentation's.  The invariant relates the record to
  the history: it is a suffix of it and what is missing has expired.  With both in order
  of time the unexpired ones are a suffix of either, and of the same length.
* `TurnsAreEven`: the invariant says how many turns each server has had in terms of `next_server`:
  servers before it are one turn ahead.
* `LeastConnectedPrefersUsable`, `LeastConnectedGivesLeastLoaded` and `QuietRoundRobinPrefersUsable`, three action
  properties of the step that gives a server.  Their invariant is `HistoryInv`, what a choice knows half way: each
  server that a scan has gone past and not taken was not usable all along, or had no fewer
  connections than the best so far, up to the changes since its count was read (`moves`); and a round robin that no other call takes a turn from has looked at as many
  servers in a row as it has made attempts, so that `N` of them are all.

The same with `CallKindsAssumption`, for an exchange composed with its group:

* `ExchangeTypeCorrect` and `ExchangeTakesGroupSteps`: `PPSpec => Init /\ [][Next]_vars`.  The second is the safety
  part of `ImplementsUpstream`; it carries every theorem about `Spec` over to `PPSpec`.
* `SocketsAreCounted`: a socket is open only in a phase in which its call holds its server, and the holders are
  what is counted.
* `FailuresAreOfExchanges`: the record of a server and the set of its failed exchanges grow by one in the same step.  The invariant
  says that the result of a call fits the place it is at, so that no exchange fails twice.
* `CallsImplementPool`: `PPSpec => ImplementsPool`, the refinement of `ConnectionPool`.  Each action is a take, a
  return or a stutter under the mapping; `LoadIsHolders` turns the counts into the sizes of the sets of leases.

For every set of tables of routes and every set of paths, with `TablesAssumption`:

* `MatchingRouteIsReturned`: the invariant says that after `i - 1` routes each of the three
  variables is the best of its class among those seen.
* `HighestMatcherWins`: follows from it, an exact match being as long as the path and so no shorter
  than a prefix.
* `RouteTypeCorrect`: the same invariant, and that what is returned is a place in the table, none or a panic.

For any number of connections, any listeners, servers, routes, error pages and file systems, with
`GroupAssumption` (a group has its default server; lengths are naturals; a status is one):

* `TwoTriesAtMost`, `DeathsHaveACause` and `ServingTypesCorrect` follow from one
  invariant, `ServingInv`.  Besides the types it says for each connection how far it has come (`Progress`):
  no error and no try before the request is routed, an error and at most one try when a page is looked for, and, while
  a response is constructed without an error, that its route matches the path of the request.  The last is
  what keeps the slice in process.rs:181 in range (`PrefixFits`), and it rests on `SearchReturns`: the search
  always has an answer, and the answer matches.  Nothing like it holds for the route of an error page, which is run `error_pages`.
* A step of one connection leaves the others alone (`OthersAreKept`), so each action is shown to keep the
  invariant of its own.

For every set of messages, of any length and number of chunks, and every division of them into pieces, with
`MessagesAssumption` and `FramingAssumption`:

* `WellFramedAreRead`, `BodiesAreRead`, `ResponsesAreFramed` and `RelayTypeCorrect`.  The invariant `RelayInv` says at which symbol
  of the message each mode of the parser stands, and what of the body it has by then: in a body with a length, the
  symbols from the empty line to where it stands (`LengthPlace`); in chunks, which end of line is still before it (`FirstPlace`, `TailPlace`).
* `FramingAssumption` says what a message may be: its head has a line that is none, or it ends in an empty line and
  is framed by a length, by chunks, or by the end of the connection.  Of a message with chunks it wants a first size, the end of the
  first chunk, and the empty line at the end; it says nothing of what is between.  A `Content-Length` may stand beside the chunks and
  say anything.  Whether the body is that of the message is claimed
  for messages of one chunk at most, as in the model-checked property.
* `ResponsesAreFramed` says of a response with both framings (`FramedTwice`) that it goes on with the body of its chunks and the length it
  came with, which is wrong when the two differ; of every other that the client gets the whole body.

For every text, of any length, and every division of it into buffers, with `TextsAssumption` (texts are sequences of
characters, of which the line break is one, since an escape may stand for it):

* `TokensAreReturned`: the tokens that `next_token` returns are those of the text, in order, and all of them when it ends
  without a bad escape.  The invariant `RestInv` says at every character that what was returned and what is to come (`Rest`) are the
  tokens of the text; `Rest` says for each mode what a word, a comment or a quotation half way still brings.  There is a lemma
  for each mode and each kind of character that says how `Rest` goes on (`RestOf...`).  That a backslash at the end of
  a run escapes the quote behind it exactly if the run is odd, wherever the run began, is `ClosingBehindEscape`.
* `TokenizerTypeCorrect`: the types, and in which mode which character is behind the loop (`ModesInv`).
* What a text means is a recursive function over its positions (`TokensFrom`, `UnquotedFrom`).  The library's induction
  cannot be cited, so `ChainExists` and `ChainOfSequences` prove once that such a function exists and is a sequence
  everywhere, from the position nearest to the end where it would fail.

For every set of files, whatever their tokens are, with `InputsAssumption`: a file is a sequence of directives, each
with as many tokens behind its name as the parser takes for it (`IsDirective`), and a server in a group has its uri;
behind any directives the line break or brace that must follow is missing.
The parser takes what comes next for a token it wants, a line break or a brace as well, and what comes then must be
the line break or brace that it wants, or is another directive.  So a file is such a sequence up to the
first place in `missing`, where the parse fails or, in a list at the end of the file, goes on for ever, and what is behind it
does not matter; but for what the token model leaves out, a token that mixes texts and variables and a variable whose value is a brace.
The one thing such a place may not be is a list in the middle of a file: it takes all there is on its line.  None of
the tokens is `None`, which stands for what is not given.

* `StartupTypeCorrect` and `VariablesKeepToBlocks`.  The invariant `StackInv` says that the block that is read is as deep as
  the braces before it say and that there is a scope for each block around it; `ScopesInv` says that the n-th scope from
  the outside maps what the sets at that depth say that are still seen (`MapsSets`).  A set is said by recursion on the sets before
  it: `SaysExists` shows once that there is such a function of positions.  In a group a server has a uri and opens no block (`GroupServersAreNamed`), which is where the
  assumption is needed.
* `CertificatesFit`: `StartupSpec => []CertificatesFitServers`.  The invariant `ListenersInv` says that a group is the
  servers of its address among those that `parse_config` has gone past, in their order (`IsSelection`), and that
  once the first group is checked no server comes to any of them any more.  What a check found out about a group is
  therefore still true when its acceptor is made.
* `ServersAreListenedFor`: the invariant at the end: the groups are the servers, each in one, in the order of the
  file; a group has its default server, the first that is marked or else the first of all; and all of its
  servers have a certificate with a key, or none has.  It says of the servers that were parsed what `ServersAreGrouped` says of the
  text, and is what `GroupAssumption` assumes of a group in `Serving`.
* `BlocksSayWhatIsWritten`: `StartupSpec => []BlocksAreAsWritten`.  The property alone says nothing until the file has been
  read, so the invariant says it of every position: `BuildInv` has, besides the servers and groups that are closed,
  what each block that is open holds (`ServerIsRead` for a server with the routes of it that are
  closed, and likewise for a route and a group): what its directives so far say.  What a block says is defined for the first `n`
  directives of a text, field by field (`ServerOf`, `RouteOf`, `GroupOf`), so that a step is one directive more.  A directive is in one
  block only (`Adds` names which), and changes there the one field it is about (`OneTakes`, `LastOfTakes`, `PagesTake`,
  `ServerTakesOne`, `RouteTakes`, ...); in a block that is closed there is none any more, and its record stays as it is
  (`ClosedGroupsSame`, ...); a brace says nothing (`BraceSaysNothing`), so that what is closed can be taken as it was.
  The content of a route is the hard case: it is one of several kinds, and headers for a proxy may stand before the proxy or behind it
  (`IsProxied`).
* `ServersGrouped`: `StartupSpec => []ServersAreGrouped`, from `BuildInv`, `ListenersInv` and one more invariant
  (`GroupsAreInOrder`), which says which servers a group has, in the form the property has it: the places of the list, in their order.

For every set of texts to parse and of prefixes, with `TextsAssumption` (they are sequences):

* `UriTypeCorrect` and `PartsAreKept`.  The invariant `PartsInv` says that the offsets are in the order of the parts: the
  host ends before the path begins, the path before the query, and that before what is left.  With it the new text
  is three pieces (`SplicedText`), the offsets behind the path are moved by as much as their text (`OffsetsMove`), and
  each slice is that of the old text (`PartsAreMoved`).  `RestIsKept` makes exception of a uri that is only a host.
* `UrisSayWhatTheyMean`: `UriSpec => []UriIsAsMeant`.  What a path means is said by three recursive functions, one of
  the other (`Components`, `Resolved`, `Joined`); each is the run of a step along its list (`IsRun`), so that one more
  symbol is one more step (`ComponentsGrow`, `ResolvedGrow`, `JoinedGrow`).  The invariant says of the text that `uri_decode` has written
  (`IsMeant`): it is what is before the path, then the components that are left, then a slash, whose place is
  `last_slash`, and the component that is being read; or else the path has climbed out (`HasClimbed`), which it never takes back.
  `Compresses` is the heart of it: what `compress_last_component` takes away from the end of the text is the last component of the
  list.  Behind the path `AtQuery` and `AtFragment` say which piece of the text has been copied where.  The property leaves out a path
  with an escaped slash, one that climbs out of a uri with a scheme or a host, and the one behind an empty scheme, as above.

### What is only model-checked

Every invariant that a run checks is proved.  Liveness (`PlainCallsEnd`, `EveryCallGetsAServer`, `ConnectionsEnd`,
`MessageEnds`, `TokenizerEnds`, `ParsingEnds`) and the fairness in `ImplementsUpstream` are only model-checked: `ENABLED` is
beyond the prover.

## Plan

Done in this order, the most important first: `Upstream` (the only shared state), its history and
proofs, `ProxyPass` over it with `ConnectionPool` as its abstract specification, the route search with
proofs, `Connection` and `Serving` over it with proofs, `Relay`, then what runs once: `Tokenizer`, `ConfigParse` and
`Startup`, and `Uris`.

Then the proofs of `ProxyPass`, `Relay`, `Uris`, `Tokenizer` and `Startup`.  Left: a token of the configuration as a mixture of
texts and variables, and the templates of `vars.rs` that are expanded for each request.

Not modelled: the documentation, which is no code; `make_connector`; the hash of `ip_hash`, MIME types and log lines, on
which nothing here depends; and inside a start line or a header line what makes it ill-formed, since every
such error has the same outcome.
