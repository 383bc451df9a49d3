--------------------------- MODULE UpstreamHistory ---------------------------
(***************************************************************************)
(* Upstream with history variables: what a call could have known while it  *)
(* chose a server, every failure ever recorded, every turn ever taken.     *)
(* They are computed from the states before and after a step, whichever    *)
(* action took it, and constrain nothing.                                  *)
(***************************************************************************)
EXTENDS Upstream

VARIABLES
  turns,        \* server -> times the round robin handed it out
  past,         \* server -> instants of all its failures, forgotten ones too
  good,         \* call -> servers usable ever since it began to choose
  bad,          \* call -> servers unusable ever since it began to choose
  quiet,        \* call -> no other call took a turn since it began to choose
  moves         \* call -> changes of a count that its scan had read already

history == <<turns, past, good, bad, quiet, moves>>
hvars == <<vars, history>>

Choosing == {"claim", "check", "health", "count", "pick"}

\* The rule of the code: a server is used while fewer than max_fails of its failures
\* are no older than fail_timeout.  docs/index.md leaves a server out from one failure
\* more on, when there are more than max_fails of them.
RecentFailures(s) == {j \in 1 .. Len(past[s]) : now - past[s][j] <= FailTimeout}
Fit(s) == Cardinality(RecentFailures(s)) < MaxFails

HistoryInit ==
  /\ turns = [s \in Server |-> 0]
  /\ past = [s \in Server |-> <<>>]
  /\ good = [c \in Calls |-> {}]
  /\ bad = [c \in Calls |-> {}]
  /\ quiet = [c \in Calls |-> TRUE]
  /\ moves = [c \in Calls |-> 0]

Claimed(s) == \E c \in Calls : pc[c] = "claim" /\ pc'[c] = "check" /\ current_server[c] = s
FailedOn(s) == \E c \in Calls : pc[c] = "failed" /\ pc'[c] # "failed" /\ server[c] = s

\* What call c still knows after the step, of the servers in `known` before it.
Still(c, known, begin) ==
  IF pc'[c] \notin Choosing THEN {}
  ELSE IF pc[c] = "start" THEN begin
  ELSE known \cap begin

\* The count of a server that the scan of call c has behind it changes.
Moved(c) == \E s \in Server : s < scan[c].i /\ connection_counts'[s] # connection_counts[s]

HistoryStep ==
  /\ turns' = [s \in Server |-> IF Claimed(s) THEN turns[s] + 1 ELSE turns[s]]
  /\ past' = [s \in Server |-> IF FailedOn(s) THEN Append(past[s], now) ELSE past[s]]
  /\ good' = [c \in Calls |-> Still(c, good[c], {s \in Server : Fit(s)'})]
  /\ bad' = [c \in Calls |-> Still(c, bad[c], {s \in Server : ~Fit(s)'})]
  /\ quiet' = [c \in Calls |->
       \/ pc'[c] \notin Choosing
       \/ /\ pc[c] # "start" => quiet[c]
          /\ \A d \in Calls \ {c} : pc'[d] = pc[d] \/ pc'[d] # "check"]
  /\ moves' = [c \in Calls |->
       IF pc'[c] \notin Choosing THEN 0 ELSE IF Moved(c) THEN moves[c] + 1 ELSE moves[c]]

HInit == Init /\ HistoryInit
HNext == Next /\ HistoryStep
HSpec == HInit /\ [][HNext]_hvars

-----------------------------------------------------------------------------
\* Turns are handed out round the group whatever races the claims run: no turn
\* is given twice or skipped, so the earlier servers are at most one turn ahead.
TurnsEven ==
  \A s, t \in Server :
    s < t => turns[t] <= turns[s] /\ turns[s] <= turns[t] + 1

\* update_failures answers by the failures of the window, all of them and no
\* others, although it forgets failures for good and looks only at the oldest: a
\* server is left out from the very failure on that makes them max_fails.
VerdictIsOfTheWindow == \A s \in Server : Usable(s) <=> Fit(s)

\* A call is given its server in this step.
Given(c) == pc[c] # "held" /\ pc'[c] = "held"

AllFailed(c) == server'[c] \in bad[c] => good[c] = {}

\* least_conn gives a server that was over its limit of failures all the time
\* only when no server was under its limit all the time, whatever the other
\* calls did during the scan.
LeastConnectedAvoidsFailed ==
  [][\A c \in Calls : Given(c) /\ balancing = "LeastConnected" => AllFailed(c)]_hvars

\* The round robin does the same for a call that no other call takes a turn from:
\* N + 1 attempts reach every server of the group.
RoundRobinAvoidsFailedWhenQuiet ==
  [][\A c \in Calls :
       Given(c) /\ balancing = "RoundRobin" /\ quiet[c] => AllFailed(c)]_hvars

\* The round robin does the same whatever the other calls do.
RoundRobinAvoidsFailed ==
  [][\A c \in Calls : Given(c) /\ balancing = "RoundRobin" => AllFailed(c)]_hvars

\* The counts are read one after the other and the chosen one is raised later, so
\* another call may have changed them.  The server that least_conn gives is yet
\* more loaded than one that was usable all the time by no more than the changes
\* of counts already read: by none, if there were none.
LeastConnectedIsLeastLoaded ==
  [][\A c \in Calls :
       Given(c) /\ balancing = "LeastConnected"
         => \A s \in good[c] :
              connection_counts[server'[c]] <= connection_counts[s] + moves[c]]_hvars
=============================================================================
