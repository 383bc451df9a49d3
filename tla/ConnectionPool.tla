--------------------------- MODULE ConnectionPool ---------------------------
(***************************************************************************)
(* What an upstream group promises its callers, whatever its balancer: a   *)
(* call is given one server in one indivisible step, keeps it while its    *)
(* exchange runs, and gives it back once.  The load of a server is what    *)
(* the calls that hold it add up to.                                       *)
(***************************************************************************)
EXTENDS Naturals

CONSTANTS Clients, Servers

VARIABLES
  lease,   \* client -> "waiting", "holding" or "over"
  holds,   \* client -> the server it was given
  load     \* server -> the exchanges charged to it

pool == <<lease, holds, load>>

PoolInit ==
  /\ lease = [c \in Clients |-> "waiting"]
  /\ holds \in [Clients -> Servers]
  /\ load = [s \in Servers |-> 0]

Acquire(c, s) ==
  /\ lease[c] = "waiting"
  /\ lease' = [lease EXCEPT ![c] = "holding"]
  /\ holds' = [holds EXCEPT ![c] = s]
  /\ load' = [load EXCEPT ![s] = @ + 1]

GiveBack(c) ==
  /\ lease[c] = "holding"
  /\ lease' = [lease EXCEPT ![c] = "over"]
  /\ load' = [load EXCEPT ![holds[c]] = @ - 1]
  /\ UNCHANGED holds

PoolNext == \E c \in Clients : GiveBack(c) \/ \E s \in Servers : Acquire(c, s)

PoolSpec == PoolInit /\ [][PoolNext]_pool
=============================================================================
