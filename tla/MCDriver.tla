------------------------------- MODULE MCDriver -------------------------------
(* DriverQueue on a small instance: two request streams, two framework        *)
(* threads, a pipe that holds one driver message, and a client that may       *)
(* answer anything of a few messages, open, close and vanish at any time.     *)
EXTENDS DriverQueue, TLC

CONSTANTS app1, app2, t1, t2, none

MCIssuers == {app1, app2}
MCThreads == {t1, t2}
MCMaxRequests == [i \in MCIssuers |-> 2]
MCTails == {ZeroChunk}

\* A proper reply, a failed one, and a message that is no reply
MCEnvChunks ==
  { [d |-> "NONE", len |-> 1, data |-> RxData(1, 1)],
    [d |-> "NONE", len |-> -1, data |-> Zero],
    [d |-> "TX", len |-> 1, data |-> Junk] }

Symm == Permutations(MCIssuers) \cup Permutations(MCThreads)
=============================================================================
