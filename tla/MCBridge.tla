------------------------------- MODULE MCBridge -------------------------------
(* Bridge on small instances.  The two message sizes are the real ones: lengths *)
(* are numbers, and only their order relative to the sizes matters.            *)
EXTENDS Bridge, TLC

CONSTANTS app1, app2, t1, t2, none, AppRequests

MCThreads == {t1, t2}
TwoApps == {app1, app2, svc}
OneApp == {app1, svc}

\* AppRequests for each application, two for each start of the service
MCMaxRequests == [i \in Issuers |-> IF i = svc THEN 2 * MaxStarts ELSE AppRequests]

ZeroTail == {ZeroChunk}

\* The replies the service can form on these instances: a block under its own length,
\* nothing, and a failure, which leaves what was in the message
Blocks == {RxData(k, n) : k \in 1..4, n \in BlockSizes \ {0}}
MCEnvChunks ==
  {[d |-> "NONE", len |-> b[3], data |-> b] : b \in Blocks \cup {Zero}}
    \cup [d : {"NONE"}, len : {-1}, data : Blocks \cup {Zero}]

\* Threads are interchangeable, and so are the two applications.
Symm == Permutations(MCThreads) \cup Permutations({app1, app2})
=============================================================================
