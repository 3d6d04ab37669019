----------------------------- MODULE MCChannel -----------------------------
(* Small instances of a pipeline and of the reception at its other end:       *)
(* producers' jobs, and what may go wrong.                                    *)
EXTENDS Reception

N(i, q, r, s, d, x) == [k |-> "net", id |-> i, prio |-> q, rel |-> r, size |-> s, drop |-> d, express |-> x]
W(jobs) == [jobs |-> jobs, batches |-> 1, batching |-> TRUE, qos |-> TRUE, sn |-> 14, close |-> FALSE, lease |-> FALSE,
  breaks |-> FALSE, alive |-> FALSE, markers |-> TRUE, defrag |-> 2, lossy |-> FALSE, faults |-> 0]
MCTpWorlds == {
  W(<<<<N(1,0,TRUE,1,TRUE,FALSE), N(2,0,TRUE,3,TRUE,FALSE)>>, <<N(3,0,TRUE,1,FALSE,FALSE)>>>>),
  [W(<<<<N(1,0,FALSE,3,TRUE,FALSE), N(2,0,FALSE,3,TRUE,FALSE)>>>>)
     EXCEPT !.lossy = TRUE, !.faults = 2],
  [W(<<<<N(1,0,TRUE,1,TRUE,TRUE), N(2,0,TRUE,3,TRUE,FALSE), N(3,0,TRUE,1,TRUE,TRUE)>>>>)
     EXCEPT !.lossy = TRUE, !.faults = 2, !.batches = 2],
  [W(<<<<N(1,0,TRUE,1,TRUE,FALSE), N(2,0,FALSE,2,FALSE,FALSE)>>, <<N(3,1,TRUE,1,FALSE,FALSE)>>>>)
     EXCEPT !.batches = 2, !.sn = 0, !.alive = TRUE],
  [W(<<<<N(1,1,TRUE,3,FALSE,FALSE), N(2,1,TRUE,1,TRUE,FALSE)>>>>)
     EXCEPT !.close = TRUE, !.qos = FALSE, !.breaks = TRUE],
  [W(<<<<N(1,1,TRUE,1,TRUE,FALSE)>>, <<N(3,1,TRUE,3,TRUE,TRUE)>>>>)
     EXCEPT !.lease = TRUE, !.batching = FALSE, !.batches = 2, !.alive = TRUE, !.breaks = TRUE],
  [W(<<<<N(1,0,TRUE,3,FALSE,FALSE)>>, <<N(2,0,TRUE,1,TRUE,TRUE)>>>>) EXCEPT !.markers = FALSE, !.batches = 2]}

\* The smaller ones, for liveness.
MCTpLive == {w \in MCTpWorlds : ~ w.lossy /\ (w.batches = 2 \/ w.close)}

chVars == <<tpVars, rxVars>>
=============================================================================
