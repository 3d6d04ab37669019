------------------------------ MODULE MCAgent ------------------------------
(* Both durable components of the Agent in one run, for liveness: the initial  *)
(* state chooses which of them runs, and the other rests.                     *)
EXTENDS MCPhysicalExecution, MCSpoolAdmission

VARIABLE focus

agentVars == <<vars, mcSpoolVars, focus>>

MCInit == focus \in {"execution", "spool"} /\ Init /\ MCSpoolInit

OnlyExecution == UNCHANGED <<mcSpoolVars, focus>>
OnlySpool == OfOffer /\ UNCHANGED <<vars, focus>>

MCNext ==
  \/ focus = "execution" /\ Next /\ OnlyExecution
  \/ focus = "spool" /\ SpoolNext /\ OnlySpool

\* Fairness of PhysicalExecution and SpoolFairSpec, for the part that runs.
FairAgent ==
  /\ MCInit /\ [][MCNext]_agentVars
  /\ WF_agentVars(focus = "execution" /\ StartBatch /\ OnlyExecution)
  /\ \A w \in Workers :
       /\ WF_agentVars(focus = "execution" /\ CoroutineStep(w) /\ OnlyExecution)
       /\ WF_agentVars(focus = "execution" /\ Cancel(w) /\ OnlyExecution)
       /\ \A op \in Ops :
            WF_agentVars(/\ focus = "execution"
                         /\ \E c \in calls : c.w = w /\ c.op = op /\ CallStep(c)
                         /\ OnlyExecution)
  /\ WF_agentVars(focus = "execution" /\ up = "stopping" /\ Crash /\ OnlyExecution)
  /\ WF_agentVars(focus = "execution" /\ Restart /\ OnlyExecution)
  /\ WF_agentVars(focus = "execution" /\ Tick /\ OnlyExecution)
  /\ WF_agentVars(focus = "spool" /\ AdmissionStep /\ OnlySpool)
=============================================================================
