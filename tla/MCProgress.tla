---------------------------- MODULE MCProgress ----------------------------
(* Progress of the Router Supervisor and of a transmission channel, one at a  *)
(* time: the initial state chooses which one runs (focus), the other rests.   *)
EXTENDS RouterSupervisor, MCChannel

VARIABLE focus

Document(generation, authority, expires) ==
  [generation |-> generation, authority |-> authority, expires |-> expires]

\* A document, a conflicting one of the same generation, its refresh, one that
\* removes an Agent, and one that Zenoh's configuration refuses.
MCPolicies ==
  {Document(1, "both", 1), Document(1, "both", 2), Document(2, "both", 2),
   Document(2, "one", 2), Document(2, "bad", 2)}

MCTlsExpiry == <<1, 3>>

---------------------------------------------------------------------------

progressVars == <<vars, chVars, focus>>

Rest(S) == CHOOSE x \in S : TRUE

MCInit ==
  /\ focus \in {"supervisor", "channel"}
  /\ focus # "supervisor" => files = 1
  /\ focus # "channel" => tpWorld = Rest(TpWorlds)
  /\ Init /\ ChInit

OnlySupervisor == UNCHANGED <<chVars, focus>>
OnlyChannel == UNCHANGED <<vars, focus>>

MCNext ==
  \/ focus = "supervisor" /\ Next /\ OnlySupervisor
  \/ focus = "channel" /\ ChNext /\ OnlyChannel

\* The fairness of the Supervisor (Fairness) and, in the channel, of every
\* producer, of the transmission task and of the reader; run_until_cancelled
\* polls the token whenever it polls the write loop.
MCSpec ==
  /\ MCInit /\ [][MCNext]_progressVars
  /\ WF_progressVars(focus = "supervisor" /\ Actor /\ OnlySupervisor)
  /\ SF_progressVars(focus = "supervisor" /\ ObserveTick /\ OnlySupervisor)
  /\ SF_progressVars(focus = "supervisor" /\ TakeCommand /\ OnlySupervisor)
  /\ WF_progressVars(focus = "channel" /\ Produce(1) /\ UNCHANGED rxVars /\ OnlyChannel)
  /\ WF_progressVars(focus = "channel" /\ 2 \in TpProducers /\ Produce(2) /\ UNCHANGED rxVars /\ OnlyChannel)
  /\ WF_progressVars(focus = "channel" /\ ProduceClose /\ UNCHANGED rxVars /\ OnlyChannel)
  /\ WF_progressVars(focus = "channel" /\ Consume /\ UNCHANGED rxVars /\ OnlyChannel)
  /\ SF_progressVars(focus = "channel" /\ Cancel /\ UNCHANGED rxVars /\ OnlyChannel)
  /\ WF_progressVars(focus = "channel" /\ Read(1, FALSE) /\ OnlyChannel)

\* The pipeline, while it runs, settles (PipelineSettles): whatever is pushed is sent
\* or given back, and no wakeup of the transmission task is lost.
ChannelSettles == (focus = "channel") => PipelineSettles
=============================================================================
