----------------------------- MODULE RouterFence -----------------------------
(***************************************************************************)
(* What a Router promises its Controllers, without the way its Supervisor  *)
(* keeps the promise: the durable policy only moves to higher generations, *)
(* the Router serves no authority but that of the durable policy, and a    *)
(* policy is confirmed only while it is durable and served.                *)
(***************************************************************************)
EXTENDS Naturals

CONSTANTS FencePolicies, FenceNone

VARIABLES durable, serving, confirmed

fenceVars == <<durable, serving, confirmed>>

FenceInit ==
  /\ durable = FenceNone
  /\ serving = FenceNone.authority
  /\ confirmed = FenceNone

\* persist(): a new document, or the same one again.
FencePersist(p) ==
  /\ p.generation > durable.generation \/ p = durable
  /\ serving \in {FenceNone.authority, p.authority}
  /\ durable' = p
  /\ UNCHANGED <<serving, confirmed>>

FenceServe ==
  /\ durable # FenceNone
  /\ serving' = durable.authority
  /\ UNCHANGED <<durable, confirmed>>

FenceClose ==
  /\ serving' = FenceNone.authority
  /\ UNCHANGED <<durable, confirmed>>

FenceConfirm ==
  /\ durable # FenceNone
  /\ serving = durable.authority
  /\ confirmed' = durable
  /\ UNCHANGED <<durable, serving>>

\* The write that completes a refused update may replace the file and close
\* the Router in one step.
FenceReplaceAndClose(p) ==
  /\ p.generation > durable.generation \/ p = durable
  /\ durable' = p
  /\ serving' = FenceNone.authority
  /\ UNCHANGED confirmed

FenceNext ==
  \/ \E p \in FencePolicies : FencePersist(p) \/ FenceReplaceAndClose(p)
  \/ FenceServe \/ FenceClose \/ FenceConfirm

FenceSpec == FenceInit /\ [][FenceNext]_fenceVars
=============================================================================
