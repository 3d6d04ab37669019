------------------------------ MODULE MCFleet ------------------------------
(* Model-checking instance of enrollment and of Router admission.              *)
EXTENDS Onboarding, RouterAdmission, TLC
CONSTANTS a1, a2, s1, s2, i1, i2, r1, r2, c1, c2
D(id, identity) == [id |-> id, identity |-> identity]
Small == [at |-> 1, inventory |-> {D(1, "x")}]
MCSnapshots == {Small,
                [at |-> 2, inventory |-> {D(1, "y")}],
                [at |-> 2, inventory |-> {D(1, "x"), D(2, "y")}],
                [at |-> 2, inventory |-> {D(1, "x"), D(2, "x")}]}
Request(a, t, c, s) == [agent |-> a, transport |-> t, csr |-> c, state |-> s, dispatch |-> "x25519",
                        versions |-> {1}, bearer |-> "code", snapshot |-> Small]
Refused == LET r == Request(a1, a1, a1, s1)
           IN {Request(a1, a2, a2, s2), Request(a1, a1, a1, a1), [r EXCEPT !.dispatch = "zero"],
               [r EXCEPT !.versions = {}], [r EXCEPT !.bearer = "malformed"], [r EXCEPT !.bearer = "none"]}
MCRequests == Refused \cup
  {Request(a1, a1, a1, s1), [Request(a1, a1, a1, s2) EXCEPT !.versions = {1, 2}], Request(a2, a2, a2, s1)}
MCVersions == <<2, 1>>

(* Two instances in one run, chosen by the initial state: enrollment with its  *)
(* database, and the Router policy with its Controllers and Routers.           *)
VARIABLE focus

fleetVars == <<onbVars, admVars, focus>>

MCInit == /\ focus \in {"onboarding", "admission"}
          /\ OnbInit /\ AdmInit
          /\ focus = "onboarding" => active = {}

MCNext == /\ UNCHANGED focus
          /\ \/ focus = "onboarding" /\ OnbNext /\ UNCHANGED admVars
             \/ focus = "admission" /\ AdmNext /\ UNCHANGED onbVars

MCSpec == MCInit /\ [][MCNext]_fleetVars

(* The replicas are in the middle of a change of configuration.                *)
MCDigests == (c1 :> "old") @@ (c2 :> "new")

MCSymmetry == Permutations(Routers)
=============================================================================
