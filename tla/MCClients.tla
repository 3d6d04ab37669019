----------------------------- MODULE MCClients -----------------------------
(* Small instances of the Agent's desktop client, of the key services and of   *)
(* the Router's management interface, one component at a time: the initial     *)
(* state chooses which one runs (focus) and in which of its worlds, and the    *)
(* others rest.                                                                *)
EXTENDS DeviceCenter, AgentClient, KeyServices, RouterManagement

CONSTANT Focuses   \* the components a run looks at
VARIABLE focus

---------------------------------------------------------------------------
(* Device Center: what the operator, the Agent and the network may still do.  *)

NewAgent == [up |-> TRUE, managed |-> FALSE, begun |-> FALSE, link |-> "off", done |-> FALSE,
  devices |-> {}, pairing |-> [r \in DcRequests |-> "pending"]]
Enrolled == [NewAgent EXCEPT !.managed = TRUE, !.link = "online", !.devices = {"d1"}]
Finished == [Enrolled EXCEPT !.done = TRUE]
Desk(acts, ops, env, faults, link, lv, a) ==
  [acts |-> acts, ops |-> ops, env |-> env, faults |-> faults, link |-> link, live |-> lv, agent |-> a]
DcSmall == {
  Desk({"begin", "restart", "retry", "confirm"}, 3, {"stop", "service"}, 1, "l1", FALSE, NewAgent),
  Desk({"confirm"}, 2, {"devices"}, 2, "none", FALSE, Enrolled)}
MCDcWorlds == DcSmall \cup {
  Desk({"edit", "preview", "begin", "restart", "over"}, 5, {}, 0, "none", FALSE, NewAgent),
  Desk({"confirm", "select", "without", "retry", "hide", "open", "review_setup"}, 2,
       {"stop", "devices"}, 1, "none", FALSE, Enrolled),
  Desk({"link", "type", "review", "decide"}, 2, {"expire"}, 1, "r1", FALSE, Finished),
  Desk({"check"}, 1, {"stop"}, 1, "r1", TRUE, Finished),
  Desk({"service"}, 1, {"service"}, 1, "none", TRUE, Enrolled),
  Desk({"confirm"}, 1, {"event"}, 2, "none", TRUE, Enrolled)}

---------------------------------------------------------------------------
(* The Agent client: three calls, a saved identity or none, a vault and an     *)
(* Agent that may fail, a service in each state.                              *)

Client(d, saved, dl, faults, loop, ref, inst) ==
  [does |-> [c \in AcCalls |-> d[c]], saved |-> saved, deadlines |-> dl, faults |-> faults,
   loopback |-> loop, refuses |-> ref, service |-> inst]
MCAcWorlds == {
  Client(<<"begin", "forget", "read">>, 0, {}, 2, TRUE, TRUE, "running"),
  Client(<<"forget", "read", "read">>, 1, {2}, 2, FALSE, FALSE, "running"),
  Client(<<"restart", "start", "stop">>, 1, {1, 2}, 1, TRUE, TRUE, "running"),
  Client(<<"restart", "state", "restart">>, 0, {3}, 1, TRUE, FALSE, "not_installed"),
  Client(<<"read", "read", "read">>, 0, {1}, 0, TRUE, FALSE, "stopped")}

---------------------------------------------------------------------------
(* Key services: bundles signed and rows sealed while keys are administered.   *)

Signer(id, p) == [id |-> id, purpose |-> p, key |-> id, active |-> TRUE, from |-> 0, to |-> 9]
KeyOf == [root |-> 1, profile |-> 2, matrix |-> 3, binding |-> 4]
Approved == [agent |-> "a", scope |-> "s", agents |-> {Signer(5, "evidence")},
  keys |-> [p \in Purposes |-> [name |-> p, version |-> 1, signer |-> Signer(KeyOf[p], p)]]]
Evidenced == [id |-> "e", binding |-> "b", key |-> 5, passed |-> TRUE, row |-> "r", device |-> "d",
  cap |-> "c", profile |-> "p", output |-> 2, from |-> 0, to |-> 9]
Draft(to) == [agent |-> "a", scope |-> "s", from |-> 0, to |-> to,
  profiles |-> <<[digest |-> "p", driver |-> "dr", from |-> 0, to |-> 9,
                  caps |-> {[id |-> "c", options |-> "o", output |-> 1]}]>>,
  rows |-> <<[id |-> "r", driver |-> "dr", device |-> "d", cap |-> "c", profile |-> "p", from |-> 0, to |-> 9]>>,
  bindings |-> <<[id |-> "b", scope |-> "s", purpose |-> "receipt", device |-> "d", cap |-> "c",
                  options |-> "o", profile |-> "p", row |-> "r"]>>,
  evidence |-> {Evidenced}, activations |-> {[binding |-> "b", evidence |-> "e"]}]
TransitKeys == [k \in Purposes \cup {"payload"} |->
  [sound |-> TRUE, min |-> 1, vers |-> <<IF k = "payload" THEN 6 ELSE KeyOf[k]>>]]
Tasks(a, b, draft, app, touched, admin) ==
  [does |-> [c \in KsTasks |-> IF c = 1 THEN a ELSE b], draft |-> draft, approval |-> app,
   keys |-> TransitKeys, touched |-> touched, admin |-> admin, badIdentity |-> FALSE, unreadable |-> FALSE]
MCKsWorlds == {
  Tasks("sign", "sign", Draft(9), Approved, {"root"}, 0),
  Tasks("sign", "seal", Draft(2), Approved, {"binding", "payload"}, 1),
  Tasks("seal", "seal", Draft(9), Approved, {"payload"}, 2),
  Tasks("sign", "seal", Draft(9), [Approved EXCEPT !.keys["binding"].version = 2], {"binding"}, 1),
  Tasks("sign", "seal", [Draft(9) EXCEPT !.evidence = {[Evidenced EXCEPT !.device = "d2"]}], Approved, {"root"}, 0),
  Tasks("sign", "seal", Draft(9), [Approved EXCEPT !.agents = @ \cup {[Signer(4, "observation") EXCEPT !.key = 7]}], {"root"}, 0),
  Tasks("sign", "seal", [Draft(9) EXCEPT !.profiles = @ \o @ \o @], Approved, {"root"}, 0),
  [Tasks("sign", "seal", Draft(9), Approved, {"root"}, 0) EXCEPT !.unreadable = TRUE],
  [Tasks("sign", "seal", [Draft(9) EXCEPT !.agent = "b"], Approved, {"root"}, 0) EXCEPT !.badIdentity = TRUE]}

MCKsLimits == [signers |-> 5, profiles |-> 2, rows |-> 1]

---------------------------------------------------------------------------
(* Router management: documents good and bad, files that rotate meanwhile.     *)

RmAgent(name, of) == [name |-> name, namespace |-> <<<<"iot">>, of>>]
FirstDocument == [version |-> 1, generation |-> 1, fleet |-> "f", issued |-> 0, start |-> 0, end |-> 2,
  prefix |-> <<"iot">>, peers |-> <<"ctl">>, agents |-> <<RmAgent("a1", "a1")>>]
SecondDocument == [FirstDocument EXCEPT !.generation = 2, !.agents = <<RmAgent("a2", "a2")>>]
ByFleet(p) == [policy |-> p, key |-> "k"]
FirstOnly == {ByFleet(FirstDocument)}
Variants == {
  ByFleet(SecondDocument), [policy |-> SecondDocument, key |-> "other"],
  ByFleet([SecondDocument EXCEPT !.agents = <<RmAgent("a1", "a2")>>]),
  ByFleet([SecondDocument EXCEPT !.fleet = "g"]), ByFleet([SecondDocument EXCEPT !.end = 4]),
  ByFleet([SecondDocument EXCEPT !.peers = <<"a1">>]),
  ByFleet([SecondDocument EXCEPT !.peers = <<"agt_x">>]), ByFleet([SecondDocument EXCEPT !.generation = 3]),
  ByFleet([FirstDocument EXCEPT !.end = 1]),
  ByFleet([SecondDocument EXCEPT !.prefix = <<"iot", "..">>])}
Rotation(first, second, rotates, n, until) ==
  [docs |-> [c \in RmCalls |-> IF c = 1 THEN first ELSE second], rotates |-> rotates, rotations |-> n, until |-> until]
MCRmWorlds == {
  Rotation(FirstOnly, Variants, {}, 0, 1),
  Rotation(FirstOnly, FirstOnly, {<<"router", "ca">>}, 2, 0),
  Rotation(FirstOnly, FirstOnly, {<<"controller", "cert">>, <<"controller", "key">>}, 2, 1),
  Rotation(FirstOnly, {}, {"router", "controller"} \X {"ca", "cert", "key"}, 2, 1)}
MCRmRoots == <<{1}, {1, 2}, {2}>>
RmCert(name, end) == [name |-> name, start |-> 0, end |-> end]
MCRmCerts == <<RmCert("controller", 1), RmCert("controller", 2), RmCert("agent", 2)>>
MCRmLimits == [peers |-> 1, agents |-> 1, generation |-> 2]

---------------------------------------------------------------------------

clientVars == <<dcVars, acVars, ksVars, rmVars, focus>>

Rest(S) == CHOOSE x \in S : TRUE

MCInit ==
  /\ focus \in Focuses
  /\ focus # "desk" => dcWorld = Rest(DcWorlds)
  /\ focus # "client" => acWorld = Rest(AcWorlds)
  /\ focus # "keys" => ksWorld = Rest(KsWorlds)
  /\ focus # "router" => rmWorld = Rest(RmWorlds)
  /\ DcInit /\ AcInit /\ KsInit /\ RmInit

MCNext ==
  \/ focus = "desk" /\ DcNext /\ UNCHANGED <<acVars, ksVars, rmVars, focus>>
  \/ focus = "client" /\ AcNext /\ UNCHANGED <<dcVars, ksVars, rmVars, focus>>
  \/ focus = "keys" /\ KsNext /\ UNCHANGED <<dcVars, acVars, rmVars, focus>>
  \/ focus = "router" /\ RmNext /\ UNCHANGED <<dcVars, acVars, ksVars, focus>>

MCSpec == MCInit /\ [][MCNext]_clientVars
=============================================================================
