----------------------------- MODULE AgentClient -----------------------------
(***************************************************************************)
(* The client of the local Agent: its cached endpoint, identity and access *)
(* token, each behind an async mutex, shared by every request of the       *)
(* Device Center; and the control of the Agent's native service.           *)
(*                                                                         *)
(* A request is a task that may wait for a mutex, for a blocking worker    *)
(* that reads or writes the credential vault, or for the Agent.  A task    *)
(* that runs under a deadline is dropped at whatever it waits for: its     *)
(* mutexes open, its blocking worker goes on.                              *)
(***************************************************************************)
EXTENDS Options

CONSTANTS AcCalls,   \* the tasks that use the client
          AcWorlds   \* what each task does and what may go wrong

VARIABLES acWorld, client, vault, peer, call, service

acVars == <<acWorld, client, vault, peer, call, service>>

NoToken == [id |-> 0, epoch |-> 0, fresh |-> FALSE]
Controls == {"start", "stop", "restart"}

-----------------------------------------------------------------------------
(* Waiting, failing, being dropped                                         *)

Goto(c, at) == call' = [call EXCEPT ![c].at = at]
End(c, result) == call' = [call EXCEPT ![c].at = "done", ![c].result = result]

\* The client with the mutexes of task c open.
Released(cl, c) ==
  [cl EXCEPT !.tokenLock = IF @ = c THEN None ELSE @,
             !.idLock = IF @ = c THEN None ELSE @]

Fails(c, error) == client' = Released(client, c) /\ End(c, error)

\* map_transport_error(): no answer, or an answer that refuses.
AnswersWith(c, refused) == IF ~peer.up THEN Fails(c, "unavailable")
                                   ELSE Fails(c, refused)

BeginCall(c) ==
  /\ call[c].at = "idle" /\ acWorld.does[c] \notin Controls \cup {"state"}
  /\ Goto(c, IF acWorld.does[c] = "forget" THEN "forget1" ELSE "token")
  /\ UNCHANGED <<acWorld, client, vault, peer, service>>

-----------------------------------------------------------------------------
(* access_token()                                                          *)

\* The token mutex is kept until the token is renewed, unless it still
\* lives for thirty seconds.
TakeToken(c) ==
  /\ call[c].at = "token" /\ client.tokenLock = None
  /\ IF client.token.fresh
     THEN /\ call' = [call EXCEPT ![c].at = "send", ![c].id = client.token.id]
          /\ UNCHANGED client
     ELSE client' = [client EXCEPT !.tokenLock = c] /\ Goto(c, "identity")
  /\ UNCHANGED <<acWorld, vault, peer, service>>

\* identity(): both outcomes of the first read are kept.
TakeIdentity(c) ==
  /\ call[c].at = "identity" /\ client.idLock = None
  /\ \/ /\ client.identity > 0
        /\ call' = [call EXCEPT ![c].at = "endpoint", ![c].id = client.identity,
                                ![c].epoch = client.epoch]
        /\ UNCHANGED <<client, vault>>
     \/ client.identity < 0 /\ Fails(c, "identity_locked") /\ UNCHANGED vault
     \/ /\ client.identity = 0
        /\ client' = [client EXCEPT !.idLock = c]
        /\ vault' = [vault EXCEPT !.loads = @ + 1]
        /\ Goto(c, "loading")
  /\ UNCHANGED <<acWorld, peer, service>>

Resolved(c, id) ==
  /\ client' = [client EXCEPT !.idLock = None, !.identity = id]
  /\ call' = [call EXCEPT ![c].at = "endpoint", ![c].id = id,
                          ![c].epoch = client.epoch]

Unresolved(c) ==
  client' = [Released(client, c) EXCEPT !.identity = -1] /\ End(c, "identity_unavailable")

\* The vault: a saved identity, none, or no answer; a new identity is a new key.
VaultAnswer == IF vault.locked THEN -1 ELSE vault.id
NewIdentity == vault.created + 1

\* load_identity(): the vault answers, or refuses; nothing there: create one.
LoadIdentity(c) ==
  /\ call[c].at = "loading"
  /\ \/ VaultAnswer < 0 /\ Unresolved(c) /\ UNCHANGED vault
     \/ VaultAnswer > 0 /\ Resolved(c, VaultAnswer) /\ UNCHANGED vault
     \/ /\ VaultAnswer = 0
        /\ vault' = [vault EXCEPT !.created = NewIdentity]
        /\ call' = [call EXCEPT ![c].at = "storing", ![c].id = NewIdentity]
        /\ UNCHANGED client
  /\ UNCHANGED <<acWorld, peer, service>>

StoreIdentity(c) ==
  /\ call[c].at = "storing"
  /\ \/ ~vault.locked /\ vault' = [vault EXCEPT !.id = call[c].id]
                      /\ Resolved(c, call[c].id)
     \/ vault.locked /\ Unresolved(c) /\ UNCHANGED vault
  /\ UNCHANGED <<acWorld, peer, service>>

\* endpoint(): discovered once; discovery may need the running Agent.
Endpoint(c) ==
  /\ call[c].at = "endpoint"
  /\ IF client.endpoint \/ acWorld.loopback \/ peer.up
     THEN client' = [client EXCEPT !.endpoint = TRUE] /\ Goto(c, "issue")
     ELSE Fails(c, "pairing_unavailable")
  /\ UNCHANGED <<acWorld, vault, peer, service>>

\* issue_local_token(): an identity the Agent does not know is paired once.
IssueToken(c) ==
  /\ call[c].at = "issue"
  /\ \/ /\ peer.up /\ call[c].id \in peer.paired
        /\ client' = [Released(client, c) EXCEPT !.token =
             [id |-> call[c].id, epoch |-> call[c].epoch, fresh |-> TRUE]]
        /\ Goto(c, "send")
     \/ /\ peer.up /\ call[c].id \notin peer.paired /\ ~call[c].again
        /\ Goto(c, "pair") /\ UNCHANGED client
     \/ /\ ~peer.up \/ (call[c].id \notin peer.paired /\ call[c].again)
        /\ AnswersWith(c, "rejected")
  /\ UNCHANGED <<acWorld, vault, peer, service>>

\* pair_identity(): a grant, a challenge, and the completed pairing.
PairIdentity(c) ==
  /\ call[c].at = "pair"
  /\ \/ /\ peer.up
        /\ peer' = [peer EXCEPT !.paired = @ \cup {call[c].id}]
        /\ call' = [call EXCEPT ![c].at = "issue", ![c].again = TRUE]
        /\ UNCHANGED client
     \/ (~peer.up \/ acWorld.refuses) /\ AnswersWith(c, "rejected") /\ UNCHANGED peer
  /\ UNCHANGED <<acWorld, vault, service>>

-----------------------------------------------------------------------------
(* The requests                                                            *)

\* A request with the token; begin_setup() sends two, each with a token.
SendRequest(c) ==
  /\ call[c].at = "send"
  /\ \/ /\ peer.up /\ call[c].id \in peer.paired
        /\ IF acWorld.does[c] = "begin" /\ ~call[c].second
           THEN call' = [call EXCEPT ![c].at = "token", ![c].second = TRUE,
                                     ![c].again = FALSE]
           ELSE End(c, "ok")
        /\ UNCHANGED client
     \/ (~peer.up \/ call[c].id \notin peer.paired) /\ AnswersWith(c, "rejected")
  /\ UNCHANGED <<acWorld, vault, peer, service>>

\* forget_identity() with its two steps in the other order.
ForgetOrderTokenFirst == <<"token", "identity">>

\* forget_identity(): each mutex is taken and opened again before the next.
ForgetOrder == <<"identity", "token">>

Forget(c, step) ==
  /\ call[c].at = <<"forget1", "forget2">>[step]
  /\ IF ForgetOrder[step] = "identity"
     THEN /\ client.idLock = None
          /\ client' = [client EXCEPT !.identity = 0, !.epoch = @ + 1]
     ELSE /\ client.tokenLock = None
          /\ client' = [client EXCEPT !.token = NoToken]
  /\ IF step = 1 THEN Goto(c, "forget2") ELSE End(c, "ok")
  /\ UNCHANGED <<acWorld, vault, peer, service>>

\* A deadline drops the task.  A write already handed to a worker lands later.
Dropped(c) ==
  /\ c \in acWorld.deadlines
  /\ call[c].at \in {"token", "identity", "loading", "storing", "endpoint",
                     "issue", "pair", "send"}
  /\ client' = Released(client, c)
  /\ vault' = IF call[c].at = "storing"
              THEN [vault EXCEPT !.late = @ \cup {call[c].id}] ELSE vault
  /\ End(c, "timed_out")
  /\ UNCHANGED <<acWorld, peer, service>>

LateWrite ==
  /\ \E id \in vault.late : vault' = [vault EXCEPT !.id = id, !.late = @ \ {id}]
  /\ UNCHANGED <<acWorld, client, peer, call, service>>

-----------------------------------------------------------------------------
(* The native service                                                      *)

\* control(): one operation at a time; the worker holds the lock.
Control(c) ==
  /\ call[c].at = "idle" /\ acWorld.does[c] \in Controls
  /\ IF service.locked THEN End(c, "in_progress") /\ UNCHANGED service
     ELSE /\ service' = [service EXCEPT !.locked = TRUE, !.workers = @ \cup
                           {[c |-> c, op |-> acWorld.does[c], at |-> "first"]}]
          /\ Goto(c, "waiting")
  /\ UNCHANGED <<acWorld, client, vault, peer>>

Finish(w, result) ==
  /\ service' = [service EXCEPT !.workers = @ \ {w}, !.locked = FALSE]
  /\ IF call[w.c].at = "waiting" THEN End(w.c, result) ELSE UNCHANGED call

\* The manager takes an order; the transition itself comes later.
Orders(w, transition) ==
  /\ service' = [service EXCEPT !.state = transition,
                                !.workers = (@ \ {w}) \cup {[w EXCEPT !.at = transition]}]
  /\ UNCHANGED call

\* inspect(): every pending state reads as starting.
Inspect == IF service.state = "stopping" THEN "starting" ELSE service.state

\* The first order of a start, stop or restart.
FirstOrder(w) ==
  /\ w.at = "first"
  /\ \/ w.op = "start" /\ Inspect # "not_installed" /\ Orders(w, "starting")
     \/ w.op = "stop" /\ Inspect # "not_installed" /\ Orders(w, "stopping")
     \/ w.op = "restart" /\ Inspect = "running" /\ Orders(w, "stopping")
     \/ w.op = "restart" /\ Inspect = "stopped" /\ Orders(w, "starting")
     \/ w.op = "restart" /\ Inspect = "not_installed" /\ Finish(w, "not_installed")
     \/ w.op = "restart" /\ Inspect \in {"starting", "unavailable"}
                         /\ Finish(w, "unexpected_state")
     \/ (acWorld.refuses \/ (w.op # "restart" /\ Inspect = "not_installed"))
        /\ Finish(w, "operation_failed")

\* wait_for_state(): up to thirty seconds for the ordered state.
WaitForState(w) ==
  LET expected == IF w.at = "stopping" THEN "stopped" ELSE "running"
  IN  /\ w.at # "first"
      /\ \/ Inspect = expected /\ w.op = "restart" /\ w.at = "stopping"
            /\ Orders(w, "starting")
         \/ Inspect = expected /\ ~(w.op = "restart" /\ w.at = "stopping")
            /\ Finish(w, expected)
         \/ Inspect \in {"not_installed", "unavailable"} /\ Finish(w, "unexpected_state")
         \/ Inspect \notin {expected, "not_installed", "unavailable"} /\ Finish(w, "timed_out")

Transition(w) ==
  (FirstOrder(w) \/ WaitForState(w)) /\ UNCHANGED <<acWorld, client, vault, peer>>

\* The service manager of the system: an ordered transition happens.
ManagerMoves ==
  /\ service.state \in {"starting", "stopping"}
  /\ LET to == IF service.state = "starting" THEN "running" ELSE "stopped"
     IN  service' = [service EXCEPT !.state = to] /\ peer' = [peer EXCEPT !.up = (to = "running")]
  /\ UNCHANGED <<acWorld, client, vault, call>>

\* The caller goes away; the worker and its lock stay.
ControlDropped(c) ==
  /\ call[c].at = "waiting" /\ c \in acWorld.deadlines
  /\ End(c, "timed_out")
  /\ UNCHANGED <<acWorld, client, vault, peer, service>>

ServiceState(c) ==
  /\ call[c].at = "idle" /\ acWorld.does[c] = "state"
  /\ End(c, Inspect)
  /\ UNCHANGED <<acWorld, client, vault, peer, service>>

-----------------------------------------------------------------------------
(* The world around it                                                     *)

Outside ==
  /\ acWorld.faults > 0
  /\ acWorld' = [acWorld EXCEPT !.faults = @ - 1]
  /\ \/ peer' = [peer EXCEPT !.up = ~@] /\ UNCHANGED <<client, vault>>
     \/ peer' = [peer EXCEPT !.paired = {}] /\ UNCHANGED <<client, vault>>
     \/ vault' = [vault EXCEPT !.locked = ~@] /\ UNCHANGED <<client, peer>>
     \/ client' = [client EXCEPT !.token.fresh = FALSE] /\ UNCHANGED <<vault, peer>>
  /\ UNCHANGED <<call, service>>

ServiceFaults ==
  /\ acWorld.faults > 0 /\ service.state # "not_installed"
  /\ acWorld' = [acWorld EXCEPT !.faults = @ - 1]
  /\ \E to \in {"stopped", "unavailable"} : service' = [service EXCEPT !.state = to]
  /\ peer' = [peer EXCEPT !.up = FALSE]
  /\ UNCHANGED <<client, vault, call>>

AcInit ==
  /\ acWorld \in AcWorlds
  /\ client = [token |-> NoToken, tokenLock |-> None, identity |-> 0,
               idLock |-> None, endpoint |-> FALSE, epoch |-> 0]
  /\ vault = [id |-> acWorld.saved, created |-> acWorld.saved,
              locked |-> FALSE, loads |-> 0, late |-> {}]
  /\ peer = [up |-> TRUE, paired |-> {}]
  /\ call = [c \in AcCalls |-> [at |-> "idle", id |-> 0, epoch |-> 0,
               again |-> FALSE, second |-> FALSE, result |-> "none"]]
  /\ service = [state |-> acWorld.service, locked |-> FALSE, workers |-> {}]

AcNext ==
  \/ \E c \in AcCalls :
       \/ BeginCall(c) \/ TakeToken(c) \/ TakeIdentity(c) \/ LoadIdentity(c)
       \/ StoreIdentity(c) \/ Endpoint(c) \/ IssueToken(c) \/ PairIdentity(c)
       \/ SendRequest(c) \/ Dropped(c) \/ Control(c) \/ ControlDropped(c)
       \/ ServiceState(c)
       \/ \E step \in 1..2 : Forget(c, step)
  \/ \E w \in service.workers : Transition(w)
  \/ LateWrite \/ Outside \/ ManagerMoves \/ ServiceFaults

AcSpec == AcInit /\ [][AcNext]_acVars

-----------------------------------------------------------------------------
(* Properties                                                              *)

\* After an operator's retry has returned, no access token of the identity it
\* forgot is cached: a request that held the token mutex through the retry
\* stores its token before forget_identity() clears it, never after.
ForgetIsComplete ==
  (\A c \in AcCalls : call[c].at # "forget2")
    => client.token = NoToken \/ client.token.epoch = client.epoch

=============================================================================
