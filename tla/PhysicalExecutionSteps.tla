---------------------- MODULE PhysicalExecutionSteps ----------------------
(***************************************************************************)
(* Lemmas for the safety theorems of PhysicalExecution: the initial state, *)
(* the coroutines' own steps, printer processes, crash and clock keep the  *)
(* inductive invariant; what the end of a call and the publication of new  *)
(* job states do to each of its parts.                                     *)
(***************************************************************************)
EXTENDS PhysicalExecution, TLAPS

USE DEF Time, Generations, Unmarked, Marked, ActivePhases, Terminal, JobStates,
        ArtifactStates, ChildStates, Alive, Ops, Points, Call

\* What leaves its variables alone keeps each part of the invariant.
LEMMA MarkersKept ==
  ASSUME MarkersInv, UNCHANGED <<jobState, job, owner, phase, marked>>
  PROVE  MarkersInv'
BY Zenon DEF MarkersInv

LEMMA HoldsKept ==
  ASSUME HoldsInv, UNCHANGED <<job, owner, phase, holds>>
  PROVE  HoldsInv'
BY DEF HoldsInv, HoldsMatchAttempts

LEMMA OutputKept ==
  ASSUME OutputInv, UNCHANGED <<job, phase, marked, child, printed>>
  PROVE  OutputInv'
BY Zenon DEF OutputInv

\* The empty database and the freshly started process satisfy IInv.
LEMMA InitIInv == Init => IInv
<1> SUFFICES ASSUME Init PROVE IInv
  BY Zenon
<1> USE ConstantsAssumption DEF Init
<1>1. TypeOK
  BY DEF TypeOK
<1>2. MarkersInv
  BY Zenon DEF MarkersInv
<1>3. HoldsInv
  BY Zenon DEF HoldsInv, HoldsMatchAttempts
<1>4. OutputInv
  BY DEF OutputInv
<1>5. ControlInv
  BY Zenon DEF ControlInv
<1>6. WorkerInv
  BY Zenon DEF WorkerInv
<1>7. IoUnderHold /\ ConfirmedWasPrinted
  BY Zenon DEF IoUnderHold, ConfirmedWasPrinted
<1> QED
  BY Zenon, <1>1, <1>2, <1>3, <1>4, <1>5, <1>6, <1>7 DEF IInv

\* The device produces output.
LEMMA ChildPrintsIInv ==
  ASSUME IInv, NEW a \in Attempts, ChildPrints(a)
  PROVE  IInv'
<1> USE ConstantsAssumption DEF jobVars, attemptVars, processVars, envVars
<1>0. /\ job[a] \in Jobs /\ a \in marked /\ child[a] = "permitted"
      /\ printed[job[a]] = 0
  <2>1. child[a] = "permitted" /\ a \in marked
    BY Zenon DEF IInv, OutputInv, ChildPrints
  <2>2. job[a] \in Jobs
    BY Zenon, <2>1 DEF IInv, MarkersInv
  <2>3. ASSUME printed[job[a]] = 1 PROVE FALSE
    <3>1. PICK b \in Attempts :
             /\ job[b] = job[a] /\ b \in marked
             /\ child[b] \in {"printed", "confirmed", "unknown", "gone"}
      BY Zenon, <2>2, <2>3 DEF IInv, OutputInv
    <3>2. b = a
      BY Zenon, <2>1, <3>1 DEF IInv, MarkersInv
    <3> QED
      BY Zenon, <2>1, <3>1, <3>2
  <2> QED
    BY Zenon, <2>1, <2>2, <2>3 DEF IInv, OutputInv
<1>a. /\ child' = [child EXCEPT ![a] = "printed"]
      /\ printed' = [printed EXCEPT ![job[a]] = 1]
      /\ UNCHANGED <<jobVars, attemptVars, processVars, envVars>>
  BY <1>0 DEF ChildPrints, IInv, TypeOK
<1>1. TypeOK'
  BY Zenon, <1>0, <1>a, SMTT(30) DEF IInv, TypeOK
<1>2. MarkersInv'
  BY Zenon, <1>a DEF IInv, MarkersInv
<1>3. HoldsInv'
  BY <1>a DEF IInv, HoldsInv, HoldsMatchAttempts
<1>4. OutputInv'
  BY SMTT(30), <1>0, <1>a DEF IInv, TypeOK, OutputInv, MarkersInv
<1>5. ControlInv'
  BY Zenon, <1>a DEF IInv, ControlInv
<1>6. WorkerInv'
  BY <1>0, <1>a DEF IInv, TypeOK, WorkerInv, OutputInv
<1>7. IoUnderHold' /\ ConfirmedWasPrinted'
  BY SMTT(30), <1>0, <1>a DEF IInv, TypeOK, OutputInv, IoUnderHold, ConfirmedWasPrinted
<1> QED
  BY Zenon, <1>1, <1>2, <1>3, <1>4, <1>5, <1>6, <1>7 DEF IInv

\* The printer process answers or ends.
LEMMA ChildEndsIInv ==
  ASSUME IInv, NEW a \in Attempts, ChildEnds(a)
  PROVE  IInv'
<1> USE ConstantsAssumption DEF jobVars, attemptVars, processVars, envVars
<1>0. PICK s \in {"confirmed", "unknown", "gone"} :
        /\ child' = [child EXCEPT ![a] = s]
        /\ child[a] \in Alive
        /\ s = "confirmed" => child[a] = "printed"
        /\ s = "unknown" => child[a] \in {"permitted", "printed"}
  BY Zenon DEF ChildEnds
<1>a. UNCHANGED <<jobVars, attemptVars, printed, processVars, envVars>>
  BY Zenon DEF ChildEnds
<1>1. TypeOK'
  BY Zenon, <1>0, <1>a, SMTT(30) DEF IInv, TypeOK
<1>2. MarkersInv'
  BY Zenon, <1>a DEF IInv, MarkersInv
<1>3. HoldsInv'
  BY <1>a DEF IInv, HoldsInv, HoldsMatchAttempts
<1>4. OutputInv'
  BY <1>0, <1>a DEF IInv, TypeOK, OutputInv
<1>5. ControlInv'
  BY Zenon, <1>a DEF IInv, ControlInv
<1>6. WorkerInv'
  BY <1>0, <1>a DEF IInv, TypeOK, WorkerInv
<1>7. IoUnderHold' /\ ConfirmedWasPrinted'
  BY ZenonT(40), <1>0, <1>a DEF IInv, TypeOK, IoUnderHold, ConfirmedWasPrinted
<1> QED
  BY Zenon, <1>1, <1>2, <1>3, <1>4, <1>5, <1>6, <1>7 DEF IInv

\* A heartbeat extends the lease and nothing else.
LEMMA RenewIInv ==
  ASSUME IInv, NEW w \in Workers, Renew(w)
  PROVE  IInv'
<1> USE ConstantsAssumption DEF jobVars, deviceVars, processVars, envVars
<1>a. PICK t \in Time :
        /\ lease' = [lease EXCEPT ![claim[w]] = t + LeaseDuration]
        /\ UNCHANGED <<jobVars, job, owner, phase, marked, attemptVersion, holds,
                       deviceVars, processVars, envVars>>
  BY Zenon DEF Renew
<1>b. t + LeaseDuration \in Nat
  OBVIOUS
<1>c. lease' \in [Attempts -> Nat]
  BY Zenon, <1>a, <1>b DEF IInv, TypeOK
<1>1. TypeOK'
  BY Zenon, <1>a, <1>c DEF IInv, TypeOK
<1>2. MarkersInv' /\ HoldsInv' /\ OutputInv'
  BY Zenon, <1>a, MarkersKept, HoldsKept, OutputKept DEF IInv
<1>3. ControlInv' /\ WorkerInv' /\ IoUnderHold' /\ ConfirmedWasPrinted'
  BY SMTT(30), <1>a DEF IInv, ControlInv, WorkerInv, IoUnderHold, ConfirmedWasPrinted
<1> QED
  BY Zenon, <1>1, <1>2, <1>3 DEF IInv

\* The clock and the Device Tests touch nothing the invariant relates.
LEMMA EnvironmentIInv ==
  ASSUME IInv, Tick \/ DeviceTests
  PROVE  IInv'
<1> USE ConstantsAssumption
    DEF jobVars, attemptVars, deviceVars, processVars
<1>a. /\ UNCHANGED <<jobVars, attemptVars, deviceVars, processVars>>
      /\ now' \in Time /\ testing' \subseteq Devices
  BY ZenonT(40) DEF IInv, TypeOK, Tick, DeviceTests
<1>1. TypeOK'
  BY Zenon, <1>a, SMTT(30) DEF IInv, TypeOK
<1>2. MarkersInv' /\ HoldsInv' /\ OutputInv'
  BY Zenon, <1>a, MarkersKept, HoldsKept, OutputKept DEF IInv
<1>3. ControlInv' /\ WorkerInv' /\ IoUnderHold' /\ ConfirmedWasPrinted'
  BY <1>a DEF IInv, ControlInv, WorkerInv, IoUnderHold, ConfirmedWasPrinted
<1> QED
  BY Zenon, <1>1, <1>2, <1>3 DEF IInv

\* A new job has no attempt yet.
LEMMA AdmitIInv ==
  ASSUME IInv, NEW j \in Jobs, Admit(j)
  PROVE  IInv'
<1> USE ConstantsAssumption DEF attemptVars, deviceVars, processVars, envVars
<1>a. /\ jobState[j] = "none"
      /\ jobState' = [jobState EXCEPT ![j] = "accepted"]
      /\ version' = [version EXCEPT ![j] = 1]
      /\ journal' = [journal EXCEPT ![j] = <<"accepted">>]
      /\ stamp' = [stamp EXCEPT ![j] = now]
      /\ original' = [original EXCEPT ![j] = "committed"]
      /\ UNCHANGED <<derived, keyWiped, attemptVars, deviceVars, processVars,
                     envVars>>
  BY Zenon DEF Admit
<1>b. journal' \in [Jobs -> Seq(JobStates)]
  <2>1. <<"accepted">> \in Seq(JobStates)
    OBVIOUS
  <2> QED
    BY Zenon, <1>a, <2>1 DEF IInv, TypeOK
<1>1. TypeOK'
  BY Zenon, <1>a, <1>b DEF IInv, TypeOK
<1>2. MarkersInv'
  BY Zenon, <1>a DEF IInv, TypeOK, MarkersInv
<1>3. HoldsInv' /\ OutputInv'
  BY <1>a DEF IInv, HoldsInv, HoldsMatchAttempts, OutputInv
<1>4. ControlInv' /\ WorkerInv' /\ IoUnderHold'
  BY <1>a DEF IInv, ControlInv, WorkerInv, IoUnderHold
<1>5. ConfirmedWasPrinted'
  BY ZenonT(40), <1>a DEF IInv, TypeOK, ConfirmedWasPrinted
<1> QED
  BY Zenon, <1>1, <1>2, <1>3, <1>4, <1>5 DEF IInv

\* A stop request changes no row and no coroutine.
LEMMA StopIInv ==
  ASSUME IInv, Stop
  PROVE  IInv'
<1> USE ConstantsAssumption DEF jobVars, attemptVars, deviceVars, envVars
<1>a. /\ up = "running" /\ up' = "stopping"
      /\ UNCHANGED <<jobVars, attemptVars, deviceVars, gen, pc, claim, result,
                     calls, cancelled, envVars>>
  BY Zenon DEF Stop
<1>1. TypeOK'
  BY Zenon, <1>a DEF IInv, TypeOK
<1>2. MarkersInv' /\ HoldsInv' /\ OutputInv'
  BY Zenon, <1>a, MarkersKept, HoldsKept, OutputKept DEF IInv
<1>3. ControlInv'
  BY Zenon, <1>a DEF IInv, ControlInv
<1>4. WorkerInv' /\ IoUnderHold' /\ ConfirmedWasPrinted'
  BY Zenon, <1>a DEF IInv, WorkerInv, IoUnderHold, ConfirmedWasPrinted
<1> QED
  BY Zenon, <1>1, <1>2, <1>3, <1>4 DEF IInv

\* A batch starts only when no call of an earlier one is in flight.
LEMMA StartBatchIInv ==
  ASSUME IInv, StartBatch
  PROVE  IInv'
<1> USE ConstantsAssumption DEF jobVars, attemptVars, deviceVars, envVars
<1>a. /\ up = "running" /\ \A w \in Workers : pc[w] = "idle"
      /\ pc' = [w \in Workers |-> "scheduled"]
      /\ UNCHANGED <<jobVars, attemptVars, deviceVars, up, gen, claim, result,
                     calls, cancelled, envVars>>
  BY Zenon DEF StartBatch
<1>b. calls = {} /\ cancelled = {} /\ \A w \in Workers : claim[w] = None
  <2>1. cancelled = {} /\ \A w \in Workers : claim[w] = None
    BY Zenon, <1>a DEF IInv, ControlInv
  <2>2. ASSUME NEW c \in calls PROVE FALSE
    <3>1. c.w \in Workers /\ c.op \in Ops
      BY Zenon DEF IInv, TypeOK
    <3>2. pc[c.w] = c.op
      BY Zenon, <1>a DEF IInv, ControlInv
    <3> QED
      BY Zenon, <1>a, <3>1, <3>2
  <2> QED
    BY Zenon, <2>1, <2>2
<1>1. TypeOK'
  BY Zenon, <1>a, SMTT(30) DEF IInv, TypeOK
<1>2. MarkersInv' /\ HoldsInv' /\ OutputInv'
  BY Zenon, <1>a, MarkersKept, HoldsKept, OutputKept DEF IInv
<1>3. ControlInv' /\ WorkerInv'
  BY Zenon, <1>a, <1>b DEF ControlInv, WorkerInv
<1>4. IoUnderHold' /\ ConfirmedWasPrinted'
  BY Zenon, <1>a DEF IInv, IoUnderHold, ConfirmedWasPrinted
<1> QED
  BY Zenon, <1>1, <1>2, <1>3, <1>4 DEF IInv

\* A crash forgets coroutines and calls; rows and output stay.
LEMMA CrashIInv ==
  ASSUME IInv, Crash
  PROVE  IInv'
<1> USE ConstantsAssumption DEF jobVars, attemptVars, envVars
<1>a. /\ up' = "down"
      /\ pc' = [w \in Workers |-> "idle"]
      /\ claim' = [w \in Workers |-> None]
      /\ calls' = {} /\ cancelled' = {}
      /\ child' = [a \in Attempts |-> IF child[a] \in {"ready", "confirmed",
                                                       "unknown"}
                                      THEN "gone" ELSE child[a]]
      /\ UNCHANGED <<jobVars, attemptVars, printed, gen, result, envVars>>
  BY Zenon DEF Crash
<1>1. TypeOK'
  BY Zenon, <1>a, SMTT(30) DEF IInv, TypeOK
<1>2. MarkersInv' /\ HoldsInv'
  BY Zenon, <1>a, MarkersKept, HoldsKept DEF IInv
<1>3. OutputInv'
  BY <1>a DEF IInv, TypeOK, OutputInv
<1>4. ControlInv' /\ WorkerInv'
  BY Zenon, <1>a DEF ControlInv, WorkerInv
<1>5. IoUnderHold' /\ ConfirmedWasPrinted'
  BY Zenon, <1>a DEF IInv, IoUnderHold, ConfirmedWasPrinted
<1> QED
  BY Zenon, <1>1, <1>2, <1>3, <1>4, <1>5 DEF IInv

\* Types of the control variables after a coroutine step.
LEMMA GotoType ==
  ASSUME TypeOK, NEW w \in Workers, NEW next \in Points, Goto(w, next)
  PROVE  /\ pc' \in [Workers -> Points]
         /\ claim' \in [Workers -> Attempts \cup {None}]
         /\ calls' \subseteq [w : Workers, op : Ops,
                              a : Attempts \cup {None}, at : Time]
<1>1. pc' \in [Workers -> Points] /\ claim' \in [Workers -> Attempts \cup {None}]
  BY Zenon DEF TypeOK, Goto
<1>2. CASE next \in Ops
  <2>1. Call(w, next, claim[w], now) \in [w : Workers, op : Ops,
                                          a : Attempts \cup {None}, at : Time]
    BY Zenon, <1>2 DEF TypeOK
  <2> QED
    BY Zenon, <1>1, <1>2, <2>1 DEF TypeOK, Goto
<1>3. CASE next \notin Ops
  BY Zenon, <1>1, <1>3 DEF TypeOK, Goto
<1> QED
  BY Zenon, <1>2, <1>3

\* A coroutine that drives an attempt moves on: nobody else is affected, and if
\* it leaves a call behind it was cancelled.
LEMMA GotoControl ==
  ASSUME IInv, NEW w \in Workers, NEW next \in Points, Goto(w, next),
         pc[w] \notin {"idle", "scheduled", "claim_next"},
         next \notin {"scheduled", "claim_next"},
         UNCHANGED <<phase, up>>,
         cancelled' = cancelled \/ (up = "stopping" /\ cancelled' = cancelled \cup {w}),
         pc[w] \in Ops => up = "stopping" /\ w \in cancelled'
  PROVE  ControlInv'
<1> USE ConstantsAssumption
<1>a. /\ pc' = [pc EXCEPT ![w] = next]
      /\ claim' = [claim EXCEPT ![w] = IF next = "idle" THEN None ELSE claim[w]]
      /\ calls' = IF next \in Ops
                  THEN calls \cup {Call(w, next, claim[w], now)} ELSE calls
  BY Zenon DEF Goto
<1>b. /\ claim[w] \in Attempts /\ phase[claim[w]] # "none"
      /\ \A c \in calls : c.w = w => c.op # "claim_next" /\ c.a = claim[w]
  BY DEF IInv, TypeOK, ControlInv
<1>c. up # "down"
  BY Zenon DEF IInv, ControlInv
<1>1. cancelled' # {} => up' = "stopping"
  BY Zenon DEF IInv, ControlInv
<1>2. ASSUME NEW v \in Workers
      PROVE  /\ pc'[v] \in {"idle", "scheduled", "claim_next"} <=> claim'[v] = None
             /\ claim'[v] # None => phase'[claim'[v]] # "none"
             /\ v \in cancelled' => pc'[v] \notin {"scheduled", "claim_next"}
             /\ \A u \in Workers : claim'[v] = claim'[u] /\ claim'[v] # None => v = u
  BY <1>a, <1>b DEF IInv, TypeOK, ControlInv
<1>3. ASSUME NEW c \in calls'
      PROVE  /\ c.op = "claim_next" <=> c.a = None
             /\ c.a # None => phase'[c.a] # "none"
             /\ claim'[c.w] \in {None, c.a}
             /\ c.op = "claim_next" =>
                  /\ pc'[c.w] \in {"claim_next", "idle"}
                  /\ \A d \in calls' : d.w = c.w => d = c
             /\ pc'[c.w] = c.op \/ (up' = "stopping" /\ c.w \in cancelled')
             /\ \A d \in calls' : d.w = c.w => d = c \/ c.w \in cancelled'
  <2>0. (\E c2 \in calls : c2.w = w) => w \in cancelled'
    BY DEF IInv, TypeOK, ControlInv
  <2>1. CASE c \in calls
    BY SMTT(30), <1>a, <1>b, <2>0, <2>1 DEF IInv, TypeOK, ControlInv
  <2>2. CASE c = Call(w, next, claim[w], now) /\ next \in Ops
    BY SMTT(30), <1>a, <1>b, <2>0, <2>2 DEF IInv, TypeOK, ControlInv
  <2> QED
    BY Zenon, <1>a, <1>3, <2>1, <2>2
<1> QED
  BY Zenon, <1>1, <1>c, <1>2, <1>3 DEF ControlInv

\* A coroutine past its claim drives one attempt, alone.
LEMMA Driving ==
  ASSUME IInv, NEW w \in Workers,
         pc[w] \notin {"idle", "scheduled", "claim_next"}
  PROVE  /\ claim[w] \in Attempts /\ phase[claim[w]] # "none"
         /\ \A v \in Workers : claim[v] = claim[w] => v = w
<1>1. claim[w] # None
  BY Zenon DEF IInv, ControlInv
<1>2. claim[w] \in Attempts
  BY Zenon, <1>1 DEF IInv, TypeOK
<1> QED
  BY Zenon, <1>1, <1>2 DEF IInv, ControlInv

\* A printer process that has produced output can only move towards its end.
LEMMA ChildUpdateOutput ==
  ASSUME IInv, NEW a \in Attempts, NEW s \in ChildStates,
         child' = [child EXCEPT ![a] = s],
         UNCHANGED <<phase, marked, printed, job>>,
         phase[a] # "none",
         s \in {"permitted", "printed", "confirmed", "unknown"} => a \in marked,
         s \in {"printed", "confirmed"} => printed[job[a]] = 1,
         child[a] \in {"printed", "confirmed", "unknown", "gone"} =>
             s \in {"printed", "confirmed", "unknown", "gone"}
  PROVE  OutputInv'
<1>0. child \in [Attempts -> ChildStates]
  BY Zenon DEF IInv, TypeOK
<1>1. ASSUME NEW b \in Attempts
      PROVE  /\ phase'[b] = "none" => child'[b] = "none"
             /\ child'[b] \in {"permitted", "printed", "confirmed", "unknown"} =>
                   b \in marked'
             /\ child'[b] \in {"printed", "confirmed"} => printed'[job'[b]] = 1
  BY ZenonT(40), <1>0 DEF IInv, OutputInv
<1>2. ASSUME NEW j \in Jobs
      PROVE  /\ printed'[j] \in {0, 1}
             /\ printed'[j] = 1 => \E b \in Attempts :
                   /\ job'[b] = j /\ b \in marked'
                   /\ child'[b] \in {"printed", "confirmed", "unknown", "gone"}
  BY Zenon, <1>0 DEF IInv, OutputInv
<1> QED
  BY Zenon, <1>1, <1>2 DEF OutputInv

\* run_one issues its claim.
LEMMA RunOneIInv ==
  ASSUME IInv, NEW w \in Workers, RunOne(w)
  PROVE  IInv'
<1> USE ConstantsAssumption DEF jobVars, attemptVars, deviceVars, envVars
<1>a. /\ pc[w] = "scheduled" /\ Goto(w, "claim_next")
      /\ UNCHANGED <<jobVars, attemptVars, deviceVars, up, gen, result,
                     cancelled, envVars>>
  BY Zenon DEF RunOne
<1>b. claim[w] = None /\ w \notin cancelled /\ up # "down"
  BY Zenon, <1>a DEF IInv, ControlInv
<1>c. /\ pc' = [pc EXCEPT ![w] = "claim_next"]
      /\ claim' = claim
      /\ calls' = calls \cup {Call(w, "claim_next", None, now)}
  BY ZenonT(40), <1>a, <1>b DEF Goto, IInv, TypeOK
<1>d. ASSUME NEW c \in calls, c.w = w PROVE FALSE
  <2>1. c.op = "scheduled"
    BY Zenon, <1>a, <1>b, <1>d DEF IInv, ControlInv
  <2>2. c.op \in Ops
    BY Zenon DEF IInv, TypeOK
  <2> QED
    BY Zenon, <2>1, <2>2
<1>1. TypeOK'
  BY Zenon, <1>a, GotoType DEF IInv, TypeOK
<1>2. MarkersInv' /\ HoldsInv' /\ OutputInv'
  BY Zenon, <1>a, MarkersKept, HoldsKept, OutputKept DEF IInv
<1>3. ControlInv'
  BY <1>a, <1>b, <1>c, <1>d, SMTT(30) DEF IInv, TypeOK, ControlInv
<1>4. WorkerInv'
  BY <1>a, <1>c, <1>d, SMTT(30) DEF IInv, TypeOK, WorkerInv
<1>5. IoUnderHold' /\ ConfirmedWasPrinted'
  BY Zenon, <1>a DEF IInv, IoUnderHold, ConfirmedWasPrinted
<1> QED
  BY Zenon, <1>1, <1>2, <1>3, <1>4, <1>5 DEF IInv

\* The printer process is started: its attempt has none yet.
LEMMA StartWorkerIInv ==
  ASSUME IInv, NEW w \in Workers, StartWorker(w)
  PROVE  IInv'
<1> USE ConstantsAssumption DEF jobVars, attemptVars, envVars
<1>a. PICK s \in {"none", "ready"}, next \in {"mark_io_started", "fail_before_io"} :
        /\ pc[w] = "start_worker"
        /\ child' = [child EXCEPT ![claim[w]] = s]
        /\ Goto(w, next)
        /\ UNCHANGED <<jobVars, attemptVars, printed, up, gen, result,
                       cancelled, envVars>>
  BY Zenon DEF StartWorker
<1>b. /\ claim[w] \in Attempts /\ child[claim[w]] = "none"
      /\ phase[claim[w]] # "none"
  BY Zenon, <1>a, Driving DEF IInv, WorkerInv
<1>c. /\ pc' = [pc EXCEPT ![w] = next]
      /\ claim' = claim
      /\ calls' = calls \cup {Call(w, next, claim[w], now)}
  BY ZenonT(40), <1>a DEF Goto, IInv, TypeOK
<1>1. TypeOK'
  BY Zenon, <1>a, GotoType DEF IInv, TypeOK
<1>2. MarkersInv' /\ HoldsInv'
  BY Zenon, <1>a, MarkersKept, HoldsKept DEF IInv
<1>3. OutputInv'
  BY Zenon, <1>a, <1>b, ChildUpdateOutput
<1>4. ControlInv'
  BY Zenon, <1>a, GotoControl
<1>5. WorkerInv'
  BY <1>a, <1>b, <1>c, SMTT(30) DEF IInv, TypeOK, ControlInv, WorkerInv
<1>6. IoUnderHold' /\ ConfirmedWasPrinted'
  BY <1>a, <1>b DEF IInv, TypeOK, IoUnderHold, ConfirmedWasPrinted
<1> QED
  BY Zenon, <1>1, <1>2, <1>3, <1>4, <1>5, <1>6 DEF IInv

\* execute returns; a confirmation was preceded by output.
LEMMA ExecuteIInv ==
  ASSUME IInv, NEW w \in Workers, Execute(w)
  PROVE  IInv'
<1> USE ConstantsAssumption DEF jobVars, attemptVars, deviceVars, envVars
<1>a. PICK r \in {"confirmed", "unknown"} :
        /\ pc[w] = "execute"
        /\ result' = [result EXCEPT ![w] = r]
        /\ r = "confirmed" => child[claim[w]] = "confirmed"
        /\ Goto(w, "close")
        /\ UNCHANGED <<jobVars, attemptVars, deviceVars, up, gen, cancelled,
                       envVars>>
  BY Zenon DEF Execute, DriverOutcome
<1>b. /\ claim[w] \in Attempts
      /\ r = "confirmed" => printed[job[claim[w]]] = 1
  BY Zenon, <1>a, Driving DEF IInv, OutputInv
<1>c. /\ pc' = [pc EXCEPT ![w] = "close"]
      /\ claim' = claim /\ calls' = calls
  BY SMTT(30), <1>a DEF Goto, IInv, TypeOK
<1>d. \A c \in calls : c.w = w => c.op # "finish"
  BY Zenon, <1>a, SMTT(30) DEF IInv, WorkerInv
<1>1. TypeOK'
  BY Zenon, <1>a, GotoType DEF IInv, TypeOK
<1>2. MarkersInv' /\ HoldsInv' /\ OutputInv'
  BY Zenon, <1>a, MarkersKept, HoldsKept, OutputKept DEF IInv
<1>3. ControlInv'
  BY Zenon, <1>a, GotoControl
<1>4. WorkerInv'
  BY <1>a, <1>b, <1>c, <1>d, SMTT(30) DEF IInv, TypeOK, WorkerInv
<1>5. IoUnderHold' /\ ConfirmedWasPrinted'
  BY Zenon, <1>a DEF IInv, IoUnderHold, ConfirmedWasPrinted
<1> QED
  BY Zenon, <1>1, <1>2, <1>3, <1>4, <1>5 DEF IInv

\* close, cleanup and the handlers of run_one: the process ends, or it does not
\* and the coroutine does.
LEMMA ClosingIInv ==
  ASSUME IInv, NEW w \in Workers, Close(w) \/ Cleanup(w) \/ Abort(w)
  PROVE  IInv'
<1> USE ConstantsAssumption DEF jobVars, attemptVars, envVars
<1>a. PICK s \in {child[claim[w]], "gone"}, next \in {"finish", "abort", "idle", "abandon"} :
        /\ pc[w] \in {"close", "cleanup", "abort"}
        /\ child' = [child EXCEPT ![claim[w]] = s]
        /\ s = "gone" => pc[w] # "cleanup" \/ child[claim[w]] # "none"
        /\ next \in {"finish", "abandon"} => s = "gone"
        /\ next = "finish" => pc[w] = "close"
        /\ Goto(w, next)
        /\ UNCHANGED <<jobVars, attemptVars, printed, up, gen, result,
                       cancelled, envVars>>
  BY ZenonT(90) DEF Close, Cleanup, Abort, IInv, TypeOK
<1>b. /\ claim[w] \in Attempts /\ phase[claim[w]] # "none"
      /\ \A v \in Workers : claim[v] = claim[w] => v = w
  BY Zenon, <1>a, Driving
<1>e. child[claim[w]] \in ChildStates
  BY Zenon, <1>b DEF IInv, TypeOK
<1>c. /\ pc' = [pc EXCEPT ![w] = next]
      /\ claim' = [claim EXCEPT ![w] = IF next = "idle" THEN None ELSE claim[w]]
      /\ calls' = IF next \in Ops THEN calls \cup {Call(w, next, claim[w], now)}
                                  ELSE calls
  BY Zenon, <1>a DEF Goto
<1>d. \A c \in calls : c.w = w => c.op # "finish"
  BY Zenon, <1>a DEF IInv, WorkerInv
<1>1. TypeOK'
  BY ZenonT(30), <1>a, <1>b, GotoType DEF IInv, TypeOK
<1>2. MarkersInv' /\ HoldsInv'
  BY Zenon, <1>a, MarkersKept, HoldsKept DEF IInv
<1>3. OutputInv'
  <2>1. /\ s \in {"permitted", "printed", "confirmed", "unknown"} =>
             claim[w] \in marked
        /\ s \in {"printed", "confirmed"} => printed[job[claim[w]]] = 1
    BY <1>a, <1>b DEF IInv, OutputInv
  <2> QED
    BY Zenon, <1>a, <1>b, <1>e, <2>1, ChildUpdateOutput
<1>4. ControlInv'
  BY Zenon, <1>a, GotoControl
<1>5. WorkerInv'
  BY <1>a, <1>b, <1>c, <1>d, SMTT(30) DEF IInv, TypeOK, WorkerInv
<1>6. IoUnderHold' /\ ConfirmedWasPrinted'
  BY <1>a, <1>b, SMTT(30) DEF IInv, TypeOK, IoUnderHold, ConfirmedWasPrinted
<1> QED
  BY Zenon, <1>1, <1>2, <1>3, <1>4, <1>5, <1>6 DEF IInv

\* Cancellation: an orphaned call belongs to a process that is stopping, and no
\* cancelled coroutine records an outcome before its printer process ended.
LEMMA CancelIInv ==
  ASSUME IInv, NEW w \in Workers, Cancel(w)
  PROVE  IInv'
<1> USE ConstantsAssumption DEF jobVars, attemptVars, deviceVars, envVars
<1> DEFINE next == AfterCancel(pc[w])
<1>a. /\ up = "stopping" /\ pc[w] # "idle" /\ w \notin cancelled
      /\ cancelled' = cancelled \cup {w}
      /\ Goto(w, next)
      /\ result' = IF pc[w] = "execute" THEN [result EXCEPT ![w] = "unknown"]
                                        ELSE result
      /\ UNCHANGED <<jobVars, attemptVars, deviceVars, up, gen, envVars>>
  BY Zenon DEF Cancel
<1>b. pc[w] \in Points
  BY Zenon DEF IInv, TypeOK
<1>c. /\ next \in {"idle", "cleanup", "abort", "close", "abandon"}
      /\ next = "abandon" => pc[w] = "finish"
      /\ next = "close" => pc[w] = "execute"
      /\ pc[w] \in {"scheduled", "claim_next"} => next = "idle"
      /\ pc[w] \in {"finish", "spool_release", "abandon"} =>
            next \in {"abandon", "idle"}
  BY Zenon, <1>a, <1>b DEF AfterCancel
<1> HIDE DEF next
<1>d. /\ pc' = [pc EXCEPT ![w] = next]
      /\ claim' = [claim EXCEPT ![w] = IF next = "idle" THEN None ELSE claim[w]]
      /\ calls' = IF next \in Ops THEN calls \cup {Call(w, next, claim[w], now)}
                                  ELSE calls
  BY Zenon, <1>a DEF Goto
<1>1. TypeOK'
  <2>1. result' \in [Workers -> {"confirmed", "unknown"}]
    BY Zenon, <1>a DEF IInv, TypeOK
  <2> QED
    BY ZenonT(30), <1>a, <1>c, <2>1, GotoType DEF IInv, TypeOK
<1>2. MarkersInv' /\ HoldsInv' /\ OutputInv'
  BY Zenon, <1>a, MarkersKept, HoldsKept, OutputKept DEF IInv
<1>3. ControlInv'
  <2>1. CASE pc[w] \in {"scheduled", "claim_next"}
    <3>1. claim' = claim /\ calls' = calls /\ claim[w] = None
      BY <1>c, <1>d, <2>1, SMTT(30) DEF IInv, ControlInv, TypeOK
    <3> QED
      BY <1>a, <1>c, <1>d, <2>1, <3>1, SMTT(30) DEF IInv, TypeOK, ControlInv
  <2>2. CASE pc[w] \notin {"scheduled", "claim_next"}
    BY Zenon, <1>a, <1>c, <2>2, GotoControl
  <2> QED
    BY Zenon, <2>1, <2>2
<1>4. WorkerInv'
  <2>1. ASSUME NEW v \in Workers
        PROVE  /\ pc'[v] \in {"spool_prepare", "mark_prepared", "start_worker"} =>
                     child'[claim'[v]] = "none"
               /\ pc'[v] \in {"finish", "spool_release", "abandon"} =>
                     child'[claim'[v]] = "gone"
               /\ pc'[v] \in {"close", "finish"} /\ result'[v] = "confirmed" =>
                     printed'[job'[claim'[v]]] = 1
    BY <1>a, <1>c, <1>d, SMTT(30) DEF IInv, TypeOK, WorkerInv
  <2>2. ASSUME NEW c \in calls'
        PROVE  /\ c.op \in {"finish", "spool_release", "abandon"} =>
                     child'[c.a] = "gone"
               /\ c.op = "finish" =>
                     /\ pc'[c.w] \in {"finish", "spool_release", "abandon", "idle"}
                     /\ result'[c.w] = "confirmed" => printed'[job'[c.a]] = 1
    <3>1. CASE c \in calls
      BY <1>a, <1>c, <1>d, <3>1, SMTT(30) DEF IInv, TypeOK, WorkerInv
    <3>2. CASE c = Call(w, next, claim[w], now) /\ next \in Ops
      BY Zenon, <1>a, <1>c, <1>d, <3>2 DEF IInv, TypeOK, WorkerInv
    <3> QED
      BY Zenon, <1>d, <2>2, <3>1, <3>2
  <2> QED
    BY Zenon, <2>1, <2>2 DEF WorkerInv
<1>5. IoUnderHold' /\ ConfirmedWasPrinted'
  BY Zenon, <1>a DEF IInv, IoUnderHold, ConfirmedWasPrinted
<1> QED
  BY Zenon, <1>1, <1>2, <1>3, <1>4, <1>5 DEF IInv

\* Types of the control variables after the end of a call.
LEMMA ContinueType ==
  ASSUME TypeOK, NEW c \in calls, NEW next \in Points,
         NEW a \in Attempts \cup {None}, Continue(c, next, a)
  PROVE  /\ pc' \in [Workers -> Points]
         /\ claim' \in [Workers -> Attempts \cup {None}]
         /\ calls' \subseteq [w : Workers, op : Ops,
                              a : Attempts \cup {None}, at : Time]
<1>0. c.w \in Workers
  BY ZenonT(40) DEF TypeOK
<1>1. pc' \in [Workers -> Points] /\ claim' \in [Workers -> Attempts \cup {None}]
  <2>1. CASE pc[c.w] = c.op
    <3>1. /\ pc' = [pc EXCEPT ![c.w] = next]
          /\ claim' = [claim EXCEPT ![c.w] = IF next = "idle" THEN None ELSE a]
      BY Zenon, <2>1 DEF Continue
    <3> QED
      BY Zenon, <1>0, <3>1 DEF TypeOK
  <2>2. CASE pc[c.w] # c.op
    BY SMTT(30), <2>2 DEF TypeOK, Continue
  <2> QED
    BY Zenon, <2>1, <2>2
<1>2. CASE next \in Ops
  <2>1. Call(c.w, next, a, now) \in [w : Workers, op : Ops,
                                     a : Attempts \cup {None}, at : Time]
    BY Zenon, <1>0, <1>2 DEF TypeOK
  <2> QED
    BY <1>1, <1>2, <2>1, SMTT(30) DEF TypeOK, Continue
<1>3. CASE next \notin Ops
  <2>1. calls' = calls \ {c}
    BY Zenon, <1>3 DEF Continue
  <2> QED
    BY Zenon, <1>1, <2>1 DEF TypeOK
<1> QED
  BY Zenon, <1>2, <1>3

\* The end of a call that works on an attempt.
LEMMA ContinueControl ==
  ASSUME IInv, NEW c \in calls, NEW next \in Points, Continue(c, next, c.a),
         c.op # "claim_next",
         next \notin {"scheduled", "claim_next"},
         UNCHANGED <<up, cancelled>>,
         \A b \in Attempts : phase[b] # "none" => phase'[b] # "none"
  PROVE  ControlInv'
<1> USE ConstantsAssumption
<1>0. /\ c.w \in Workers /\ c.a \in Attempts /\ phase[c.a] # "none"
      /\ up # "down" /\ claim[c.w] \in {None, c.a}
  BY SMTT(30) DEF IInv, TypeOK, ControlInv
<1>1. CASE pc[c.w] # c.op
  <2>1. calls' = calls \ {c} /\ pc' = pc /\ claim' = claim
    BY Zenon, <1>1 DEF Continue
  <2> QED
    BY <1>0, <2>1, SMTT(30) DEF IInv, TypeOK, ControlInv
<1>2. CASE pc[c.w] = c.op
  <2>0. c.op \in Ops
    BY ZenonT(40) DEF IInv, TypeOK
  <2>a. /\ pc' = [pc EXCEPT ![c.w] = next]
        /\ claim' = [claim EXCEPT ![c.w] = IF next = "idle" THEN None ELSE c.a]
        /\ calls' = (calls \ {c}) \cup
                    (IF next \in Ops THEN {Call(c.w, next, c.a, now)} ELSE {})
    BY Zenon, <1>2 DEF Continue
  <2>b. claim[c.w] = c.a /\ \A v \in Workers : claim[v] = c.a => v = c.w
    BY <1>0, <1>2, <2>0 DEF IInv, ControlInv
  <2>c. \A d \in calls : d.w = c.w => d.op # "claim_next" /\ d.a = c.a
    BY ZenonT(40), <1>0, <1>2, <2>0, <2>b DEF IInv, ControlInv
  <2>1. cancelled' # {} => up' = "stopping"
    BY Zenon DEF IInv, ControlInv
  <2>2. ASSUME NEW v \in Workers
        PROVE  /\ pc'[v] \in {"idle", "scheduled", "claim_next"} <=> claim'[v] = None
               /\ claim'[v] # None => phase'[claim'[v]] # "none"
               /\ v \in cancelled' => pc'[v] \notin {"scheduled", "claim_next"}
               /\ \A u \in Workers : claim'[v] = claim'[u] /\ claim'[v] # None => v = u
    BY <1>0, <2>a, <2>b, SMTT(30) DEF IInv, TypeOK, ControlInv
  <2>3. ASSUME NEW d \in calls'
        PROVE  /\ d.op = "claim_next" <=> d.a = None
               /\ d.a # None => phase'[d.a] # "none"
               /\ claim'[d.w] \in {None, d.a}
               /\ d.op = "claim_next" =>
                    /\ pc'[d.w] \in {"claim_next", "idle"}
                    /\ \A e \in calls' : e.w = d.w => e = d
               /\ pc'[d.w] = d.op \/ (up' = "stopping" /\ d.w \in cancelled')
               /\ \A e \in calls' : e.w = d.w => e = d \/ d.w \in cancelled'
    <3>1. CASE d \in calls /\ d # c /\ d.w # c.w
      <4>1. pc'[d.w] = pc[d.w] /\ claim'[d.w] = claim[d.w]
        BY ZenonT(40), <2>a, <3>1 DEF IInv, TypeOK
      <4>2. \A e \in calls' : e.w = d.w => e \in calls
        BY <2>a, <3>1
      <4>3. /\ d.op = "claim_next" <=> d.a = None
            /\ d.a # None => d.a \in Attempts /\ phase[d.a] # "none"
            /\ claim[d.w] \in {None, d.a}
            /\ d.op = "claim_next" =>
                 /\ pc[d.w] \in {"claim_next", "idle"}
                 /\ \A e \in calls : e.w = d.w => e = d
            /\ pc[d.w] = d.op \/ (up = "stopping" /\ d.w \in cancelled)
            /\ \A e \in calls : e.w = d.w => e = d \/ d.w \in cancelled
        BY <3>1, SMTT(30) DEF IInv, TypeOK, ControlInv
      <4> QED
        BY Zenon, <4>1, <4>2, <4>3
    <3>2. CASE d \in calls /\ d # c /\ d.w = c.w
      <4>1. d.op # "claim_next" /\ d.a = c.a /\ claim'[d.w] \in {None, c.a}
        BY SMTT(30), <1>0, <2>a, <2>c, <3>2 DEF IInv, TypeOK
      <4>2. up = "stopping" /\ d.w \in cancelled
        BY Zenon, <3>2 DEF IInv, ControlInv
      <4> QED
        BY Zenon, <1>0, <4>1, <4>2
    <3>3. CASE d = Call(c.w, next, c.a, now) /\ next \in Ops
      <4>1. /\ d.w = c.w /\ d.op = next /\ d.a = c.a
            /\ pc'[d.w] = next /\ claim'[d.w] = c.a
        BY SMTT(30), <1>0, <2>a, <3>3 DEF IInv, TypeOK
      <4>2. \A e \in calls' : e.w = c.w => e = d \/ (e \in calls /\ e # c)
        BY Zenon, <2>a, <3>3
      <4>3. \A e \in calls' : e.w = c.w => e = d \/ c.w \in cancelled'
        BY Zenon, <4>2 DEF IInv, ControlInv
      <4> QED
        BY Zenon, <1>0, <4>1, <4>3
    <3> QED
      BY Zenon, <2>3, <2>a, <3>1, <3>2, <3>3
  <2> QED
    BY Zenon, <1>0, <2>1, <2>2, <2>3 DEF ControlInv
<1> QED
  BY Zenon, <1>1, <1>2

\* What is known of the printer processes after the end of a call that works on
\* an attempt.  A permit only moves a process that waits for it.
LEMMA ContinueWorker ==
  ASSUME IInv, NEW c \in calls, NEW next \in Points, Continue(c, next, c.a),
         c.op # "claim_next",
         next \notin {"close", "finish"},
         pc[c.w] = c.op /\ next \in {"spool_prepare", "mark_prepared", "start_worker"}
            => child[c.a] = "none",
         pc[c.w] = c.op /\ next \in {"spool_release", "abandon"} => child[c.a] = "gone",
         c.op \in {"finish", "spool_release", "abandon"} =>
            next \in {"spool_release", "abandon", "idle"},
         \A b \in Attempts : child[b] \in {"none", "gone"} => child'[b] = child[b],
         UNCHANGED <<result, printed, job>>
  PROVE  WorkerInv'
<1> USE ConstantsAssumption
<1>0. c.w \in Workers /\ c.a \in Attempts
  BY SMTT(30) DEF IInv, TypeOK, ControlInv
<1>1. ASSUME NEW v \in Workers
      PROVE  /\ pc'[v] \in {"spool_prepare", "mark_prepared", "start_worker"} =>
                   child'[claim'[v]] = "none"
             /\ pc'[v] \in {"finish", "spool_release", "abandon"} =>
                   child'[claim'[v]] = "gone"
             /\ pc'[v] \in {"close", "finish"} /\ result'[v] = "confirmed" =>
                   printed'[job'[claim'[v]]] = 1
  <2>1. CASE pc'[v] = pc[v] /\ claim'[v] = claim[v]
    <3>1. pc[v] \in {"spool_prepare", "mark_prepared", "start_worker",
                     "finish", "spool_release", "abandon"} =>
             claim[v] \in Attempts
      BY Zenon, Driving
    <3> QED
      BY <2>1, <3>1, SMTT(30) DEF IInv, WorkerInv
  <2>2. CASE v = c.w /\ pc[c.w] = c.op
    <3>1. pc'[v] = next /\ claim'[v] = IF next = "idle" THEN None ELSE c.a
      BY <1>0, <2>2, SMTT(30) DEF Continue, IInv, TypeOK
    <3> QED
      BY Zenon, <1>0, <2>2, <3>1
  <2>3. CASE v # c.w \/ pc[c.w] # c.op
    <3>1. pc'[v] = pc[v] /\ claim'[v] = claim[v]
      BY <2>3, SMTT(30) DEF Continue, IInv, TypeOK
    <3> QED
      BY Zenon, <2>1, <3>1
  <2> QED
    BY Zenon, <2>2, <2>3
<1>2. ASSUME NEW d \in calls'
      PROVE  /\ d.op \in {"finish", "spool_release", "abandon"} => child'[d.a] = "gone"
             /\ d.op = "finish" =>
                   /\ pc'[d.w] \in {"finish", "spool_release", "abandon", "idle"}
                   /\ result'[d.w] = "confirmed" => printed'[job'[d.a]] = 1
  <2>1. CASE d \in calls
    <3>1. d.op \in {"finish", "spool_release", "abandon"} => d.a \in Attempts
      BY <2>1, SMTT(30) DEF IInv, TypeOK, ControlInv
    <3>2. d.op = "finish" =>
             pc'[d.w] \in {"finish", "spool_release", "abandon", "idle"}
      <4>1. CASE pc'[d.w] = pc[d.w]
        BY Zenon, <2>1, <4>1 DEF IInv, WorkerInv
      <4>2. CASE d.w = c.w /\ pc[c.w] = c.op
        <5>1. pc'[d.w] = next /\ c.op \in Ops
          BY SMTT(30), <1>0, <4>2 DEF Continue, IInv, TypeOK
        <5>2. d.op = "finish" => c.op \in {"finish", "spool_release", "abandon"}
          BY Zenon, <2>1, <4>2, <5>1 DEF IInv, WorkerInv
        <5> QED
          BY Zenon, <5>1, <5>2
      <4>3. CASE d.w # c.w \/ pc[c.w] # c.op
        <5>1. pc'[d.w] = pc[d.w]
          BY <2>1, <4>3, SMTT(30) DEF Continue, IInv, TypeOK
        <5> QED
          BY Zenon, <4>1, <5>1
      <4> QED
        BY Zenon, <4>2, <4>3
    <3> QED
      BY ZenonT(40), <2>1, <3>1, <3>2 DEF IInv, WorkerInv
  <2>2. CASE d = Call(c.w, next, c.a, now) /\ pc[c.w] = c.op /\ next \in Ops
    BY Zenon, <1>0, <2>2
  <2> QED
    BY <1>2, <2>1, <2>2, SMTT(30) DEF Continue
<1> QED
  BY Zenon, <1>1, <1>2 DEF WorkerInv

\* A publication changes the rows of its jobs, and keeps every type.
LEMMA PublishType ==
  ASSUME TypeOK, NEW S \in SUBSET Jobs, NEW new \in [S -> JobStates],
         NEW t \in Time, Publish(new, t)
  PROVE  /\ jobState' \in [Jobs -> JobStates]
         /\ version' \in [Jobs -> Nat]
         /\ journal' \in [Jobs -> Seq(JobStates)]
         /\ stamp' \in [Jobs -> Time]
         /\ original' \in [Jobs -> ArtifactStates]
         /\ derived' \in [Jobs -> ArtifactStates]
         /\ keyWiped' \subseteq Jobs
         /\ \A j \in Jobs : jobState'[j] = IF j \in S THEN new[j] ELSE jobState[j]
<1>0. DOMAIN new = S
  BY Zenon
<1>1. jobState' = [j \in Jobs |-> IF j \in S THEN new[j] ELSE jobState[j]]
  BY Zenon, <1>0 DEF Publish
<1>2. jobState' \in [Jobs -> JobStates]
  BY ZenonT(40), <1>1 DEF TypeOK
<1>3. version' \in [Jobs -> Nat] /\ stamp' \in [Jobs -> Time]
  BY SMTT(30), <1>0 DEF TypeOK, Publish
<1>4. journal' \in [Jobs -> Seq(JobStates)]
  <2>1. ASSUME NEW j \in Jobs
        PROVE  (IF j \in S THEN Append(journal[j], new[j]) ELSE journal[j])
                  \in Seq(JobStates)
    BY DEF TypeOK
  <2>2. journal' = [j \in Jobs |-> IF j \in S THEN Append(journal[j], new[j])
                                              ELSE journal[j]]
    BY Zenon, <1>0 DEF Publish
  <2> HIDE DEF JobStates
  <2> QED
    BY Zenon, <2>1, <2>2
<1>5. original' \in [Jobs -> ArtifactStates] /\ derived' \in [Jobs -> ArtifactStates]
  BY Zenon, <1>0 DEF TypeOK, Publish, Scheduled
<1>6. keyWiped' \subseteq Jobs
  BY Zenon, <1>0 DEF TypeOK, Publish
<1> QED
  BY Zenon, <1>1, <1>2, <1>3, <1>4, <1>5, <1>6

\* The publication of one job.
LEMMA PublishOne ==
  ASSUME TypeOK, NEW j \in Jobs, NEW s \in JobStates, NEW t \in Time,
         Publish([i \in {j} |-> s], t)
  PROVE  /\ jobState' = [jobState EXCEPT ![j] = s]
         /\ version' \in [Jobs -> Nat]
         /\ journal' \in [Jobs -> Seq(JobStates)]
         /\ stamp' \in [Jobs -> Time]
         /\ original' \in [Jobs -> ArtifactStates]
         /\ derived' \in [Jobs -> ArtifactStates]
         /\ keyWiped' \subseteq Jobs
<1>1. [i \in {j} |-> s] \in [{j} -> JobStates] /\ {j} \in SUBSET Jobs
  BY Zenon
<1>2. /\ jobState' \in [Jobs -> JobStates]
      /\ \A k \in Jobs : jobState'[k] = IF k \in {j} THEN [i \in {j} |-> s][k]
                                                     ELSE jobState[k]
      /\ version' \in [Jobs -> Nat]
      /\ journal' \in [Jobs -> Seq(JobStates)]
      /\ stamp' \in [Jobs -> Time]
      /\ original' \in [Jobs -> ArtifactStates]
      /\ derived' \in [Jobs -> ArtifactStates]
      /\ keyWiped' \subseteq Jobs
  BY Zenon, <1>1, PublishType
<1>3. jobState' = [jobState EXCEPT ![j] = s]
  BY Zenon, <1>2 DEF TypeOK
<1> QED
  BY Zenon, <1>2, <1>3

\* A call other than claim_next names an attempt that exists.
LEMMA CallFacts ==
  ASSUME IInv, NEW c \in calls, c.op # "claim_next"
  PROVE  /\ c.w \in Workers /\ c.a \in Attempts /\ c.at \in Time
         /\ phase[c.a] # "none" /\ job[c.a] \in Jobs
         /\ up # "down"
         /\ pc[c.w] = c.op => claim[c.w] = c.a
<1>1. c.w \in Workers /\ c.a \in Attempts /\ c.at \in Time /\ c.op \in Ops
  BY SMTT(30) DEF IInv, TypeOK, ControlInv
<1>2. phase[c.a] # "none" /\ up # "down" /\ (pc[c.w] = c.op => claim[c.w] = c.a)
  BY Zenon, <1>1, ConstantsAssumption DEF IInv, ControlInv
<1> QED
  BY Zenon, <1>1, <1>2 DEF IInv, MarkersInv

\* An attempt ends: its hold is the only one released, and its job gets a state
\* that agrees with its marker.
LEMMA EndAttempt ==
  ASSUME IInv, NEW a \in Attempts, NEW p \in {"finished", "recovered"},
         NEW s \in JobStates,
         phase[a] \in ActivePhases,
         phase' = [phase EXCEPT ![a] = p],
         holds' = Released(a),
         jobState' = [jobState EXCEPT ![job[a]] = s],
         child[a] \notin {"permitted", "printed"},
         a \in marked => s \in {"outcome_unknown", "output_confirmed"},
         a \notin marked => jobState[job[a]] = "accepted",
         s = "output_confirmed" => printed[job[a]] = 1,
         UNCHANGED <<job, owner, marked, child, printed, up, gen>>
  PROVE  MarkersInv' /\ HoldsInv' /\ OutputInv' /\ IoUnderHold' /\ ConfirmedWasPrinted'
<1>0. /\ phase \in [Attempts -> ActivePhases \cup {"none", "finished", "recovered"}]
      /\ jobState \in [Jobs -> JobStates]
      /\ job[a] \in Jobs
      /\ \A b \in Attempts : phase[b] \in ActivePhases /\ job[b] = job[a] => b = a
  BY Zenon DEF IInv, TypeOK, MarkersInv, HoldsInv
<1>1. MarkersInv'
  <2>1. ASSUME NEW b \in Attempts
        PROVE  /\ phase'[b] = "none" => b \notin marked' /\ owner'[b] = 0
               /\ phase'[b] # "none" => job'[b] \in Jobs /\ owner'[b] \in Generations
    BY Zenon, <1>0 DEF IInv, MarkersInv
  <2>2. ASSUME NEW b \in Attempts, phase'[b] \in Marked
        PROVE  b \in marked' /\ jobState'[job'[b]] = "in_progress"
    <3>1. b # a /\ phase[b] \in Marked
      BY Zenon, <1>0, <2>2
    <3>2. job[b] # job[a] /\ job[b] \in Jobs
      BY Zenon, <1>0, <3>1 DEF IInv, MarkersInv
    <3> QED
      BY Zenon, <1>0, <3>1, <3>2 DEF IInv, MarkersInv
  <2>3. ASSUME NEW b \in Attempts, b \in marked'
        PROVE  jobState'[job'[b]] \in {"in_progress", "outcome_unknown",
                                       "output_confirmed"}
    <3>1. b \in marked /\ job[b] \in Jobs
      BY Zenon, <2>3 DEF IInv, MarkersInv
    <3>2. CASE job[b] = job[a]
      <4>1. a \in marked
        BY Zenon, <3>1, <3>2 DEF IInv, MarkersInv
      <4> QED
        BY Zenon, <1>0, <3>2, <4>1
    <3>3. CASE job[b] # job[a]
      BY Zenon, <1>0, <3>1, <3>3 DEF IInv, MarkersInv
    <3> QED
      BY Zenon, <3>2, <3>3
  <2>4. \A b, d \in Attempts : b \in marked' /\ d \in marked' /\ job'[b] = job'[d] => b = d
    BY Zenon DEF IInv, MarkersInv
  <2> QED
    BY Zenon, <2>1, <2>2, <2>3, <2>4 DEF MarkersInv
<1>2. HoldsInv'
  <2>1. \A b \in Attempts : phase'[b] \in ActivePhases <=>
                               phase[b] \in ActivePhases /\ b # a
    BY Zenon, <1>0
  <2>2. \A b, d \in Attempts :
           phase'[b] \in ActivePhases /\ phase'[d] \in ActivePhases /\ job'[b] = job'[d]
           => b = d
    BY Zenon, <2>1 DEF IInv, HoldsInv
  <2>3. holds = {<<job[b], owner[b]>> : b \in {d \in Attempts : phase[d] \in ActivePhases}}
    BY Zenon DEF IInv, HoldsInv, HoldsMatchAttempts
  <2>4. holds' = {<<job[b], owner[b]>> : b \in {d \in Attempts : phase'[d] \in ActivePhases}}
    <3> HIDE DEF ActivePhases
    <3> QED
      BY <1>0, <2>1, <2>3, SMTT(30) DEF Released
  <2>5. \A g, h \in holds' : DeviceOf[g[1]] = DeviceOf[h[1]] => g = h
    BY Zenon DEF IInv, HoldsInv, HoldsMatchAttempts, Released
  <2> QED
    BY ZenonT(40), <2>2, <2>4, <2>5 DEF HoldsInv, HoldsMatchAttempts
<1>3. OutputInv'
  <2>1. \A b \in Attempts : phase'[b] = "none" => phase[b] = "none"
    BY Zenon, <1>0
  <2> QED
    BY Zenon, <2>1 DEF IInv, OutputInv
<1>4. IoUnderHold'
  <2>1. ASSUME NEW b \in Attempts, up # "down", owner[b] = gen,
               child[b] \in {"permitted", "printed"}
        PROVE  phase'[b] = "permission_delivered" /\ <<job[b], gen>> \in holds'
    <3>1. b # a /\ phase[b] = "permission_delivered" /\ <<job[b], gen>> \in holds
      BY Zenon, <2>1 DEF IInv, IoUnderHold
    <3>2. job[b] # job[a]
      BY Zenon, <1>0, <3>1
    <3> QED
      BY Zenon, <1>0, <3>1, <3>2 DEF Released
  <2> QED
    BY Zenon, <2>1 DEF IoUnderHold
<1>5. ConfirmedWasPrinted'
  BY Zenon, <1>0 DEF IInv, ConfirmedWasPrinted
<1> QED
  BY Zenon, <1>1, <1>2, <1>3, <1>4, <1>5
=============================================================================
