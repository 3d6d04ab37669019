------------------------------ MODULE PrintJob ------------------------------
(***************************************************************************)
(* What a Print Job promises to the people who submitted it, independent   *)
(* of how the Agent executes it: the transition table of the domain model  *)
(* (print_jobs/models.py, _TRANSITIONS and transition) together with the   *)
(* physical output the job causes.  The execution ledger never calls       *)
(* transition(): it writes the columns itself.  PhysicalExecution is shown *)
(* to implement this specification all the same.                           *)
(***************************************************************************)
EXTENDS Integers, Sequences

CONSTANTS
    Jobs,       \* the Print Jobs
    Deadline    \* expires_at of each job

VARIABLES
    state,      \* state[j]: the public state, "none" before acceptance
    version,    \* state_version[j]
    journal,    \* journal[j]: the states announced by job events, in order
    stamp,      \* stamp[j]: terminal_at, else started_at, else accepted_at
    printed     \* printed[j]: how many times the device produced j's output

vars == <<state, version, journal, stamp, printed>>

Terminal == {"output_confirmed", "failed", "outcome_unknown", "expired",
             "canceled"}

JobStates == {"none", "accepted", "in_progress"} \cup Terminal

\* The table of legal successors; "none" stands for a job not yet accepted.
Transitions ==
    [s \in JobStates |->
        CASE s = "none"            -> {"accepted"}
          [] s = "accepted"        -> {"in_progress", "failed", "expired",
                                       "canceled"}
          [] s = "in_progress"     -> {"output_confirmed", "failed",
                                       "outcome_unknown"}
          [] s = "outcome_unknown" -> {"output_confirmed", "failed"}
          [] OTHER                 -> {}]

Init ==
    /\ state = [j \in Jobs |-> "none"]
    /\ version = [j \in Jobs |-> 0]
    /\ journal = [j \in Jobs |-> <<>>]
    /\ stamp = [j \in Jobs |-> 0]
    /\ printed = [j \in Jobs |-> 0]

\* One legal transition of job j: the version grows by one, the new state is
\* announced exactly once, and the time of the transition is consistent with
\* the job's earlier timestamps and its deadline.
Transition(j) ==
    /\ state'[j] \in Transitions[state[j]]
    /\ version'[j] = version[j] + 1
    /\ journal'[j] = Append(journal[j], state'[j])
    /\ stamp'[j] >= stamp[j]
    /\ state'[j] = "in_progress" => stamp'[j] <= Deadline[j]
    /\ state'[j] = "expired" => stamp'[j] >= Deadline[j]
    /\ state'[j] = "output_confirmed" => printed[j] = 1
    /\ printed'[j] = printed[j]

\* The device produces the output of j: at most once, never before j is
\* durably in_progress, and never once j is reported safe to print again.
Output(j) ==
    /\ state[j] \in {"in_progress", "outcome_unknown"}
    /\ printed[j] = 0
    /\ printed'[j] = 1
    /\ <<state'[j], version'[j], journal'[j], stamp'[j]>>
         = <<state[j], version[j], journal[j], stamp[j]>>

Stutter(j) ==
    <<state'[j], version'[j], journal'[j], stamp'[j], printed'[j]>>
      = <<state[j], version[j], journal[j], stamp[j], printed[j]>>

\* Jobs move independently; one transaction may move several of them.
Next == \A j \in Jobs : Transition(j) \/ Output(j) \/ Stutter(j)

Spec == Init /\ [][Next]_vars
=============================================================================
