------------------------ MODULE RouterSupervisorProofs ------------------------
(***************************************************************************)
(* The Router Supervisor for any signed policies, clock, TLS files, queue  *)
(* and children: SupInv is inductive, and every step, crash and failed     *)
(* write of the Supervisor is a step of the abstract RouterFence.          *)
(***************************************************************************)
EXTENDS RouterSupervisor, TLAPS

\* A length, of a stack of at most one or two.
LEMMA UpToOne == \A n \in Nat : n <= 1 => n = 0 \/ n = 1
OBVIOUS

\* A place in such a stack.
LEMMA UpToTwo == \A n \in 1..2 : \A i \in 1..n : i = 1 \/ (i = 2 /\ n = 2)
OBVIOUS

\* A stack with one operation on top.
LEMMA Push ==
  ASSUME NEW f \in Frames, NEW rest \in Seq(Frames), Len(rest) <= 1
  PROVE  /\ <<f>> \o rest \in Seq(Frames)
         /\ Len(<<f>> \o rest) = Len(rest) + 1
         /\ (<<f>> \o rest)[1] = f
         /\ Len(rest) = 1 => (<<f>> \o rest)[2] = rest[1]
OBVIOUS

\* The stack without its top.
LEMMA Pop ==
  ASSUME NEW s \in Seq(Frames), Len(s) \in 1..2
  PROVE  /\ Tail(s) \in Seq(Frames) /\ Len(Tail(s)) = Len(s) - 1
         /\ Head(s) = s[1] /\ s[1] \in Frames
         /\ Len(s) = 2 => Tail(s)[1] = s[2]
OBVIOUS

\* A policy, if any.
LEMMA PolicyFields ==
  ASSUME NEW p \in Policies \cup {NoPolicy}
  PROVE  /\ p.generation \in Nat /\ p.expires \in Nat
         /\ p = NoPolicy <=> p.generation = 0
BY SupervisorConstants DEF NoPolicy

\* The initial state.
LEMMA InitInv == Init => SupInv
<1> SUFFICES ASSUME Init PROVE SupInv
  BY Zenon
<1> USE DEF Init
<1>1. TypeOK
  <2>1. status \in Status
    BY Zenon DEF Status
  <2>2. now \in 0..Horizon
    BY SupervisorConstants
  <2>3. up \in BOOLEAN /\ child \in Child
    BY Zenon DEF Child
  <2>4. work \in Seq(Frames) /\ queue \in Seq(Policies) /\ Len(queue) <= QueueCapacity
    BY SupervisorConstants
  <2> QED
    BY Zenon, <2>1, <2>2, <2>3, <2>4 DEF TypeOK
<1>2. StackInv /\ WaitInv /\ TopInv /\ ReportInv
  BY DEF StackInv, WaitInv, TopInv, ReportInv
<1>3. DiskInv
  BY Zenon DEF DiskInv
<1>4. ReadyIsBacked /\ ServesDurableAuthority /\ AcknowledgedGenerationHeld
  BY Zenon DEF ReadyIsBacked, ServesDurableAuthority, AcknowledgedGenerationHeld
<1> QED
  BY Zenon, <1>1, <1>2, <1>3, <1>4 DEF SupInv

-----------------------------------------------------------------------------
(* Pieces of the handlers *)

\* A child, dead or alive, is not the one that is not there.
LEMMA ChildFields ==
  ASSUME NEW c \in Child
  PROVE  /\ c.alive => c # NoChild
         /\ c # NoChild => c \in [authority : Authorities, alive : BOOLEAN]
         /\ c # NoChild <=> c.authority # "none"
<1>1. c.alive => c # NoChild
  BY DEF NoChild
<1>2. c # NoChild => c \in [authority : Authorities, alive : BOOLEAN]
  BY Zenon DEF Child
<1>3. "none" \notin Authorities
  BY Zenon, SupervisorConstants DEF Authorities
<1>4. c # NoChild => c.authority # "none"
  BY Zenon, <1>2, <1>3
<1>5. NoChild.authority = "none"
  BY Zenon DEF NoChild
<1> QED
  BY Zenon, <1>1, <1>2, <1>4, <1>5

\* not_ready()
LEMMA ReadyOff ==
  ASSUME TypeOK, NotReady
  PROVE  status' \in Status /\ ~status'.ready /\ status'.policy = status.policy
BY Zenon DEF TypeOK, Status, NotReady

\* stop(), in time or not
LEMMA Stopped ==
  ASSUME TypeOK, StopOk \/ StopFails
  PROVE  child' = NoChild /\ tls' = NoTls /\ lingering' \subseteq Authorities
<1>1. CASE StopOk
  BY Zenon, <1>1 DEF StopOk, TypeOK
<1>2. CASE StopFails
  <2>1. child.authority \in Authorities
    BY Zenon, <1>2, ChildFields DEF StopFails, TypeOK
  <2> QED
    BY Zenon, <1>2, <2>1 DEF StopFails, TypeOK
<1> QED
  BY Zenon, <1>1, <1>2

\* A step after which nothing is ready and no child is owned.
LEMMA Quiet ==
  ASSUME SupInv, up', status' \in Status, ~status'.ready,
         child' = NoChild, tls' \in TlsVersions \cup {NoTls}, lingering' \subseteq Authorities,
         UNCHANGED <<now, files, queue, acked>>,
         disk' \in Policies \cup {NoPolicy}, policy' \in Policies \cup {NoPolicy},
         Advances(disk, disk'), Advances(disk', policy'),
         work' \in Seq(Frames), StackInv', WaitInv', TopInv'
  PROVE  SupInv'
<1>1. TypeOK'
  <2>1. up' \in BOOLEAN /\ child' \in Child
    BY Zenon DEF Child
  <2> QED
    BY Zenon, <2>1 DEF SupInv, TypeOK
<1>2. ReportInv' /\ ReadyIsBacked' /\ ServesDurableAuthority'
  BY Zenon DEF ReportInv, ReadyIsBacked, ServesDurableAuthority
<1>3. DiskInv'
  BY Zenon DEF DiskInv, Advances
<1>4. AcknowledgedGenerationHeld'
  <2>1. {disk, disk', acked} \subseteq Policies \cup {NoPolicy}
    BY Zenon DEF SupInv, TypeOK
  <2>2. disk.generation \in Nat /\ disk'.generation \in Nat /\ acked.generation \in Nat
    BY Zenon, <2>1, PolicyFields
  <2>3. acked # NoPolicy => disk = acked \/ disk.generation > acked.generation
    BY Zenon DEF SupInv, AcknowledgedGenerationHeld
  <2> QED
    BY <2>2, <2>3 DEF Advances, AcknowledgedGenerationHeld
<1> QED
  BY Zenon, <1>1, <1>2, <1>3, <1>4 DEF SupInv

\* What is left of the stack when an observation or an activation ends.
Remainder(rest) ==
  /\ rest \in Seq(Frames) /\ Len(rest) <= 1
  /\ Len(rest) = 1 => rest[1].at \in {"retry", "decide", "settle"} /\ Waits(rest[1])

\* Its length.
LEMMA RemainderLen ==
  ASSUME NEW rest, Remainder(rest)
  PROVE  rest \in Seq(Frames) /\ (Len(rest) = 0 \/ Len(rest) = 1)
<1>1. rest \in Seq(Frames) /\ Len(rest) <= 1
  BY Zenon DEF Remainder
<1>2. Len(rest) \in Nat
  BY <1>1
<1> QED
  BY Zenon, <1>1, <1>2, UpToOne, Zenon

\* An operation that waited goes on, in a state that is still as it was or in
\* which nothing is ready.
LEMMA Resume ==
  ASSUME SupInv, NEW rest, Remainder(rest), work' = rest, policy' = policy,
         status' = status \/ ~status'.ready \/ status'.policy = disk',
         disk' = disk \/ (disk' = policy /\ ~status'.ready)
  PROVE  work' \in Seq(Frames) /\ StackInv' /\ WaitInv' /\ TopInv'
<1>1. Len(rest) = 0 \/ Len(rest) = 1
  BY Zenon, RemainderLen
<1>2. CASE Len(rest) = 0
  BY <1>2 DEF Remainder, StackInv, WaitInv, TopInv
<1>3. CASE Len(rest) = 1
  <2>1. Waits(rest[1]) /\ rest[1].at \in {"retry", "decide", "settle"}
    BY Zenon, <1>3 DEF Remainder
  <2>2. Waits(rest[1])'
    BY Zenon, <2>1 DEF Waits, Advances
  <2>3. Proceeds(rest[1])'
    BY Zenon, <2>1 DEF Proceeds
  <2> QED
    BY <1>3, <2>1, <2>2, <2>3 DEF Remainder, StackInv, WaitInv, TopInv
<1> QED
  BY Zenon, <1>1, <1>2, <1>3

\* An empty remainder, and one of one operation.
LEMMA NothingRemains == Remainder(<< >>)
BY DEF Remainder

LEMMA OneRemains ==
  ASSUME NEW g \in Frames, g.at \in {"retry", "decide", "settle"}, Waits(g)
  PROVE  Remainder(<<g>>)
BY DEF Remainder

\* An activation goes on, or begins, on top of an operation that waits.
LEMMA PushInv ==
  ASSUME SupInv, NEW rest, Remainder(rest), NEW g \in Frames, work' = <<g>> \o rest,
         g.at \in {"persist", "spawn", "probe"}, Waits(g)', Proceeds(g)',
         rest # << >> => g.by = "observe" /\ policy' = policy,
         disk' = disk \/ disk' = policy, ~status'.ready
  PROVE  work' \in Seq(Frames) /\ StackInv' /\ WaitInv' /\ TopInv'
<1>1. rest \in Seq(Frames) /\ (Len(rest) = 0 \/ Len(rest) = 1)
  BY Zenon, RemainderLen
<1>2. /\ work' \in Seq(Frames) /\ Len(work') = Len(rest) + 1 /\ work'[1] = g
      /\ Len(rest) = 1 => work'[2] = rest[1]
  BY <1>1, Push
<1>3. CASE Len(rest) = 0
  BY <1>2, <1>3 DEF StackInv, WaitInv, TopInv
<1>4. CASE Len(rest) = 1
  <2>1. rest # << >>
    BY <1>4
  <2>2. Waits(rest[1]) /\ rest[1].at \in {"retry", "decide", "settle"}
    BY Zenon, <1>4 DEF Remainder
  <2>3. Waits(rest[1])'
    BY Zenon, <2>1, <2>2 DEF Waits, Advances
  <2> QED
    BY <1>2, <1>4, <2>1, <2>2, <2>3 DEF StackInv, WaitInv, TopInv
<1> QED
  BY Zenon, <1>1, <1>3, <1>4

\* The end of the process.
LEMMA ProcessEndsInv ==
  ASSUME SupInv, ProcessEnds, UNCHANGED <<now, files>>
  PROVE  SupInv'
<1> USE DEF ProcessEnds
<1>1. TypeOK'
  <2>1. status' \in Status /\ up' \in BOOLEAN /\ child' \in Child
    BY Zenon DEF Status, Child
  <2>2. work' \in Seq(Frames) /\ queue' \in Seq(Policies) /\ Len(queue') <= QueueCapacity
    BY SupervisorConstants
  <2> QED
    BY Zenon, <2>1, <2>2 DEF SupInv, TypeOK
<1>2. StackInv' /\ WaitInv' /\ TopInv'
  BY DEF StackInv, WaitInv, TopInv
<1>3. ReportInv' /\ ReadyIsBacked' /\ ServesDurableAuthority'
  BY Zenon DEF ReportInv, ReadyIsBacked, ServesDurableAuthority
<1>4. DiskInv'
  BY Zenon DEF DiskInv
<1>5. AcknowledgedGenerationHeld'
  BY Zenon DEF SupInv, AcknowledgedGenerationHeld
<1> QED
  BY Zenon, <1>1, <1>2, <1>3, <1>4, <1>5 DEF SupInv

\* activate(): the old links are closed and the policy retained, or stop() failed.
LEMMA ActivateInv ==
  ASSUME SupInv, up, NEW p \in Policies, NEW by \in {"observe", "apply"},
         NEW rest, Remainder(rest), by = "apply" => rest = << >>,
         Advances(policy, p), rest # << >> => p = policy,
         Activate(p, by, rest), UNCHANGED <<now, files>>
  PROVE  SupInv'
<1>0. /\ {disk, policy} \subseteq Policies \cup {NoPolicy} /\ Advances(disk, policy) /\ TypeOK
  BY Zenon DEF SupInv, TypeOK, DiskInv
<1>1. status' \in Status /\ ~status'.ready /\ UNCHANGED <<disk, up, queue>>
  BY Zenon, <1>0, ReadyOff DEF Activate
<1>2. child' = NoChild /\ tls' = NoTls /\ lingering' \subseteq Authorities /\ acked' = acked
  BY Zenon, <1>0, Stopped DEF Activate, Abort
<1>3. Advances(disk, disk') /\ Advances(disk', p) /\ Advances(disk', policy)
  <2>1. disk.generation \in Nat /\ policy.generation \in Nat /\ p.generation \in Nat
    BY Zenon, <1>0, PolicyFields
  <2> QED
    BY <1>0, <1>1, <2>1 DEF Advances
<1>4. CASE /\ policy' = p
           /\ work' = <<Frame("persist", p, NoPolicy, by)>> \o rest
  <2>1. PICK f \in Frames : work' = <<f>> \o rest /\ f.at = "persist" /\ f.policy = p /\ f.by = by
    <3> DEFINE g == Frame("persist", p, NoPolicy, by)
    <3>1. g \in Frames /\ g.at = "persist" /\ g.policy = p /\ g.by = by
      BY Zenon DEF Frames, Frame
    <3> HIDE DEF g
    <3> QED
      BY Zenon, <1>4, <3>1 DEF g
  <2>2. Waits(f)' /\ Proceeds(f)'
    BY Zenon, <1>1, <1>2, <1>4, <2>1 DEF Waits, Proceeds
  <2>3. rest # << >> => f.by = "observe" /\ policy' = policy
    BY Zenon, <1>4, <2>1
  <2>4. work' \in Seq(Frames) /\ StackInv' /\ WaitInv' /\ TopInv'
    BY Zenon, <1>1, <2>1, <2>2, <2>3, PushInv
  <2>5. up' /\ disk' \in Policies \cup {NoPolicy} /\ policy' \in Policies \cup {NoPolicy}
    BY Zenon, <1>0, <1>1, <1>4
  <2>6. UNCHANGED <<now, files, queue, acked>> /\ Advances(disk', policy')
    BY Zenon, <1>1, <1>2, <1>3, <1>4
  <2> QED
    BY Zenon, <1>1, <1>2, <1>3, <2>4, <2>5, <2>6, Quiet
<1>5. CASE policy' = policy /\ work' = IF by = "observe" THEN rest ELSE << >>
  <2>1. work' = rest
    BY Zenon, <1>5
  <2>2. work' \in Seq(Frames) /\ StackInv' /\ WaitInv' /\ TopInv'
    BY Zenon, <1>1, <1>5, <2>1, Resume
  <2> QED
    BY Zenon, <1>0, <1>1, <1>2, <1>3, <1>5, <2>2, Quiet
<1> QED
  BY Zenon, <1>4, <1>5 DEF Activate, Abort

\* not_ready() and stop() inside observe().
LEMMA ShutInv ==
  ASSUME SupInv, up, NEW rest, Remainder(rest), Shut(rest), UNCHANGED <<now, files>>
  PROVE  SupInv'
<1>0. /\ {disk, policy} \subseteq Policies \cup {NoPolicy} /\ Advances(disk, policy) /\ TypeOK
  BY Zenon DEF SupInv, TypeOK, DiskInv
<1>1. CASE ProcessEnds
  BY Zenon, <1>1, ProcessEndsInv
<1>2. CASE /\ NotReady /\ (StopOk \/ StopFails)
           /\ work' = rest \/ work' = << >>
           /\ UNCHANGED <<up, disk, policy, queue, acked>>
  <2>1. status' \in Status /\ ~status'.ready
    BY Zenon, <1>0, <1>2, ReadyOff
  <2>2. child' = NoChild /\ tls' = NoTls /\ lingering' \subseteq Authorities
    BY Zenon, <1>0, <1>2, Stopped
  <2>4. work' \in Seq(Frames) /\ StackInv' /\ WaitInv' /\ TopInv'
    BY Zenon, <1>2, <2>1, NothingRemains, Resume
  <2>5. Advances(disk, disk') /\ Advances(disk', policy')
    BY Zenon, <1>0, <1>2 DEF Advances
  <2> QED
    BY Zenon, <1>0, <1>2, <2>1, <2>2, <2>4, <2>5, Quiet
<1> QED
  BY Zenon, <1>1, <1>2 DEF Shut

\* An observation that finds nothing to do.
LEMMA IdleInv ==
  ASSUME SupInv, up, NEW rest, Remainder(rest), Idle(rest), UNCHANGED <<now, files>>,
         status.ready => \/ status.policy = disk
                         \/ ~Current(policy)
                         \/ Len(rest) = 1 /\ rest[1].at = "settle"
  PROVE  SupInv'
<1>0. UNCHANGED <<up, disk, policy, child, tls, status, queue, acked, lingering>> /\ work' = rest
  BY Zenon DEF Idle
<1>1. work' \in Seq(Frames) /\ StackInv' /\ WaitInv' /\ TopInv'
  BY Zenon, <1>0, Resume
<1>2. TypeOK'
  BY Zenon, <1>0, <1>1 DEF SupInv, TypeOK
<1>3. ReportInv'
  BY <1>0 DEF ReportInv, Current
<1>4. DiskInv'
  BY Zenon, <1>0 DEF SupInv, DiskInv, Advances
<1>5. ReadyIsBacked' /\ ServesDurableAuthority' /\ AcknowledgedGenerationHeld'
  BY Zenon, <1>0 DEF SupInv, ReadyIsBacked, ServesDurableAuthority, AcknowledgedGenerationHeld
<1> QED
  BY Zenon, <1>1, <1>2, <1>3, <1>4, <1>5 DEF SupInv

\* observe(), wherever it is called.
LEMMA ObserveInv ==
  ASSUME SupInv, up, NEW rest, Remainder(rest), Observe(rest), UNCHANGED <<now, files>>,
         status.ready => \/ status.policy = disk
                         \/ ~Current(policy)
                         \/ Len(rest) = 1 /\ rest[1].at = "settle"
  PROVE  SupInv'
<1>0. /\ {disk, policy} \subseteq Policies \cup {NoPolicy} /\ Advances(disk, policy) /\ TypeOK
      /\ child \in Child
  BY Zenon DEF SupInv, TypeOK, DiskInv
<1>1. CASE Shut(rest)
  BY Zenon, <1>1, ShutInv
<1>2. CASE Idle(rest)
  BY Zenon, <1>2, IdleInv
<1>3. CASE /\ NotReady
           /\ child' = NoChild /\ tls' = NoTls
           /\ work' = rest
           /\ UNCHANGED <<up, disk, policy, queue, acked, lingering>>
  <2>1. status' \in Status /\ ~status'.ready
    BY Zenon, <1>0, <1>3, ReadyOff
  <2>2. work' \in Seq(Frames) /\ StackInv' /\ WaitInv' /\ TopInv'
    BY Zenon, <1>3, <2>1, Resume
  <2>3. /\ Advances(disk, disk') /\ Advances(disk', policy') /\ lingering' \subseteq Authorities
    BY Zenon, <1>0, <1>3 DEF Advances, TypeOK
  <2> QED
    BY Zenon, <1>0, <1>3, <2>1, <2>2, <2>3, Quiet
<1>4. CASE policy # NoPolicy /\ Activate(policy, "observe", rest)
  <2>1. policy \in Policies /\ Advances(policy, policy)
    BY Zenon, <1>0, <1>4 DEF Advances
  <2> QED
    BY Zenon, <1>4, <2>1, ActivateInv
<1>5. child.alive => policy # NoPolicy
  <2>1. child.alive => disk # NoPolicy
    BY Zenon, <1>0, ChildFields DEF SupInv, DiskInv
  <2> QED
    BY <1>0, <2>1, PolicyFields DEF Advances
<1> QED
  BY Zenon, <1>1, <1>2, <1>3, <1>4, <1>5 DEF Observe

-----------------------------------------------------------------------------
(* The handlers *)

\* The stack of a handler in progress.
LEMMA AtTop ==
  ASSUME SupInv, NEW at, Ready(at)
  PROVE  /\ up /\ Head(work) = work[1] /\ work[1] \in Frames /\ work[1].at = at
         /\ Len(work) \in 1..2 /\ Waits(work[1]) /\ Proceeds(work[1])
         /\ Tail(work) \in Seq(Frames) /\ Len(Tail(work)) = Len(work) - 1
         /\ Len(work) = 2 => Tail(work)[1] = work[2] /\ Waits(work[2])
<1>1. up /\ work \in Seq(Frames) /\ work # << >> /\ Head(work).at = at
  BY Zenon DEF SupInv, TypeOK, Ready
<1>2. Len(work) \in 1..2
  <2>1. Len(work) = 0 \/ Len(work) = 1 \/ Len(work) = 2
    BY Zenon DEF SupInv, StackInv
  <2>2. Len(work) # 0
    BY <1>1
  <2>3. \A n : n \in {1, 2} => n \in 1..2
    OBVIOUS
  <2> QED
    BY Zenon, <2>1, <2>2, <2>3, Zenon
<1>3. /\ Tail(work) \in Seq(Frames) /\ Len(Tail(work)) = Len(work) - 1
      /\ Head(work) = work[1] /\ work[1] \in Frames
      /\ Len(work) = 2 => Tail(work)[1] = work[2]
  BY Zenon, <1>1, <1>2, Pop
<1>4. Waits(work[1]) /\ Proceeds(work[1]) /\ (Len(work) = 2 => Waits(work[2]))
  <2>1. Len(work) > 0 /\ 1 \in 1..Len(work) /\ (Len(work) = 2 => 2 \in 1..Len(work))
    BY <1>2
  <2> QED
    BY Zenon, <2>1 DEF SupInv, WaitInv, TopInv
<1> QED
  BY Zenon, <1>1, <1>2, <1>3, <1>4

\* What an observation or an activation inside a handler leaves.
LEMMA TailRemains ==
  ASSUME SupInv, NEW at \in {"enter", "persist", "spawn", "probe"}, Ready(at)
  PROVE  /\ Remainder(Tail(work))
         /\ Tail(work) # << >> /\ at # "enter" => work[1].by = "observe"
         /\ at = "enter" => Len(Tail(work)) = 1 /\ Tail(work)[1].at # "settle"
<1> DEFINE t == Tail(work)
<1>1. /\ Len(work) \in 1..2 /\ work[1].at = at
      /\ t \in Seq(Frames) /\ Len(t) = Len(work) - 1
      /\ Len(work) = 2 => t[1] = work[2] /\ Waits(work[2])
  BY Zenon, AtTop
<1> HIDE DEF t
<1> SUFFICES /\ Remainder(t)
             /\ t # << >> /\ at # "enter" => work[1].by = "observe"
             /\ at = "enter" => Len(t) = 1 /\ t[1].at # "settle"
  BY Zenon DEF t
<1>2. CASE Len(work) = 1
  <2>1. Len(t) = 0 /\ at # "enter"
    BY <1>1, <1>2 DEF SupInv, StackInv
  <2>2. t = << >>
    BY <1>1, <2>1
  <2>3. Remainder(t)
    BY <2>2 DEF Remainder
  <2> QED
    BY Zenon, <2>1, <2>2, <2>3
<1>3. CASE Len(work) = 2
  <2>1. Len(t) = 1
    BY <1>1, <1>3
  <2>2. /\ work[2].at \in {"retry", "decide", "settle"}
        /\ at # "enter" => work[1].by = "observe"
        /\ at = "enter" => work[2].at # "settle"
    BY <1>1, <1>3 DEF SupInv, StackInv
  <2>3. Len(t) <= 1
    BY <2>1
  <2>4. Remainder(t)
    BY Zenon, <1>1, <1>3, <2>2, <2>3, Zenon DEF Remainder
  <2> QED
    BY Zenon, <1>1, <1>3, <2>1, <2>2, <2>4
<1>4. Len(work) = 1 \/ Len(work) = 2
  BY <1>1
<1> QED
  BY Zenon, <1>2, <1>3, <1>4

\* No refresh is in progress: readiness is that of the durable policy, unless
\* the retained one has expired.
LEMMA NoRefresh ==
  ASSUME SupInv, work = << >> \/ \E at \in {"enter", "retry", "decide"} : Ready(at)
  PROVE  status.ready => status.policy = disk \/ ~Current(policy)
<1>1. SUFFICES ASSUME NEW i \in 1..Len(work) PROVE work[i].at \notin {"write", "written", "settle"}
  BY Zenon DEF SupInv, ReportInv
<1>2. CASE work = << >>
  BY <1>2
<1>3. ASSUME NEW at \in {"enter", "retry", "decide"}, Ready(at)
      PROVE  work[i].at \notin {"write", "written", "settle"}
  <2>1. Len(work) \in 1..2 /\ work[1].at = at
    BY Zenon, <1>3, AtTop
  <2>2. Len(work) = 2 => work[2].at \in {"retry", "decide"}
    BY <1>3, <2>1 DEF SupInv, StackInv
  <2>3. i = 1 \/ (i = 2 /\ Len(work) = 2)
    BY Zenon, <2>1, UpToTwo, Zenon
  <2> QED
    BY Zenon, <2>1, <2>2, <2>3
<1> QED
  BY Zenon, <1>2, <1>3

\* A tick of run().
LEMMA ObserveTickInv == ASSUME SupInv, ObserveTick PROVE SupInv'
<1>1. up /\ work = << >> /\ Observe(<< >>) /\ UNCHANGED <<now, files>>
  BY Zenon DEF ObserveTick
<1> QED
  BY Zenon, <1>1, NothingRemains, NoRefresh, ObserveInv

\* The activation of the stored policy.
LEMMA RunStoredInv == ASSUME SupInv, RunStored PROVE SupInv'
<1>1. Ready("run") /\ Activate(policy, "observe", << >>) /\ UNCHANGED <<now, files>>
  BY Zenon DEF RunStored
<1>2. up /\ work[1] \in Frames /\ policy = work[1].policy
  BY <1>1, AtTop DEF Waits
<1>3. policy \in Policies /\ Advances(policy, policy)
  BY Zenon, <1>2 DEF Frames, Advances
<1> QED
  BY Zenon, <1>1, <1>2, <1>3, NothingRemains, ActivateInv

\* The observation at the start of apply().
LEMMA ApplyObserveInv == ASSUME SupInv, ApplyObserve PROVE SupInv'
<1>1. Ready("enter") /\ Observe(Tail(work)) /\ UNCHANGED <<now, files>>
  BY Zenon DEF ApplyObserve
<1>2. up /\ Remainder(Tail(work))
  BY Zenon, <1>1, AtTop, TailRemains
<1>3. status.ready => status.policy = disk \/ ~Current(policy)
  BY Zenon, <1>1, NoRefresh
<1> QED
  BY Zenon, <1>1, <1>2, <1>3, ObserveInv

\* A step of a handler that changes neither the file nor the retained policy
\* nor the child, and acknowledges the durable policy if it does any.
LEMMA ReportStep ==
  ASSUME SupInv, UNCHANGED <<now, up, disk, policy, child, tls, files, queue, lingering>>,
         status' \in Status, acked' \in {acked, disk}, up,
         work' \in Seq(Frames), StackInv', WaitInv', TopInv', ReportInv', ReadyIsBacked'
  PROVE  SupInv'
<1>1. TypeOK'
  BY Zenon DEF SupInv, TypeOK
<1>2. DiskInv' /\ ServesDurableAuthority'
  BY Zenon DEF SupInv, DiskInv, Advances, ServesDurableAuthority
<1>3. AcknowledgedGenerationHeld'
  BY Zenon DEF SupInv, AcknowledgedGenerationHeld
<1> QED
  BY Zenon, <1>1, <1>2, <1>3 DEF SupInv

\* An identical retry, confirmed or not.
LEMMA ApplyRetryInv == ASSUME SupInv, ApplyRetry PROVE SupInv'
<1>1. Ready("retry") /\ UNCHANGED <<now, files>>
  BY Zenon DEF ApplyRetry
<1>2. /\ up /\ Head(work) = work[1] /\ work[1] \in Frames /\ Waits(work[1]) /\ work[1].at = "retry"
  BY Zenon, <1>1, AtTop
<1>3. CASE /\ status.ready /\ Acknowledge(status.policy)
           /\ UNCHANGED <<up, disk, policy, child, tls, status, queue, lingering>>
  <2>1. work' = << >> /\ acked' = disk /\ status.policy = disk
    BY Zenon, <1>2, <1>3 DEF Waits, Acknowledge
  <2>2. ReadyIsBacked' /\ ReportInv' /\ status' \in Status
    BY Zenon, <1>3, <2>1 DEF SupInv, TypeOK, ReadyIsBacked, ReportInv
  <2>3. work' \in Seq(Frames) /\ StackInv' /\ WaitInv' /\ TopInv'
    BY Zenon, <1>3, <2>1, NothingRemains, Resume
  <2> QED
    BY Zenon, <1>1, <1>2, <1>3, <2>1, <2>2, <2>3, ReportStep
<1>4. CASE ~status.ready /\ Observe(<<Frame("decide", Head(work).policy, NoPolicy, "apply")>>)
  <2> DEFINE f == Frame("decide", Head(work).policy, NoPolicy, "apply")
  <2>1. f \in Frames /\ f.at = "decide" /\ f.policy = work[1].policy
    BY Zenon, <1>2 DEF Frames, Frame
  <2>2. Waits(f)
    BY Zenon, <1>2, <2>1 DEF Waits
  <2> HIDE DEF f
  <2>3. Remainder(<<f>>)
    BY Zenon, <2>1, <2>2, OneRemains
  <2> QED
    BY Zenon, <1>1, <1>2, <1>4, <2>3, ObserveInv DEF f
<1> QED
  BY Zenon, <1>3, <1>4 DEF ApplyRetry

\* A command is taken and begins with an observation, or is refused.
LEMMA TakeCommandInv == ASSUME SupInv, TakeCommand PROVE SupInv'
<1>0. /\ up /\ work = << >> /\ queue # << >> /\ queue \in Seq(Policies)
      /\ queue' = Tail(queue)
      /\ UNCHANGED <<now, up, disk, policy, child, tls, files, status, acked, lingering>>
  BY Zenon DEF TakeCommand, SupInv, TypeOK
<1> DEFINE p == Head(queue)
<1>1. p \in Policies /\ queue' \in Seq(Policies)
  BY <1>0
<1>2. Len(queue') <= QueueCapacity
  <2>1. Len(queue) <= QueueCapacity /\ Len(queue) \in Nat /\ Len(queue') = Len(queue) - 1
    BY <1>0 DEF SupInv, TypeOK
  <2> QED
    BY <2>1, SupervisorConstants
<1>3. DiskInv' /\ ReadyIsBacked' /\ ServesDurableAuthority' /\ AcknowledgedGenerationHeld'
  <2>1. DiskInv'
    BY Zenon, <1>0 DEF SupInv, DiskInv, Advances
  <2> QED
    BY Zenon, <1>0, <2>1 DEF SupInv, ReadyIsBacked, ServesDurableAuthority, AcknowledgedGenerationHeld
<1>4. ReportInv'
  BY Zenon, <1>0, NoRefresh DEF ReportInv, Current
<1>5. CASE work' = work
  <2>1. work' = << >> /\ work' \in Seq(Frames)
    BY <1>0, <1>5
  <2>2. TypeOK'
    BY Zenon, <1>0, <1>1, <1>2, <2>1 DEF SupInv, TypeOK
  <2>3. StackInv' /\ WaitInv' /\ TopInv'
    BY <2>1 DEF StackInv, WaitInv, TopInv
  <2> QED
    BY Zenon, <1>3, <1>4, <2>2, <2>3 DEF SupInv
<1>6. CASE /\ Current(p) /\ ~Conflicts(p, policy)
           /\ work' = <<Frame("enter", p, NoPolicy, "apply"),
                        Frame(IF p = policy /\ status.ready THEN "retry" ELSE "decide",
                              p, NoPolicy, "apply")>>
  <2> DEFINE at == IF p = policy /\ status.ready THEN "retry" ELSE "decide"
  <2>1. Advances(policy, p)
    <3>1. policy.generation \in Nat /\ p.generation \in Nat \ {0} /\ NoPolicy.generation = 0
      BY Zenon, <1>1, PolicyFields, SupervisorConstants DEF SupInv, TypeOK, NoPolicy
    <3> QED
      BY <1>6, <3>1 DEF Conflicts, Advances
  <2>2. at \in {"retry", "decide"} /\ (at = "retry" => p = policy /\ status.ready)
    BY Zenon
  <2>3. work' = <<Frame("enter", p, NoPolicy, "apply"), Frame(at, p, NoPolicy, "apply")>>
    BY Zenon, <1>6
  <2> HIDE DEF at
  <2>4. PICK e \in Frames, f \in Frames :
          /\ work' = <<e, f>>
          /\ e.at = "enter" /\ e.policy = p /\ f.at = at /\ f.policy = p
    <3>1. ASSUME NEW x \in {"enter", "retry", "decide"}
          PROVE  /\ Frame(x, p, NoPolicy, "apply") \in Frames
                 /\ Frame(x, p, NoPolicy, "apply").at = x
                 /\ Frame(x, p, NoPolicy, "apply").policy = p
      BY Zenon, <1>1 DEF Frames, Frame
    <3> QED
      BY Zenon, <2>2, <2>3, <3>1
  <2>5. at = "retry" => status.policy = disk
    BY Zenon, <1>0, <1>6, <2>2, NoRefresh
  <2>6. Waits(e)' /\ Waits(f)' /\ Proceeds(e)'
    BY Zenon, <1>0, <2>1, <2>4, <2>2, <2>5 DEF Waits, Proceeds, Advances
  <2>7. /\ work' \in Seq(Frames) /\ Len(work') = 2 /\ work'[1] = e /\ work'[2] = f
    BY <2>4
  <2>8. TypeOK'
    BY Zenon, <1>0, <1>1, <1>2, <2>7 DEF SupInv, TypeOK
  <2>9. StackInv' /\ WaitInv' /\ TopInv'
    BY <2>4, <2>2, <2>6, <2>7 DEF StackInv, WaitInv, TopInv
  <2> QED
    BY Zenon, <1>3, <1>4, <2>8, <2>9 DEF SupInv
<1> QED
  BY Zenon, <1>5, <1>6 DEF TakeCommand

\* The end of apply(): the old links stay, or activate() closes them.
LEMMA ApplyDecideInv == ASSUME SupInv, ApplyDecide PROVE SupInv'
<1> DEFINE p == work[1].policy
<1>1. Ready("decide") /\ UNCHANGED <<now, files>>
  BY Zenon DEF ApplyDecide
<1>2. /\ up /\ Head(work) = work[1] /\ work[1] \in Frames /\ Waits(work[1]) /\ work[1].at = "decide"
  BY Zenon, <1>1, AtTop
<1>3. p \in Policies /\ Advances(policy, p)
  BY Zenon, <1>2 DEF Frames, Waits
<1>4. CASE Activate(p, "apply", << >>)
  BY Zenon, <1>1, <1>2, <1>3, <1>4, NothingRemains, ActivateInv
<1>5. CASE /\ status.ready /\ SameAuthority(p, policy)
           /\ policy' = p
           /\ work' = <<Frame("write", p, policy, "apply")>>
           /\ UNCHANGED <<up, disk, child, tls, status, queue, acked, lingering>>
  <2>0. {disk, policy} \subseteq Policies \cup {NoPolicy} /\ Advances(disk, policy)
    BY Zenon, <1>2 DEF SupInv, TypeOK, DiskInv
  <2>1. PICK f \in Frames : /\ work' = <<f>>
                            /\ f.at = "write" /\ f.policy = p /\ f.by = "apply"
    <3> DEFINE g == Frame("write", p, policy, "apply")
    <3>1. g \in Frames /\ g.at = "write" /\ g.policy = p /\ g.by = "apply"
      BY Zenon, <1>3, <2>0 DEF Frames, Frame
    <3> HIDE DEF g
    <3> QED
      BY Zenon, <1>5, <3>1 DEF g
  <2>2. work' \in Seq(Frames) /\ Len(work') = 1 /\ work'[1] = f
    BY <2>1
  <2>3. Waits(f)' /\ Proceeds(f)'
    BY Zenon, <1>5, <2>1 DEF Waits, Proceeds
  <2>4. TypeOK'
    BY Zenon, <1>1, <1>3, <1>5, <2>2 DEF SupInv, TypeOK
  <2>5. StackInv' /\ WaitInv' /\ TopInv' /\ ReportInv'
    BY <2>1, <2>2, <2>3, SMTT(30) DEF StackInv, WaitInv, TopInv, ReportInv
  <2>6. DiskInv'
    <3>1. disk.generation \in Nat /\ policy.generation \in Nat /\ p.generation \in Nat
      BY Zenon, <1>3, <2>0, PolicyFields
    <3>2. Advances(disk, p)
      BY <1>3, <2>0, <3>1 DEF Advances
    <3> QED
      BY Zenon, <1>2, <1>5, <3>2 DEF SupInv, DiskInv, Advances
  <2>7. ReadyIsBacked' /\ ServesDurableAuthority' /\ AcknowledgedGenerationHeld'
    BY Zenon, <1>5 DEF SupInv, ReadyIsBacked, ServesDurableAuthority, AcknowledgedGenerationHeld,
                SameAuthority
  <2> QED
    BY Zenon, <2>4, <2>5, <2>6, <2>7 DEF SupInv
<1>6. CASE Idle(<< >>)
  <2>1. status.ready => status.policy = disk \/ ~Current(policy)
    BY Zenon, <1>1, NoRefresh
  <2> QED
    BY Zenon, <1>1, <1>2, <1>6, <2>1, NothingRemains, IdleInv
<1> QED
  BY Zenon, <1>2, <1>4, <1>5, <1>6 DEF ApplyDecide, Abort, Idle

\* A step that ends with the operation that waited, if it was an observation
\* that activated, and otherwise with the error.
LEMMA AbortRemains ==
  ASSUME SupInv, NEW at \in {"persist", "spawn", "probe"}, Ready(at),
         Abort(work[1].by, Tail(work))
  PROVE  acked' = acked /\ \E rest : work' = rest /\ Remainder(rest)
<1>1. Remainder(Tail(work))
  BY Zenon, TailRemains, Zenon
<1>2. acked' = acked /\ (work' = Tail(work) \/ work' = << >>)
  BY Zenon DEF Abort
<1> QED
  BY Zenon, <1>1, <1>2, NothingRemains, Zenon

\* persist() inside activate().
LEMMA ActivatePersistInv == ASSUME SupInv, ActivatePersist PROVE SupInv'
<1>1. Ready("persist") /\ UNCHANGED <<now, up, child, tls, files, queue, lingering>>
  BY Zenon DEF ActivatePersist
<1>2. PICK f \in Frames : f = work[1] /\ f = Head(work) /\ f.at = "persist"
  BY Zenon, <1>1, AtTop
<1>3. up /\ Waits(f) /\ Proceeds(f)
  BY Zenon, <1>1, <1>2, AtTop
<1>4. f.policy = policy /\ child = NoChild /\ ~status.ready /\ policy \in Policies
  BY Zenon, <1>2, <1>3 DEF Waits, Proceeds, Frames
<1>5. Remainder(Tail(work)) /\ (Tail(work) # << >> => f.by = "observe")
  BY Zenon, <1>1, <1>2, TailRemains, Zenon
<1>6. /\ Advances(disk, policy) /\ TypeOK /\ tls' \in TlsVersions \cup {NoTls}
      /\ lingering' \subseteq Authorities /\ disk \in Policies \cup {NoPolicy}
  BY Zenon, <1>1, <1>3 DEF SupInv, DiskInv, TypeOK
<1>7. CASE /\ disk' = f.policy /\ policy' = f.policy
           /\ status' = [status EXCEPT !.policy = f.policy]
           /\ work' = <<Frame("spawn", f.policy, NoPolicy, f.by)>> \o Tail(work)
           /\ acked' = acked
  <2>1. PICK g \in Frames : /\ work' = <<g>> \o Tail(work)
                            /\ g.at = "spawn" /\ g.policy = policy /\ g.by = f.by
    <3> DEFINE g == Frame("spawn", f.policy, NoPolicy, f.by)
    <3>1. g \in Frames /\ g.at = "spawn" /\ g.policy = policy /\ g.by = f.by
      BY Zenon, <1>2, <1>4 DEF Frames, Frame
    <3> HIDE DEF g
    <3> QED
      BY Zenon, <1>7, <3>1, Zenon DEF g
  <2>2. status' \in Status /\ ~status'.ready /\ status'.policy = policy
    BY Zenon, <1>4, <1>6, <1>7 DEF TypeOK, Status
  <2>3. Waits(g)' /\ Proceeds(g)'
    BY Zenon, <1>1, <1>4, <1>7, <2>1, <2>2 DEF Waits, Proceeds
  <2>4. work' \in Seq(Frames) /\ StackInv' /\ WaitInv' /\ TopInv'
    <3>1. Tail(work) # << >> => g.by = "observe" /\ policy' = policy
      BY Zenon, <1>4, <1>5, <1>7, <2>1, Zenon
    <3>2. disk' = policy
      BY Zenon, <1>4, <1>7
    <3> QED
      BY Zenon, <1>5, <2>1, <2>2, <2>3, <3>1, <3>2, PushInv, Zenon
  <2>5. Advances(disk, disk') /\ Advances(disk', policy')
    BY Zenon, <1>4, <1>6, <1>7 DEF Advances
  <2> QED
    BY Zenon, <1>1, <1>3, <1>4, <1>6, <1>7, <2>2, <2>4, <2>5, Quiet
<1>8. CASE /\ disk' \in {disk, f.policy} /\ UNCHANGED <<policy, status>>
           /\ Abort(f.by, Tail(work))
  <2>1. PICK rest : work' = rest /\ Remainder(rest)
    BY Zenon, <1>1, <1>2, <1>8, AbortRemains
  <2>2. acked' = acked
    BY Zenon, <1>8 DEF Abort
  <2>3. work' \in Seq(Frames) /\ StackInv' /\ WaitInv' /\ TopInv'
    BY Zenon, <1>4, <1>8, <2>1, Resume
  <2>4. Advances(disk, disk') /\ Advances(disk', policy')
    BY Zenon, <1>4, <1>6, <1>8 DEF Advances
  <2>5. status' \in Status /\ ~status'.ready
    BY Zenon, <1>4, <1>6, <1>8 DEF TypeOK
  <2> QED
    BY Zenon, <1>1, <1>3, <1>4, <1>6, <1>8, <2>2, <2>3, <2>4, <2>5, Quiet
<1> QED
  BY Zenon, <1>2, <1>7, <1>8 DEF ActivatePersist

\* The credentials, the configuration and the spawn inside activate().
LEMMA ActivateSpawnInv == ASSUME SupInv, ActivateSpawn PROVE SupInv'
<1>1. Ready("spawn") /\ UNCHANGED <<now, up, disk, policy, files, status, queue, lingering>>
  BY Zenon DEF ActivateSpawn
<1>2. PICK f \in Frames : f = work[1] /\ f = Head(work) /\ f.at = "spawn"
  BY Zenon, <1>1, AtTop
<1>3. up /\ Waits(f) /\ Proceeds(f)
  BY Zenon, <1>1, <1>2, AtTop
<1>4. /\ f.policy = policy /\ child = NoChild /\ ~status.ready /\ policy \in Policies
      /\ disk = policy /\ status.policy = policy
  BY Zenon, <1>2, <1>3 DEF Waits, Proceeds, Frames
<1>5. Remainder(Tail(work)) /\ (Tail(work) # << >> => f.by = "observe")
  BY Zenon, <1>1, <1>2, TailRemains, Zenon
<1>6. CASE /\ TlsCurrent(files)
           /\ child' = [authority |-> f.policy.authority, alive |-> TRUE]
           /\ tls' = files
           /\ work' = <<Frame("probe", f.policy, NoPolicy, f.by)>> \o Tail(work)
           /\ acked' = acked
  <2>1. PICK g \in Frames : /\ work' = <<g>> \o Tail(work)
                            /\ g.at = "probe" /\ g.policy = policy /\ g.by = f.by
    <3> DEFINE g == Frame("probe", f.policy, NoPolicy, f.by)
    <3>1. g \in Frames /\ g.at = "probe" /\ g.policy = policy /\ g.by = f.by
      BY Zenon, <1>2, <1>4 DEF Frames, Frame
    <3> HIDE DEF g
    <3> QED
      BY Zenon, <1>6, <3>1, Zenon DEF g
  <2>2. child' \in Child /\ child' # NoChild /\ child'.authority = policy.authority
    BY Zenon, <1>4, <1>6 DEF Child, NoChild, Authorities
  <2>3. Waits(g)' /\ Proceeds(g)'
    BY Zenon, <1>1, <1>4, <2>1, <2>2 DEF Waits, Proceeds
  <2>4. work' \in Seq(Frames) /\ StackInv' /\ WaitInv' /\ TopInv'
    <3>1. Tail(work) # << >> => g.by = "observe" /\ policy' = policy
      BY Zenon, <1>1, <1>5, <2>1, Zenon
    <3>2. disk' = policy /\ ~status'.ready
      BY Zenon, <1>1, <1>4
    <3> QED
      BY Zenon, <1>5, <2>1, <2>3, <3>1, <3>2, PushInv, Zenon
  <2>5. TypeOK'
    BY Zenon, <1>1, <1>6, <2>2, <2>4 DEF SupInv, TypeOK
  <2>6. ReportInv' /\ ReadyIsBacked' /\ ServesDurableAuthority'
    BY Zenon, <1>1, <1>4, <2>2 DEF ReportInv, ReadyIsBacked, ServesDurableAuthority
  <2>7. DiskInv'
    <3>1. disk # NoPolicy
      BY Zenon, <1>4, PolicyFields, SupervisorConstants
    <3> QED
      BY Zenon, <1>1, <1>3, <1>4, <3>1 DEF DiskInv, Advances
  <2>8. AcknowledgedGenerationHeld'
    BY Zenon, <1>1, <1>6 DEF SupInv, AcknowledgedGenerationHeld
  <2> QED
    BY Zenon, <2>4, <2>5, <2>6, <2>7, <2>8 DEF SupInv
<1>7. CASE Abort(f.by, Tail(work)) /\ UNCHANGED <<child, tls>>
  <2>1. PICK rest : work' = rest /\ Remainder(rest)
    BY Zenon, <1>1, <1>2, <1>7, AbortRemains
  <2>2. acked' = acked
    BY Zenon, <1>7 DEF Abort
  <2>3. work' \in Seq(Frames) /\ StackInv' /\ WaitInv' /\ TopInv'
    BY Zenon, <1>1, <2>1, Resume
  <2>4. status' \in Status /\ ReportInv' /\ ReadyIsBacked'
    BY Zenon, <1>1, <1>4 DEF SupInv, TypeOK, ReportInv, ReadyIsBacked
  <2> QED
    BY Zenon, <1>1, <1>3, <1>7, <2>2, <2>3, <2>4, ReportStep
<1> QED
  BY Zenon, <1>2, <1>6, <1>7 DEF ActivateSpawn

\* wait_ready() and what follows it inside activate().
LEMMA ActivateProbeInv == ASSUME SupInv, ActivateProbe PROVE SupInv'
<1>1. Ready("probe") /\ UNCHANGED <<now, up, disk, policy, files, queue>>
  BY Zenon DEF ActivateProbe
<1>2. PICK f \in Frames : f = work[1] /\ f = Head(work) /\ f.at = "probe"
  BY Zenon, <1>1, AtTop
<1>3. up /\ Waits(f) /\ Proceeds(f)
  BY Zenon, <1>1, <1>2, AtTop
<1>4. /\ f.policy = policy /\ child # NoChild /\ ~status.ready /\ policy \in Policies
      /\ disk = policy /\ status.policy = policy
  BY Zenon, <1>2, <1>3 DEF Waits, Proceeds, Frames
<1>5. Remainder(Tail(work)) /\ TypeOK /\ child.authority = policy.authority
  <2>1. child.authority = policy.authority /\ TypeOK
    BY Zenon, <1>4 DEF SupInv, ServesDurableAuthority
  <2> QED
    BY Zenon, <1>1, <2>1, TailRemains, Zenon
<1>6. CASE /\ child.alive /\ TlsCurrent(tls)
           /\ status' = [status EXCEPT !.ready = TRUE]
           /\ IF f.by = "observe"
                THEN work' = Tail(work) /\ UNCHANGED acked
                ELSE Acknowledge(status.policy)
           /\ UNCHANGED <<child, tls, lingering>>
  <2>1. status' \in Status /\ status'.policy = status.policy
    BY Zenon, <1>5, <1>6 DEF TypeOK, Status
  <2>2. acked' \in {acked, disk} /\ (work' = Tail(work) \/ work' = << >>)
    BY Zenon, <1>4, <1>6 DEF Acknowledge
  <2>3. PICK rest : work' = rest /\ Remainder(rest)
    BY Zenon, <1>5, <2>2, NothingRemains, Zenon
  <2>4. work' \in Seq(Frames) /\ StackInv' /\ WaitInv' /\ TopInv'
    BY Zenon, <1>1, <1>4, <2>1, <2>3, Resume
  <2>5. ReportInv' /\ ReadyIsBacked'
    BY Zenon, <1>1, <1>4, <1>5, <1>6, <2>1 DEF ReportInv, ReadyIsBacked, TlsCurrent
  <2> QED
    BY Zenon, <1>1, <1>3, <1>6, <2>1, <2>2, <2>4, <2>5, ReportStep
<1>7. CASE Abort(f.by, Tail(work)) /\ UNCHANGED <<status, child, tls, lingering>>
  <2>1. PICK rest : work' = rest /\ Remainder(rest)
    BY Zenon, <1>1, <1>2, <1>7, AbortRemains
  <2>2. acked' = acked
    BY Zenon, <1>7 DEF Abort
  <2>3. work' \in Seq(Frames) /\ StackInv' /\ WaitInv' /\ TopInv'
    BY Zenon, <1>1, <1>7, <2>1, Resume
  <2>4. status' \in Status /\ ReportInv' /\ ReadyIsBacked'
    BY Zenon, <1>4, <1>5, <1>7 DEF TypeOK, ReportInv, ReadyIsBacked
  <2> QED
    BY Zenon, <1>1, <1>3, <1>7, <2>2, <2>3, <2>4, ReportStep
<1>8. CASE NotReady /\ (StopOk \/ StopFails) /\ Abort(f.by, Tail(work))
  <2>1. PICK rest : work' = rest /\ Remainder(rest)
    BY Zenon, <1>1, <1>2, <1>8, AbortRemains
  <2>2. /\ status' \in Status /\ ~status'.ready /\ child' = NoChild /\ tls' = NoTls
        /\ lingering' \subseteq Authorities /\ acked' = acked
    BY Zenon, <1>5, <1>8, ReadyOff, Stopped DEF Abort
  <2>3. work' \in Seq(Frames) /\ StackInv' /\ WaitInv' /\ TopInv'
    BY Zenon, <1>1, <2>1, <2>2, Resume
  <2>4. Advances(disk, disk') /\ Advances(disk', policy')
    BY Zenon, <1>1, <1>4 DEF Advances
  <2> QED
    BY Zenon, <1>1, <1>3, <1>4, <2>2, <2>3, <2>4, Quiet
<1> QED
  BY Zenon, <1>2, <1>6, <1>7, <1>8 DEF ActivateProbe

\* A refresh has the stack for itself.
LEMMA RefreshTop ==
  ASSUME SupInv, NEW at \in {"write", "written", "settle"}, Ready(at)
  PROVE  /\ up /\ TypeOK /\ Len(work) = 1 /\ Head(work) = work[1] /\ work[1] \in Frames
         /\ work[1].at = at /\ Waits(work[1]) /\ Proceeds(work[1])
         /\ work[1].policy = policy /\ policy \in Policies /\ Advances(disk, policy)
<1>1. /\ up /\ Head(work) = work[1] /\ work[1] \in Frames /\ Len(work) \in 1..2
      /\ work[1].at = at /\ Waits(work[1]) /\ Proceeds(work[1])
  BY Zenon, AtTop
<1>2. Len(work) = 1
  BY <1>1 DEF SupInv, StackInv
<1>3. work[1].policy = policy /\ policy \in Policies
  BY Zenon, <1>1 DEF Waits, Frames
<1>4. TypeOK /\ Advances(disk, policy)
  BY Zenon, <1>1 DEF SupInv, DiskInv
<1> QED
  BY Zenon, <1>1, <1>2, <1>3, <1>4

\* No operation on the stack.
LEMMA EmptyInv ==
  ASSUME work' = << >>
  PROVE  work' \in Seq(Frames) /\ StackInv' /\ WaitInv' /\ TopInv'
BY DEF StackInv, WaitInv, TopInv

\* One operation, alone on the stack.
LEMMA AloneInv ==
  ASSUME NEW f \in Frames, work' = <<f>>, f.at # "enter", Waits(f)', Proceeds(f)'
  PROVE  work' \in Seq(Frames) /\ StackInv' /\ WaitInv' /\ TopInv'
<1>1. work' \in Seq(Frames) /\ Len(work') = 1 /\ work'[1] = f
  OBVIOUS
<1> QED
  BY <1>1 DEF StackInv, WaitInv, TopInv

\* The old policy or the credentials expire during the write of a refresh.
LEMMA RefreshExpiresInv == ASSUME SupInv, RefreshExpires PROVE SupInv'
<1>1. /\ Ready("write") /\ NotReady /\ (StopOk \/ StopFails)
      /\ UNCHANGED <<now, up, disk, policy, files, queue, acked>>
      /\ work' = work \/ work' = <<[Head(work) EXCEPT !.by = "stop failed"]>>
  BY Zenon DEF RefreshExpires
<1>2. PICK f \in Frames : f = work[1] /\ f = Head(work) /\ f.at = "write"
  BY Zenon, <1>1, RefreshTop
<1>3. /\ up /\ TypeOK /\ Len(work) = 1 /\ f.policy = policy /\ policy \in Policies
      /\ Advances(disk, policy)
  BY Zenon, <1>1, <1>2, RefreshTop
<1>4. /\ status' \in Status /\ ~status'.ready /\ child' = NoChild /\ tls' = NoTls
      /\ lingering' \subseteq Authorities
  BY Zenon, <1>1, <1>3, ReadyOff, Stopped
<1>5. PICK g \in Frames : work' = <<g>> /\ g.at = "write" /\ g.policy = policy
  <2>1. work = <<f>>
    <3>1. work \in Seq(Frames)
      BY Zenon, <1>3 DEF TypeOK
    <3> QED
      BY <1>2, <1>3, <3>1
  <2>2. /\ [f EXCEPT !.by = "stop failed"] \in Frames
        /\ [f EXCEPT !.by = "stop failed"].at = "write"
        /\ [f EXCEPT !.by = "stop failed"].policy = policy
    BY Zenon, <1>2, <1>3 DEF Frames
  <2> QED
    BY Zenon, <1>1, <1>2, <1>3, <2>1, <2>2, Zenon
<1>6. Waits(g)' /\ Proceeds(g)'
  BY Zenon, <1>1, <1>4, <1>5 DEF Waits, Proceeds
<1>7. work' \in Seq(Frames) /\ StackInv' /\ WaitInv' /\ TopInv'
  BY Zenon, <1>5, <1>6, AloneInv
<1>8. Advances(disk, disk') /\ Advances(disk', policy') /\ disk' \in Policies \cup {NoPolicy}
  BY Zenon, <1>1, <1>3 DEF Advances, TypeOK
<1> QED
  BY Zenon, <1>1, <1>3, <1>4, <1>7, <1>8, Quiet

\* The write of a refresh ends.
LEMMA RefreshWrittenInv == ASSUME SupInv, RefreshWritten PROVE SupInv'
<1>1. Ready("write") /\ UNCHANGED <<now, up, policy, files, queue, acked>>
  BY Zenon DEF RefreshWritten
<1>2. PICK f \in Frames : f = work[1] /\ f = Head(work) /\ f.at = "write"
  BY Zenon, <1>1, RefreshTop
<1>3. /\ up /\ TypeOK /\ f.policy = policy /\ policy \in Policies
      /\ Advances(disk, policy) /\ Proceeds(f)
  BY Zenon, <1>1, <1>2, RefreshTop
<1>4. ASSUME disk' \in {disk, f.policy}
      PROVE  /\ Advances(disk, disk') /\ Advances(disk', policy')
             /\ disk' \in Policies \cup {NoPolicy}
  BY Zenon, <1>1, <1>3, <1>4 DEF Advances, TypeOK
<1>5. CASE /\ disk' \in {disk, f.policy} /\ work' = << >>
           /\ IF f.by = "stop failed" THEN UNCHANGED <<status, child, tls, lingering>>
              ELSE NotReady /\ (StopOk \/ StopFails)
  <2>1. /\ status' \in Status /\ ~status'.ready /\ child' = NoChild
        /\ tls' \in TlsVersions \cup {NoTls} /\ lingering' \subseteq Authorities
    <3>1. CASE f.by = "stop failed"
      <4>1. child = NoChild
        BY Zenon, <1>2, <1>3, <3>1 DEF Proceeds
      <4>2. ~status.ready
        BY Zenon, <4>1 DEF SupInv, ReadyIsBacked
      <4> QED
        BY Zenon, <1>3, <1>5, <3>1, <4>1, <4>2 DEF TypeOK
    <3>2. CASE f.by # "stop failed"
      BY Zenon, <1>3, <1>5, <3>2, ReadyOff, Stopped
    <3> QED
      BY Zenon, <3>1, <3>2
  <2>2. work' \in Seq(Frames) /\ StackInv' /\ WaitInv' /\ TopInv'
    BY Zenon, <1>5, EmptyInv
  <2> QED
    BY Zenon, <1>1, <1>3, <1>4, <1>5, <2>1, <2>2, Quiet
<1>6. CASE /\ disk' = f.policy /\ f.by # "stop failed"
           /\ work' = <<[f EXCEPT !.at = "written"]>>
           /\ UNCHANGED <<status, child, tls, lingering>>
  <2>1. PICK g \in Frames : work' = <<g>> /\ g.at = "written" /\ g.policy = policy
    <3> DEFINE g == [f EXCEPT !.at = "written"]
    <3>1. g \in Frames /\ g.at = "written" /\ g.policy = policy
      BY Zenon, <1>3 DEF Frames
    <3> HIDE DEF g
    <3> QED
      BY Zenon, <1>6, <3>1 DEF g
  <2>2. Waits(g)' /\ Proceeds(g)'
    BY Zenon, <1>1, <1>3, <1>6, <2>1 DEF Waits, Proceeds
  <2>3. work' \in Seq(Frames) /\ StackInv' /\ WaitInv' /\ TopInv'
    BY Zenon, <2>1, <2>2, AloneInv
  <2>4. TypeOK'
    BY Zenon, <1>1, <1>3, <1>6, <2>3 DEF TypeOK
  <2>5. ReportInv'
    BY <2>1 DEF ReportInv
  <2>6. child # NoChild => child.authority = policy.authority
    BY Zenon, <1>2, <1>3 DEF Proceeds, SupInv, ReadyIsBacked
  <2>7. ReadyIsBacked' /\ ServesDurableAuthority'
    BY Zenon, <1>1, <1>3, <1>6, <2>6 DEF SupInv, ReadyIsBacked, ServesDurableAuthority
  <2>8. DiskInv'
    <3>1. policy # NoPolicy
      BY Zenon, <1>3, PolicyFields, SupervisorConstants
    <3> QED
      BY Zenon, <1>1, <1>3, <1>6, <3>1 DEF DiskInv, Advances
  <2>9. AcknowledgedGenerationHeld'
    <3>1. /\ disk.generation \in Nat /\ policy.generation \in Nat /\ acked.generation \in Nat
      BY Zenon, <1>3, PolicyFields DEF TypeOK
    <3>2. disk' = policy /\ acked' = acked
      BY Zenon, <1>1, <1>3, <1>6
    <3>3. acked # NoPolicy => disk = acked \/ disk.generation > acked.generation
      BY Zenon DEF SupInv, AcknowledgedGenerationHeld
    <3>4. policy = disk \/ policy.generation > disk.generation
      BY Zenon, <1>3 DEF Advances
    <3> QED
      BY <3>1, <3>2, <3>3, <3>4 DEF AcknowledgedGenerationHeld
  <2> QED
    BY Zenon, <2>3, <2>4, <2>5, <2>7, <2>8, <2>9 DEF SupInv
<1> QED
  BY Zenon, <1>2, <1>5, <1>6 DEF RefreshWritten

\* The observation after the write of a refresh.
LEMMA RefreshObserveInv == ASSUME SupInv, RefreshObserve PROVE SupInv'
<1>1. /\ Ready("written") /\ UNCHANGED <<now, files>>
      /\ Observe(<<[Head(work) EXCEPT !.at = "settle"]>>)
  BY Zenon DEF RefreshObserve
<1>2. PICK f \in Frames : f = work[1] /\ f = Head(work) /\ f.at = "written"
  BY Zenon, <1>1, RefreshTop
<1>3. up /\ Waits(f)
  BY Zenon, <1>1, <1>2, RefreshTop
<1>4. PICK g \in Frames : /\ g = [Head(work) EXCEPT !.at = "settle"]
                          /\ g.at = "settle" /\ g.policy = f.policy
  <2> DEFINE h == [f EXCEPT !.at = "settle"]
  <2>1. h \in Frames /\ h.at = "settle" /\ h.policy = f.policy
    BY Zenon DEF Frames
  <2> HIDE DEF h
  <2> QED
    BY Zenon, <1>2, <2>1 DEF h
<1>5. Waits(g)
  BY Zenon, <1>2, <1>3, <1>4 DEF Waits
<1>6. Remainder(<<g>>)
  BY Zenon, <1>4, <1>5, OneRemains, Zenon
<1>7. Len(<<g>>) = 1 /\ <<g>>[1] = g
  BY Zenon
<1>8. Observe(<<g>>) /\ (Len(<<g>>) = 1 /\ <<g>>[1].at = "settle")
  BY Zenon, <1>1, <1>4, <1>7, Zenon
<1> QED
  BY Zenon, <1>1, <1>3, <1>6, <1>8, ObserveInv, Zenon

\* The end of a refresh.
LEMMA RefreshSettleInv == ASSUME SupInv, RefreshSettle PROVE SupInv'
<1>1. Ready("settle") /\ UNCHANGED <<now, files>>
  BY Zenon DEF RefreshSettle
<1>2. PICK f \in Frames : f = work[1] /\ f = Head(work) /\ f.at = "settle"
  BY Zenon, <1>1, RefreshTop
<1>3. /\ up /\ TypeOK /\ f.policy = policy /\ policy \in Policies /\ Waits(f)
  BY Zenon, <1>1, <1>2, RefreshTop
<1>4. CASE Activate(f.policy, "apply", << >>)
  <2>1. Advances(policy, f.policy)
    BY Zenon, <1>3 DEF Advances
  <2> QED
    BY Zenon, <1>1, <1>3, <1>4, <2>1, NothingRemains, ActivateInv
<1>5. CASE /\ status.ready
           /\ IF Current(f.policy)
                THEN /\ status' = [status EXCEPT !.policy = f.policy]
                     /\ Acknowledge(f.policy)
                ELSE Abort("apply", << >>) /\ UNCHANGED status
           /\ UNCHANGED <<up, disk, policy, child, tls, queue, lingering>>
  <2>1. disk = policy /\ ReadyIsBacked
    BY Zenon, <1>2, <1>3 DEF Waits, SupInv
  <2>2. work' = << >> /\ acked' \in {acked, disk}
    BY Zenon, <1>3, <1>5, <2>1 DEF Acknowledge, Abort
  <2>3. work' \in Seq(Frames) /\ StackInv' /\ WaitInv' /\ TopInv'
    BY Zenon, <2>2, EmptyInv
  <2>4. CASE status' = [status EXCEPT !.policy = f.policy]
    <3>1. status' \in Status /\ status'.policy = policy
      BY Zenon, <1>3, <2>4 DEF TypeOK, Status
    <3>2. ReportInv' /\ ReadyIsBacked'
      BY Zenon, <1>5, <2>1, <3>1 DEF ReportInv, ReadyIsBacked
    <3> QED
      BY Zenon, <1>1, <1>3, <1>5, <2>2, <2>3, <3>1, <3>2, ReportStep
  <2>5. CASE status' = status /\ ~Current(policy)
    <3>1. status' \in Status
      BY Zenon, <1>3, <2>5 DEF TypeOK
    <3>2. ReportInv' /\ ReadyIsBacked'
      BY Zenon, <1>1, <1>5, <2>1, <2>5 DEF ReportInv, ReadyIsBacked, Current
    <3> QED
      BY Zenon, <1>1, <1>3, <1>5, <2>2, <2>3, <3>1, <3>2, ReportStep
  <2> QED
    BY Zenon, <1>3, <1>5, <2>4, <2>5
<1> QED
  BY Zenon, <1>2, <1>4, <1>5 DEF RefreshSettle

-----------------------------------------------------------------------------
(* The environment *)

\* A start from the file.
LEMMA BootInv == ASSUME SupInv, Boot PROVE SupInv'
<1>1. /\ ~up /\ up' = TRUE /\ policy' = disk /\ status' = [policy |-> disk, ready |-> FALSE]
      /\ work' = IF disk # NoPolicy /\ Current(disk)
                   THEN <<Frame("run", disk, NoPolicy, "observe")>> ELSE << >>
      /\ UNCHANGED <<now, disk, child, tls, files, queue, acked, lingering>>
  BY Zenon DEF Boot
<1>2. /\ child = NoChild /\ disk \in Policies \cup {NoPolicy} /\ lingering \subseteq Authorities
      /\ tls \in TlsVersions \cup {NoTls}
  BY Zenon, <1>1 DEF SupInv, DiskInv, TypeOK
<1>3. status' \in Status /\ ~status'.ready
  BY Zenon, <1>1, <1>2 DEF Status
<1>4. work' \in Seq(Frames) /\ StackInv' /\ WaitInv' /\ TopInv'
  <2>1. CASE work' = << >>
    BY Zenon, <2>1, EmptyInv
  <2>2. CASE disk # NoPolicy /\ work' = <<Frame("run", disk, NoPolicy, "observe")>>
    <3>1. PICK f \in Frames : work' = <<f>> /\ f.at = "run" /\ f.policy = disk
      <4> DEFINE g == Frame("run", disk, NoPolicy, "observe")
      <4>1. g \in Frames /\ g.at = "run" /\ g.policy = disk
        BY Zenon, <1>2, <2>2 DEF Frames, Frame
      <4> HIDE DEF g
      <4> QED
        BY Zenon, <2>2, <4>1 DEF g
    <3>2. Waits(f)' /\ Proceeds(f)'
      BY Zenon, <1>1, <3>1 DEF Waits, Proceeds
    <3> QED
      BY Zenon, <3>1, <3>2, AloneInv
  <2> QED
    BY Zenon, <1>1, <2>1, <2>2
<1>5. Advances(disk, disk') /\ Advances(disk', policy')
  BY Zenon, <1>1 DEF Advances
<1> QED
  BY Zenon, <1>1, <1>2, <1>3, <1>4, <1>5, Quiet

\* A step of the environment: time passes, files rotate, a child dies, a
\* request is queued.
LEMMA EnvironmentInv ==
  ASSUME SupInv, TypeOK', now' >= now, UNCHANGED <<up, disk, policy, tls, status, work, acked>>,
         child' = child \/ (child # NoChild /\ child' # NoChild /\ child'.authority = child.authority)
  PROVE  SupInv'
<1>1. StackInv' /\ WaitInv' /\ TopInv'
  BY Zenon DEF SupInv, StackInv, WaitInv, Waits, TopInv, Proceeds, Advances
<1>2. ReportInv'
  <2>1. ~Current(policy) => ~Current(policy)'
    <3>1. policy.expires \in Nat /\ now \in Nat /\ now' \in Nat
      BY PolicyFields DEF SupInv, TypeOK
    <3> QED
      BY <3>1 DEF Current
  <2> QED
    BY Zenon, <2>1 DEF SupInv, ReportInv
<1>3. DiskInv' /\ ReadyIsBacked' /\ ServesDurableAuthority' /\ AcknowledgedGenerationHeld'
  BY Zenon DEF SupInv, DiskInv, Advances, ReadyIsBacked, ServesDurableAuthority,
         AcknowledgedGenerationHeld
<1> QED
  BY Zenon, <1>1, <1>2, <1>3 DEF SupInv

\* The steps of the environment keep SupInv.
LEMMA OutsideInv ==
  ASSUME SupInv,
         \/ \E p \in Policies : Submit(p)
         \/ ChildExits \/ LingeringExits \/ Rotate \/ Tick \/ UNCHANGED vars
  PROVE  SupInv'
<1>0. TypeOK /\ now \in Nat
  BY SupervisorConstants DEF SupInv, TypeOK
<1>1. CASE \E p \in Policies : Submit(p)
  <2>1. PICK p \in Policies : Submit(p)
    BY Zenon, <1>1
  <2>2. queue' \in Seq(Policies) /\ Len(queue') <= QueueCapacity
    <3>1. queue \in Seq(Policies) /\ Len(queue) < QueueCapacity /\ queue' = Append(queue, p)
      BY Zenon, <1>0, <2>1 DEF Submit, TypeOK
    <3>2. queue' \in Seq(Policies) /\ Len(queue') = Len(queue) + 1 /\ Len(queue) \in Nat
      BY <3>1
    <3> QED
      BY <3>1, <3>2, SupervisorConstants
  <2>3. TypeOK'
    BY Zenon, <1>0, <2>1, <2>2 DEF TypeOK, Submit
  <2> QED
    BY <1>0, <2>1, <2>3, EnvironmentInv DEF Submit
<1>2. CASE ChildExits
  <2>1. child.alive /\ child \in Child /\ child' = [child EXCEPT !.alive = FALSE]
    BY Zenon, <1>0, <1>2 DEF TypeOK, ChildExits
  <2>2. child # NoChild /\ child \in [authority : Authorities, alive : BOOLEAN]
    BY Zenon, <2>1, ChildFields
  <2>3. child' \in Child /\ child'.authority = child.authority
    BY Zenon, <2>1, <2>2 DEF Child
  <2>4. child' # NoChild
    BY Zenon, <2>1, <2>2, <2>3, ChildFields
  <2>5. TypeOK'
    BY Zenon, <1>0, <1>2, <2>3 DEF TypeOK, ChildExits
  <2> QED
    BY <1>0, <1>2, <2>2, <2>3, <2>4, <2>5, EnvironmentInv DEF ChildExits
<1>3. CASE LingeringExits \/ Rotate \/ UNCHANGED vars
  <2>1. TypeOK'
    BY Zenon, <1>0, <1>3 DEF TypeOK, LingeringExits, Rotate, vars
  <2> QED
    BY <1>0, <1>3, <2>1, EnvironmentInv DEF LingeringExits, Rotate, vars
<1>4. CASE Tick
  <2>1. now' \in 0..Horizon /\ now' >= now
    BY <1>0, <1>4, SupervisorConstants DEF TypeOK, Tick
  <2>2. TypeOK'
    BY Zenon, <1>0, <1>4, <2>1 DEF TypeOK, Tick
  <2> QED
    BY Zenon, <1>4, <2>1, <2>2, EnvironmentInv DEF Tick
<1> QED
  BY Zenon, <1>1, <1>2, <1>3, <1>4

-----------------------------------------------------------------------------
(* The theorems *)

\* SupInv is inductive.
LEMMA NextInv == SupInv /\ [Next]_vars => SupInv'
<1> SUFFICES ASSUME SupInv, [Next]_vars PROVE SupInv'
  BY Zenon
<1>1. CASE RunStored
  BY Zenon, <1>1, RunStoredInv
<1>2. CASE ApplyObserve
  BY Zenon, <1>2, ApplyObserveInv
<1>3. CASE ApplyRetry
  BY Zenon, <1>3, ApplyRetryInv
<1>4. CASE ApplyDecide
  BY Zenon, <1>4, ApplyDecideInv
<1>5. CASE ActivatePersist
  BY Zenon, <1>5, ActivatePersistInv
<1>6. CASE ActivateSpawn
  BY Zenon, <1>6, ActivateSpawnInv
<1>7. CASE ActivateProbe
  BY Zenon, <1>7, ActivateProbeInv
<1>8. CASE RefreshExpires
  BY Zenon, <1>8, RefreshExpiresInv
<1>9. CASE RefreshWritten
  BY Zenon, <1>9, RefreshWrittenInv
<1>10. CASE RefreshObserve
  BY Zenon, <1>10, RefreshObserveInv
<1>11. CASE RefreshSettle
  BY Zenon, <1>11, RefreshSettleInv
<1>12. CASE ObserveTick
  BY Zenon, <1>12, ObserveTickInv
<1>13. CASE TakeCommand
  BY Zenon, <1>13, TakeCommandInv
<1>14. CASE Shutdown \/ Crash
  BY Zenon, <1>14, ProcessEndsInv DEF Shutdown, Crash
<1>15. CASE Boot
  BY Zenon, <1>15, BootInv
<1>16. CASE \/ \E p \in Policies : Submit(p)
            \/ ChildExits \/ LingeringExits \/ Rotate \/ Tick \/ UNCHANGED vars
  BY Zenon, <1>16, OutsideInv
<1> QED
  BY Zenon, <1>1, <1>2, <1>3, <1>4, <1>5, <1>6, <1>7, <1>8, <1>9, <1>10, <1>11, <1>12, <1>13,
     <1>14, <1>15, <1>16 DEF Next, Actor

\* The inductive invariant of the Router Supervisor, the types among it.
THEOREM SupervisorInvariant == Spec => []SupInv
<1>1. Init => SupInv
  BY Zenon, InitInv
<1>2. SupInv /\ [Next]_vars => SupInv'
  BY Zenon, NextInv
<1> QED
  BY <1>1, <1>2, PTL DEF Spec

\* Readiness is backed by a child with the authority it reports, whatever
\* happens while observe(), activate() and refresh() await.
THEOREM ReadinessIsBacked == Spec => []ReadyIsBacked
<1>1. SupInv => ReadyIsBacked
  BY Zenon DEF SupInv
<1> QED
  BY <1>1, SupervisorInvariant, PTL

\* A child enforces the authority of the policy on disk.
THEOREM ChildServesDisk == Spec => []ServesDurableAuthority
<1>1. SupInv => ServesDurableAuthority
  BY Zenon DEF SupInv
<1> QED
  BY <1>1, SupervisorInvariant, PTL

\* A generation that was acknowledged is durable for good.
THEOREM AcknowledgedIsDurable == Spec => []AcknowledgedGenerationHeld
<1>1. SupInv => AcknowledgedGenerationHeld
  BY Zenon DEF SupInv
<1> QED
  BY <1>1, SupervisorInvariant, PTL

-----------------------------------------------------------------------------
(* The Supervisor implements RouterFence *)

FenceStep == [Fence!FenceNext]_(Fence!fenceVars)

\* A step that leaves the file and the confirmations alone, and keeps the
\* authority served or closes the Router.
LEMMA FenceCloses ==
  ASSUME UNCHANGED <<disk, acked>>, child'.authority \in {child.authority, "none"}
  PROVE  FenceStep
<1>1. NoPolicy.authority = "none"
  BY Zenon DEF NoPolicy
<1>2. CASE child'.authority = child.authority
  BY Zenon, <1>2 DEF FenceStep, Fence!fenceVars
<1>3. CASE child'.authority = "none"
  BY Zenon, <1>1, <1>3 DEF FenceStep, Fence!FenceNext, Fence!FenceClose
<1> QED
  BY Zenon, <1>2, <1>3

\* A confirmation of the durable policy while it is served.
LEMMA FenceConfirms ==
  ASSUME SupInv, UNCHANGED <<disk, child>>, acked' \in {acked, disk}, child # NoChild
  PROVE  FenceStep
<1>1. child.authority = disk.authority /\ disk # NoPolicy
  BY Zenon DEF SupInv, ServesDurableAuthority, DiskInv
<1>2. CASE acked' = acked
  BY Zenon, <1>2 DEF FenceStep, Fence!fenceVars
<1>3. CASE acked' = disk
  BY Zenon, <1>1, <1>3 DEF FenceStep, Fence!FenceNext, Fence!FenceConfirm
<1> QED
  BY Zenon, <1>2, <1>3

\* A write of the retained policy.
LEMMA FencePersists ==
  ASSUME SupInv, up, policy \in Policies, disk' \in {disk, policy}, acked' = acked,
         child' \in {child, NoChild}, child # NoChild => child.authority = policy.authority
  PROVE  FenceStep
<1>1. /\ policy.generation > disk.generation \/ policy = disk
      /\ NoPolicy.authority = "none" /\ NoChild.authority = "none"
  BY Zenon DEF SupInv, DiskInv, Advances, NoPolicy, NoChild
<1>2. CASE disk' = disk
  BY Zenon, <1>1, <1>2, FenceCloses
<1>3. CASE disk' = policy /\ child' = child
  <2>1. child.authority \in {"none", policy.authority}
    BY Zenon, <1>1
  <2>2. Fence!FencePersist(policy)
    BY Zenon, <1>1, <1>3, <2>1 DEF Fence!FencePersist
  <2> QED
    BY Zenon, <2>2 DEF FenceStep, Fence!FenceNext
<1>4. CASE disk' = policy /\ child' = NoChild
  <2>1. Fence!FenceReplaceAndClose(policy)
    BY Zenon, <1>1, <1>4 DEF Fence!FenceReplaceAndClose
  <2> QED
    BY Zenon, <2>1 DEF FenceStep, Fence!FenceNext
<1> QED
  BY Zenon, <1>2, <1>3, <1>4

\* What observe() and activate() do to the Router.
LEMMA ObserveCloses ==
  ASSUME NEW rest, Observe(rest) \/ \E p, by : Activate(p, by, rest)
  PROVE  FenceStep
<1>1. UNCHANGED <<disk, acked>> /\ child' \in {child, NoChild}
  BY Zenon DEF Observe, Shut, Idle, Activate, Abort, ProcessEnds, StopOk, StopFails
<1>2. NoChild.authority = "none"
  BY Zenon DEF NoChild
<1> QED
  BY Zenon, <1>1, <1>2, FenceCloses

\* Every step of the Supervisor is a step of the fence.
LEMMA StepsAreFenceSteps == SupInv /\ [Next]_vars => FenceStep
<1> SUFFICES ASSUME SupInv, [Next]_vars PROVE FenceStep
  BY Zenon
<1>0. NoChild.authority = "none" /\ TypeOK
  BY Zenon DEF NoChild, SupInv
<1>1. CASE RunStored \/ ApplyObserve \/ ObserveTick \/ RefreshObserve
  BY Zenon, <1>1, ObserveCloses DEF RunStored, ApplyObserve, ObserveTick, RefreshObserve
<1>2. CASE ApplyRetry
  <2>1. CASE /\ status.ready /\ Acknowledge(status.policy) /\ UNCHANGED <<disk, child>>
    <3>1. Ready("retry")
      BY Zenon, <1>2 DEF ApplyRetry
    <3>2. work[1].at = "retry" /\ Waits(work[1])
      BY Zenon, <3>1, AtTop
    <3>3. acked' = disk
      BY Zenon, <2>1, <3>2 DEF Waits, Acknowledge
    <3>4. child # NoChild
      BY Zenon, <2>1 DEF SupInv, ReadyIsBacked
    <3> QED
      BY Zenon, <2>1, <3>3, <3>4, FenceConfirms
  <2> QED
    BY Zenon, <1>2, <2>1, ObserveCloses DEF ApplyRetry
<1>3. CASE ApplyDecide
  BY Zenon, <1>3, ObserveCloses, FenceCloses DEF ApplyDecide, Abort
<1>4. CASE ActivatePersist
  <2>1. Ready("persist") /\ UNCHANGED <<child, acked>> /\ disk' \in {disk, Head(work).policy}
    BY Zenon, <1>4 DEF ActivatePersist, Abort
  <2>2. up /\ Head(work) = work[1] /\ work[1] \in Frames /\ work[1].at = "persist"
        /\ Waits(work[1]) /\ Proceeds(work[1])
    BY Zenon, <2>1, AtTop
  <2>3. work[1].policy = policy /\ policy \in Policies /\ child = NoChild
    BY Zenon, <2>2 DEF Waits, Proceeds, Frames
  <2> QED
    BY Zenon, <2>1, <2>2, <2>3, FencePersists
<1>5. CASE ActivateSpawn
  <2>1. Ready("spawn") /\ UNCHANGED <<disk, acked>>
    BY Zenon, <1>5 DEF ActivateSpawn, Abort
  <2>2. Head(work) = work[1] /\ work[1] \in Frames /\ work[1].at = "spawn"
        /\ Waits(work[1]) /\ Proceeds(work[1])
    BY Zenon, <2>1, AtTop
  <2>3. disk = work[1].policy /\ disk \in Policies
    BY Zenon, <2>2 DEF Waits, Proceeds, Frames
  <2>4. disk # NoPolicy
    BY <2>3, SupervisorConstants DEF NoPolicy
  <2>5. child' = child \/ child'.authority = disk.authority
    BY <1>5, <2>2, <2>3 DEF ActivateSpawn
  <2>6. CASE child'.authority = disk.authority
    BY Zenon, <2>1, <2>4, <2>6 DEF FenceStep, Fence!FenceNext, Fence!FenceServe
  <2> QED
    BY Zenon, <2>1, <2>5, <2>6, FenceCloses
<1>6. CASE ActivateProbe
  <2>1. Ready("probe") /\ disk' = disk
    BY Zenon, <1>6 DEF ActivateProbe
  <2>2. /\ work[1].at = "probe" /\ Proceeds(work[1])
    BY Zenon, <2>1, AtTop
  <2>3. child # NoChild /\ status.policy = disk
    BY Zenon, <2>2 DEF Proceeds
  <2>4. \/ child' = child /\ acked' \in {acked, disk}
        \/ child' = NoChild /\ acked' = acked
    BY Zenon, <1>6, <2>3 DEF ActivateProbe, Abort, Acknowledge, StopOk, StopFails
  <2> QED
    BY Zenon, <1>0, <2>1, <2>3, <2>4, FenceConfirms, FenceCloses
<1>7. CASE RefreshWritten
  <2>1. /\ Ready("write") /\ acked' = acked /\ disk' \in {disk, Head(work).policy}
        /\ child' \in {child, NoChild}
    BY Zenon, <1>7 DEF RefreshWritten, StopOk, StopFails
  <2>2. /\ up /\ Head(work) = work[1] /\ work[1].policy = policy /\ policy \in Policies
        /\ work[1].at = "write" /\ Proceeds(work[1])
    BY Zenon, <2>1, RefreshTop
  <2>3. child # NoChild => child.authority = policy.authority
    BY Zenon, <2>2 DEF Proceeds, SupInv, ReadyIsBacked
  <2> QED
    BY Zenon, <2>1, <2>2, <2>3, FencePersists
<1>8. CASE RefreshSettle
  <2>1. Ready("settle")
    BY Zenon, <1>8 DEF RefreshSettle
  <2>2. /\ Head(work) = work[1] /\ work[1].policy = policy /\ work[1].at = "settle"
        /\ Waits(work[1])
    BY Zenon, <2>1, RefreshTop
  <2>3. disk = policy
    BY Zenon, <2>2 DEF Waits
  <2>4. CASE status.ready /\ UNCHANGED <<disk, child>> /\ acked' \in {acked, policy}
    <3>1. child # NoChild
      BY Zenon, <2>4 DEF SupInv, ReadyIsBacked
    <3> QED
      BY Zenon, <2>3, <2>4, <3>1, FenceConfirms
  <2>5. CASE Activate(Head(work).policy, "apply", << >>)
    BY Zenon, <2>5, ObserveCloses
  <2> QED
    BY Zenon, <1>8, <2>2, <2>4, <2>5 DEF RefreshSettle, Acknowledge, Abort
<1>9. CASE ChildExits
  <2>1. child.alive /\ child \in Child /\ child' = [child EXCEPT !.alive = FALSE]
    BY Zenon, <1>0, <1>9 DEF TypeOK, ChildExits
  <2>2. child'.authority = child.authority
    BY Zenon, <2>1, ChildFields
  <2> QED
    BY Zenon, <1>9, <2>2, FenceCloses DEF ChildExits
<1>10. CASE \/ RefreshExpires \/ TakeCommand \/ Shutdown \/ Crash \/ Boot
            \/ (\E p \in Policies : Submit(p)) \/ LingeringExits \/ Rotate \/ Tick
            \/ UNCHANGED vars
  <2>1. UNCHANGED <<disk, acked>> /\ child' \in {child, NoChild}
    BY Zenon, <1>10 DEF RefreshExpires, TakeCommand, Shutdown, Crash, Boot, Submit, LingeringExits,
                 Rotate, Tick, ProcessEnds, StopOk, StopFails, vars
  <2> QED
    BY Zenon, <1>0, <2>1, FenceCloses
<1> QED
  BY Zenon, <1>1, <1>2, <1>3, <1>4, <1>5, <1>6, <1>7, <1>8, <1>9, <1>10 DEF Next, Actor

\* The Supervisor, for any policies, clocks, credentials, crashes and stubborn
\* children, implements the promise that its Controllers rely on.
THEOREM SupervisorImplementsFence == Spec => ImplementsFence
<1>1. Init => Fence!FenceInit
  BY DEF Init, Fence!FenceInit, NoPolicy, NoChild
<1>2. SupInv /\ [Next]_vars => [Fence!FenceNext]_(Fence!fenceVars)
  BY Zenon, StepsAreFenceSteps DEF FenceStep
<1> QED
  BY <1>1, <1>2, SupervisorInvariant, PTL DEF Spec, ImplementsFence, Fence!FenceSpec
=============================================================================
