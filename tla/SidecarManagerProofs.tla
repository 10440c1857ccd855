------------------------ MODULE SidecarManagerProofs ------------------------
(***************************************************************************)
(* Proofs about SidecarManager, for every number of outside calls, every   *)
(* restart limit and every set of ports.                                   *)
(***************************************************************************)
EXTENDS SidecarManager, TLAPS

USE BoundsAssumption, NoPortAssumption, NoChildAssumption

-----------------------------------------------------------------------------
(* The inductive invariant behind TypeOK and SpawnBudget.  A GPU failure   *)
(* counts as a restart, a CPU retry after a health timeout does not; both  *)
(* set forceCpu, so only one of them ever happens, and the two disjuncts   *)
(* say which.                                                              *)
Budget ==
  \/ /\ mgr.restartCount <= MaxRestarts + CpuRetries
     /\ spawned <= ensures + mgr.restartCount
  \/ /\ mgr.forceCpu
     /\ mgr.restartCount <= MaxRestarts
     /\ spawned <= ensures + mgr.restartCount + 1

IInv == TypeOK /\ Budget

(* Budget implies the bound a user of the manager cares about, and leaves  *)
(* a free slot wherever the code may spawn.                                *)
LEMMA BudgetBounds ==
  ASSUME IInv
  PROVE  /\ SpawnBudget
         /\ ensures < MaxEnsures => spawned + 1 \in Child
         /\ mgr.restartCount < MaxRestarts => spawned + 1 \in Child
         /\ ~mgr.forceCpu => spawned + 1 \in Child
<1> USE DEF IInv, TypeOK, Budget, SpawnBudget, CpuRetries, Child
<1>1. mgr.restartCount \in Nat /\ mgr.forceCpu \in BOOLEAN
  BY DEF Manager
<1>2. CASE mgr.forceCpu
  BY <1>1, <1>2
<1>3. CASE ~mgr.forceCpu
  BY <1>1, <1>3
<1>4. QED
  BY <1>1, <1>2, <1>3

(* What entering start() with manager m and children k does, whichever of  *)
(* its three outcomes is taken.                                            *)
LEMMA LaunchEffect ==
  ASSUME NEW m \in Manager, NEW k \in [Child -> Kid], NEW r \in BOOLEAN,
         spawned \in Nat, spawned + 1 \in Child, Launch(m, k, r)
  PROVE  /\ mgr' \in Manager
         /\ kid' \in [Child -> Kid]
         /\ spawned' \in Nat
         /\ mgr'.restartCount = m.restartCount
         /\ mgr'.forceCpu = m.forceCpu
         /\ mgr'.running = m.running
         /\ mgr'.client = m.client
         /\ \/ /\ mgr'.fallback
               /\ mgr'.child = m.child
               /\ kid' = k
               /\ spawned' = spawned
            \/ /\ ~m.fallback
               /\ mgr'.child = spawned + 1
               /\ ~mgr'.intentionalStop
               /\ kid'[spawned + 1].call = "polling"
               /\ kid'[spawned + 1].port \in Ports
               /\ \A d \in Child \ {spawned + 1} : kid'[d] = k[d]
               /\ spawned' = spawned + 1
<1> USE DEF Manager
<1>1. CASE m.fallback /\ mgr' = m /\ kid' = k /\ spawned' = spawned
  BY <1>1
<1>2. CASE /\ ~m.fallback
           /\ mgr' = [m EXCEPT !.fallback = TRUE] /\ kid' = k /\ spawned' = spawned
  BY <1>2
<1>3. ASSUME NEW p \in Ports, ~m.fallback,
             mgr' = SpawnedManager(m, p), kid' = SpawnedKids(k, p, r),
             spawned' = spawned + 1
      PROVE  /\ mgr' \in Manager
             /\ kid' \in [Child -> Kid]
             /\ mgr'.restartCount = m.restartCount
             /\ mgr'.forceCpu = m.forceCpu
             /\ mgr'.running = m.running
             /\ mgr'.client = m.client
             /\ mgr'.child = spawned + 1
             /\ ~mgr'.intentionalStop
             /\ kid'[spawned + 1].call = "polling"
             /\ kid'[spawned + 1].port \in Ports
             /\ \A d \in Child \ {spawned + 1} : kid'[d] = k[d]
  <2>1. mgr' \in Manager
    BY <1>3 DEF SpawnedManager
  <2>2. [proc |-> "booting", killed |-> FALSE, call |-> "polling",
         port |-> p, retry |-> r] \in Kid
    BY DEF Kid, Proc, Call
  <2>3. kid' \in [Child -> Kid]
    BY <1>3, <2>2 DEF SpawnedKids
  <2>4. QED
    BY <1>3, <2>1, <2>3 DEF SpawnedManager, SpawnedKids
<1>4. QED
  BY <1>1, <1>2, <1>3 DEF Launch

(* The same for what follows await stop(): the CPU retry or the fallback.  *)
LEMMA UnhealthyEffect ==
  ASSUME NEW m \in Manager, NEW k \in [Child -> Kid], NEW r \in BOOLEAN,
         spawned \in Nat, ~m.forceCpu => spawned + 1 \in Child,
         AfterUnhealthy(m, k, r)
  PROVE  /\ mgr' \in Manager
         /\ kid' \in [Child -> Kid]
         /\ spawned' \in Nat
         /\ mgr'.restartCount = m.restartCount
         /\ mgr'.running = m.running
         /\ mgr'.client = m.client
         /\ \/ /\ mgr'.fallback
               /\ m.forceCpu => mgr'.forceCpu
               /\ mgr'.child = m.child
               /\ kid' = k
               /\ spawned' = spawned
            \/ /\ ~m.fallback
               /\ ~m.forceCpu
               /\ mgr'.forceCpu
               /\ mgr'.child = spawned + 1
               /\ ~mgr'.intentionalStop
               /\ kid'[spawned + 1].call = "polling"
               /\ kid'[spawned + 1].port \in Ports
               /\ \A d \in Child \ {spawned + 1} : kid'[d] = k[d]
               /\ spawned' = spawned + 1
<1>1. CASE ~m.forceCpu /\ r /\ Launch([m EXCEPT !.forceCpu = TRUE], k, FALSE)
  <2> DEFINE n == [m EXCEPT !.forceCpu = TRUE]
  <2>1. n \in Manager /\ n.restartCount = m.restartCount /\ n.forceCpu
        /\ n.running = m.running /\ n.client = m.client /\ n.child = m.child
        /\ n.fallback = m.fallback
    BY DEF Manager
  <2>2. Launch(n, k, FALSE)
    BY <1>1
  <2>3. spawned + 1 \in Child
    BY <1>1
  <2> HIDE DEF n
  <2>4. QED
    BY <1>1, <2>1, <2>2, <2>3, LaunchEffect
<1>2. CASE mgr' = [m EXCEPT !.fallback = TRUE] /\ kid' = k /\ spawned' = spawned
  BY <1>2 DEF Manager
<1>3. QED
  BY <1>1, <1>2 DEF AfterUnhealthy

-----------------------------------------------------------------------------
(* The managers and children that the handlers build stay well-typed.      *)
LEMMA Builders ==
  ASSUME TypeOK
  PROVE  /\ Down(mgr) \in Manager
         /\ Counted(Down(mgr)) \in Manager
         /\ [Counted(Down(mgr)) EXCEPT !.forceCpu = TRUE] \in Manager
         /\ Stopping(mgr) \in Manager
         /\ Stopped(mgr) \in Manager
         /\ Stopped(Stopping(mgr)) \in Manager
         /\ \A c \in Child : Reaped(c) \in [Child -> Kid]
         /\ \A c \in Child : Settle(kid, c) \in [Child -> Kid]
         /\ mgr.child # NoChild => Signalled \in [Child -> Kid]
         /\ mgr.child # NoChild => Killed \in [Child -> Kid]
         /\ mgr.child # NoChild =>
              \A c \in Child : /\ [Signalled EXCEPT ![c].call = "stopping"] \in [Child -> Kid]
                               /\ Settle(Killed, c) \in [Child -> Kid]
<1> USE DEF TypeOK
<1>a. ASSUME NEW m \in Manager
      PROVE  /\ Down(m) \in Manager
             /\ Counted(m) \in Manager
             /\ [m EXCEPT !.forceCpu = TRUE] \in Manager
             /\ Stopping(m) \in Manager
             /\ Stopped(m) \in Manager
  <2>1. Down(m) \in Manager
    BY DEF Manager, Down
  <2>2. Counted(m) \in Manager
    BY DEF Manager, Counted
  <2>3. [m EXCEPT !.forceCpu = TRUE] \in Manager
    BY DEF Manager
  <2>4. Stopping(m) \in Manager /\ Stopped(m) \in Manager
    BY DEF Manager, Stopping, Stopped
  <2>5. QED
    BY <2>1, <2>2, <2>3, <2>4
<1>1. /\ Down(mgr) \in Manager
      /\ Counted(Down(mgr)) \in Manager
      /\ [Counted(Down(mgr)) EXCEPT !.forceCpu = TRUE] \in Manager
  BY <1>a
<1>2. /\ Stopping(mgr) \in Manager
      /\ Stopped(mgr) \in Manager
      /\ Stopped(Stopping(mgr)) \in Manager
  BY <1>a
<1>3. \A c \in Child : Reaped(c) \in [Child -> Kid] /\ Settle(kid, c) \in [Child -> Kid]
  BY DEF Reaped, Settle, Kid, Proc, Call
<1>4. ASSUME mgr.child # NoChild
      PROVE  Signalled \in [Child -> Kid] /\ Killed \in [Child -> Kid]
  <2>1. Signalled \in [Child -> Kid]
    BY <1>4, ZenonT(40) DEF Signalled, Kid, Manager
  <2>2. QED
    BY <2>1 DEF Killed
<1>5. ASSUME NEW k \in [Child -> Kid], NEW c \in Child
      PROVE  [k EXCEPT ![c].call = "stopping"] \in [Child -> Kid]
             /\ Settle(k, c) \in [Child -> Kid]
  BY DEF Settle, Kid, Call
<1>6. QED
  BY <1>1, <1>2, <1>3, <1>4, <1>5

(* What the builders change of the fields the invariants look at.          *)
LEMMA Fields ==
  ASSUME NEW m \in Manager
  PROVE  /\ Down(m) = [m EXCEPT !.running = FALSE]
         /\ \A f \in {"restartCount", "forceCpu", "fallback", "child", "client",
                      "intentionalStop", "gpuErr", "port"} : Down(m)[f] = m[f]
         /\ ~Down(m).running
         /\ Counted(m).restartCount = m.restartCount + 1
         /\ \A f \in {"running", "forceCpu", "fallback", "child", "client",
                      "intentionalStop", "gpuErr", "port"} : Counted(m)[f] = m[f]
         /\ Stopping(m).intentionalStop
         /\ \A f \in {"restartCount", "running", "forceCpu", "fallback", "child",
                      "client", "gpuErr", "port"} : Stopping(m)[f] = m[f]
         /\ Stopped(m).child = NoChild /\ Stopped(m).client = NoPort
         /\ ~Stopped(m).running /\ Stopped(m).port = NoPort
         /\ \A f \in {"restartCount", "forceCpu", "fallback", "intentionalStop",
                      "gpuErr"} : Stopped(m)[f] = m[f]
<1>1. /\ Down(m) = [m EXCEPT !.running = FALSE]
      /\ \A f \in {"restartCount", "forceCpu", "fallback", "child", "client",
                   "intentionalStop", "gpuErr", "port"} : Down(m)[f] = m[f]
      /\ ~Down(m).running
  BY DEF Manager, Down
<1>2. /\ Counted(m).restartCount = m.restartCount + 1
      /\ \A f \in {"running", "forceCpu", "fallback", "child", "client",
                   "intentionalStop", "gpuErr", "port"} : Counted(m)[f] = m[f]
  BY DEF Manager, Counted
<1>3. /\ Stopping(m).intentionalStop
      /\ \A f \in {"restartCount", "running", "forceCpu", "fallback", "child",
                   "client", "gpuErr", "port"} : Stopping(m)[f] = m[f]
  BY DEF Manager, Stopping
<1>4. /\ Stopped(m).child = NoChild /\ Stopped(m).client = NoPort
      /\ ~Stopped(m).running /\ Stopped(m).port = NoPort
      /\ \A f \in {"restartCount", "forceCpu", "fallback", "intentionalStop",
                   "gpuErr"} : Stopped(m)[f] = m[f]
  BY DEF Manager, Stopped
<1>5. QED
  BY <1>1, <1>2, <1>3, <1>4

-----------------------------------------------------------------------------
LEMMA InitIInv == Init => IInv
<1> SUFFICES ASSUME Init PROVE IInv
  OBVIOUS
<1>1. InitManager \in Manager
  BY DEF InitManager, Manager
<1>2. InitKid \in Kid
  BY DEF InitKid, Kid, Proc, Call
<1>3. TypeOK
  BY <1>1, <1>2 DEF Init, TypeOK
<1>4. Budget
  BY DEF Init, InitManager, Budget, CpuRetries
<1>5. QED
  BY <1>3, <1>4 DEF IInv

(* One step per action: each keeps the types, and pays for the child it    *)
(* spawns with an outside call, a restart or the one CPU retry.            *)
LEMMA NextIInv == IInv /\ [Next]_vars => IInv'
<1> SUFFICES ASSUME IInv, [Next]_vars PROVE IInv'
  OBVIOUS
<1> USE DEF IInv
<1>t. /\ mgr \in Manager /\ kid \in [Child -> Kid] /\ spawned \in Nat
      /\ ensures \in 0 .. MaxEnsures
      /\ stopper \in [Stoppers -> {"ready", "grace", "done"}]
      /\ mgr.restartCount \in Nat
      /\ mgr.forceCpu \in BOOLEAN
  BY DEF TypeOK, Manager
<1>k. \A c \in Child : kid[c].retry \in BOOLEAN
  BY <1>t DEF Kid
<1>b. Budget
  OBVIOUS
<1>1. CASE StartCall
  <2>1. ensures < MaxEnsures /\ ensures' = ensures + 1 /\ stopper' = stopper
        /\ Launch(mgr, kid, TRUE)
    BY <1>1 DEF StartCall
  <2>2. spawned + 1 \in Child
    BY <2>1, BudgetBounds
  <2>3. /\ mgr' \in Manager /\ kid' \in [Child -> Kid] /\ spawned' \in Nat
        /\ mgr'.restartCount = mgr.restartCount
        /\ mgr'.forceCpu = mgr.forceCpu
        /\ spawned' \in {spawned, spawned + 1}
    BY <1>t, <2>1, <2>2, LaunchEffect
  <2>4. TypeOK'
    BY <1>t, <2>1, <2>3 DEF TypeOK
  <2>5. Budget'
    BY <1>t, <1>b, <2>1, <2>3 DEF Budget, CpuRetries
  <2>6. QED
    BY <2>4, <2>5
<1>2. ASSUME NEW c \in Child, Boot(c) \/ ReportGpuError(c) \/ Exit(c) \/ Answer(c) \/ HealthOk(c)
      PROVE  IInv'
  <2>1. kid' \in [Child -> Kid]
    BY <1>t, <1>2 DEF Boot, ReportGpuError, Exit, Answer, HealthOk, Settle, Kid, Proc, Call
  <2>2. kid[c].port \in Ports \cup {NoPort}
    BY <1>t DEF Kid
  <2>3. mgr' \in Manager /\ mgr'.restartCount = mgr.restartCount /\ mgr'.forceCpu = mgr.forceCpu
    BY <1>t, <1>2, <2>2 DEF Boot, ReportGpuError, Exit, Answer, HealthOk, Manager
  <2>4. UNCHANGED <<spawned, ensures, stopper>>
    BY <1>2 DEF Boot, ReportGpuError, Exit, Answer, HealthOk
  <2>5. QED
    BY <1>t, <1>b, <2>1, <2>3, <2>4 DEF TypeOK, Budget, CpuRetries
<1>3. ASSUME NEW c \in Child, OnExit(c)
      PROVE  IInv'
  <2>1. UNCHANGED <<ensures, stopper>> /\ Reaped(c) \in [Child -> Kid]
    BY <1>3, Builders DEF OnExit
  <2>2. ASSUME NEW m \in Manager, spawned' = spawned, mgr' = m, kid' = Reaped(c),
               m.restartCount = mgr.restartCount, m.forceCpu = mgr.forceCpu
        PROVE  IInv'
    BY <1>t, <1>b, <2>1, <2>2 DEF TypeOK, Budget, CpuRetries
  <2>3. CASE mgr' = Down(mgr) /\ kid' = Reaped(c) /\ spawned' = spawned
    BY <1>t, <2>2, <2>3, Builders, Fields
  <2>4. CASE /\ mgr' = [Down(mgr) EXCEPT !.fallback = TRUE]
             /\ kid' = Reaped(c) /\ spawned' = spawned
    <3>1. mgr' \in Manager /\ mgr'.restartCount = mgr.restartCount
          /\ mgr'.forceCpu = mgr.forceCpu
      BY <1>t, <2>4, Builders, Fields DEF Manager
    <3>2. QED
      BY <2>2, <2>4, <3>1
  <2>5. CASE /\ GpuFailure(c)
             /\ Launch([Counted(Down(mgr)) EXCEPT !.forceCpu = TRUE], Reaped(c), FALSE)
    <3> DEFINE m == [Counted(Down(mgr)) EXCEPT !.forceCpu = TRUE]
    <3>1. m \in Manager /\ m.restartCount = mgr.restartCount + 1 /\ m.forceCpu
      BY <1>t, Builders, Fields DEF Manager
    <3>2. ~mgr.forceCpu /\ spawned + 1 \in Child
      BY <2>5, BudgetBounds DEF GpuFailure
    <3>3. Launch(m, Reaped(c), FALSE)
      BY <2>5
    <3> HIDE DEF m
    <3>4. /\ mgr' \in Manager /\ kid' \in [Child -> Kid] /\ spawned' \in Nat
          /\ mgr'.restartCount = mgr.restartCount + 1
          /\ mgr'.forceCpu
          /\ spawned' \in {spawned, spawned + 1}
      BY <1>t, <2>1, <3>1, <3>2, <3>3, LaunchEffect
    <3>5. Budget'
      BY <1>t, <1>b, <2>1, <3>2, <3>4 DEF Budget, CpuRetries
    <3>6. QED
      BY <1>t, <2>1, <3>4, <3>5 DEF TypeOK
  <2>6. CASE /\ mgr.restartCount < MaxRestarts
             /\ Launch(Counted(Down(mgr)), Reaped(c), kid[c].retry)
    <3> DEFINE m == Counted(Down(mgr))
    <3>1. m \in Manager /\ m.restartCount = mgr.restartCount + 1 /\ m.forceCpu = mgr.forceCpu
      BY <1>t, Builders, Fields
    <3>2. spawned + 1 \in Child
      BY <2>6, BudgetBounds
    <3>3. Launch(m, Reaped(c), kid[c].retry)
      BY <2>6
    <3> HIDE DEF m
    <3>4. /\ mgr' \in Manager /\ kid' \in [Child -> Kid] /\ spawned' \in Nat
          /\ mgr'.restartCount = mgr.restartCount + 1
          /\ mgr'.forceCpu = mgr.forceCpu
          /\ spawned' \in {spawned, spawned + 1}
      BY <1>t, <1>k, <2>1, <3>1, <3>2, <3>3, LaunchEffect
    <3>5. Budget'
      BY <1>t, <1>b, <2>1, <2>6, <3>4 DEF Budget, CpuRetries
    <3>6. QED
      BY <1>t, <2>1, <3>4, <3>5 DEF TypeOK
  <2>7. QED
    BY <1>3, <2>3, <2>4, <2>5, <2>6 DEF OnExit
<1>u. ASSUME NEW m \in Manager, NEW k \in [Child -> Kid], NEW r \in BOOLEAN,
             m.restartCount = mgr.restartCount, m.forceCpu = mgr.forceCpu,
             AfterUnhealthy(m, k, r), UNCHANGED <<ensures, stopper>>
      PROVE  IInv'
  <2>1. ~m.forceCpu => spawned + 1 \in Child
    BY <1>u, BudgetBounds
  <2>2. /\ mgr' \in Manager /\ kid' \in [Child -> Kid] /\ spawned' \in Nat
        /\ mgr'.restartCount = mgr.restartCount
        /\ mgr'.forceCpu \in BOOLEAN
        /\ \/ spawned' = spawned /\ (mgr.forceCpu => mgr'.forceCpu)
           \/ spawned' = spawned + 1 /\ ~mgr.forceCpu /\ mgr'.forceCpu
    BY <1>t, <1>u, <2>1, UnhealthyEffect DEF Manager
  <2>3. Budget'
    <3>1. ensures' = ensures
      BY <1>u
    <3>2. QED
      BY <1>t, <1>b, <2>2, <3>1 DEF Budget, CpuRetries
  <2>4. QED
    BY <1>t, <1>u, <2>2, <2>3 DEF TypeOK
<1>4. ASSUME NEW c \in Child, HealthTimeout(c)
      PROVE  IInv'
  <2>1. CASE AfterUnhealthy(Stopped(Stopping(mgr)), Settle(kid, c), kid[c].retry)
    BY <1>t, <1>k, <1>4, <1>u, <2>1, Builders, Fields DEF HealthTimeout
  <2>2. CASE /\ ~NothingToSignal
             /\ mgr' = Stopping(mgr)
             /\ kid' = [Signalled EXCEPT ![c].call = "stopping"]
             /\ spawned' = spawned
    <3>1. mgr.child # NoChild
      BY <2>2 DEF NothingToSignal
    <3>2. mgr' \in Manager /\ kid' \in [Child -> Kid]
          /\ mgr'.restartCount = mgr.restartCount /\ mgr'.forceCpu = mgr.forceCpu
      BY <1>t, <2>2, <3>1, Builders, Fields
    <3>3. QED
      BY <1>t, <1>b, <1>4, <2>2, <3>2 DEF HealthTimeout, TypeOK, Budget, CpuRetries
  <2>3. QED
    BY <1>4, <2>1, <2>2 DEF HealthTimeout
<1>5. ASSUME NEW c \in Child, GraceOver(c)
      PROVE  IInv'
  <2>1. CASE mgr.child # NoChild
             /\ AfterUnhealthy(Stopped(mgr), Settle(Killed, c), kid[c].retry)
    <3>1. Stopped(mgr) \in Manager /\ Settle(Killed, c) \in [Child -> Kid]
      BY <1>5, <2>1, Builders
    <3>2. /\ Stopped(mgr).restartCount = mgr.restartCount
          /\ Stopped(mgr).forceCpu = mgr.forceCpu
      BY <1>t, Fields
    <3>3. UNCHANGED <<ensures, stopper>> /\ kid[c].retry \in BOOLEAN
      BY <1>5, <1>k DEF GraceOver
    <3>4. QED
      BY <1>u, <2>1, <3>1, <3>2, <3>3
  <2>2. CASE kid' = Settle(kid, c) /\ UNCHANGED <<mgr, spawned>>
    BY <1>t, <1>b, <1>5, <2>2, Builders DEF GraceOver, TypeOK, Budget, CpuRetries
  <2>3. QED
    BY <1>5, <2>1, <2>2 DEF GraceOver
<1>6. ASSUME NEW s \in Stoppers, StopCall(s) \/ StopGraceOver(s)
      PROVE  IInv'
  <2>1. stopper' \in [Stoppers -> {"ready", "grace", "done"}]
    BY <1>t, <1>6 DEF StopCall, StopGraceOver
  <2>2. UNCHANGED <<spawned, ensures>>
    BY <1>6 DEF StopCall, StopGraceOver
  <2>3. mgr' \in {mgr, Stopping(mgr), Stopped(mgr), Stopped(Stopping(mgr))}
    BY <1>6 DEF StopCall, StopGraceOver
  <2>4. kid' = kid \/ (mgr.child # NoChild /\ kid' \in {Signalled, Killed})
    BY <1>6 DEF StopCall, StopGraceOver, NothingToSignal
  <2>5. mgr' \in Manager /\ mgr'.restartCount = mgr.restartCount /\ mgr'.forceCpu = mgr.forceCpu
    BY <1>t, <2>3, Builders, Fields
  <2>6. kid' \in [Child -> Kid]
    BY <1>t, <2>4, Builders
  <2>7. QED
    BY <1>t, <1>b, <2>1, <2>2, <2>5, <2>6 DEF TypeOK, Budget, CpuRetries
<1>7. CASE UNCHANGED vars
  BY <1>7, <1>t, <1>b DEF vars, TypeOK, Budget, CpuRetries
<1>8. QED
  BY <1>1, <1>2, <1>3, <1>4, <1>5, <1>6, <1>7 DEF Next

(* Every reachable state of the manager is well-typed; in particular no    *)
(* child is ever spawned beyond the slots of Child.                        *)
THEOREM TypeCorrect == Spec => []TypeOK
<1>1. IInv => TypeOK
  BY DEF IInv
<1>2. QED
  BY <1>1, InitIInv, NextIInv, PTL DEF Spec

(* The restart limit and the single CPU retry bound the number of          *)
(* children, for every number of overlapping calls and every limit.        *)
THEOREM SpawnsAreBounded == Spec => []SpawnBudget
<1>1. IInv => SpawnBudget
  BY BudgetBounds
<1>2. QED
  BY <1>1, InitIInv, NextIInv, PTL DEF Spec

-----------------------------------------------------------------------------
(* The inductive invariant behind NothingStranded and ClientBehindRunning. *)
(* Without an outside stop(), childProcess is never left null and          *)
(* intentionalStop never left set, except by a start() that is about to    *)
(* retry or by one that chose the fallback: so an exit event the handler   *)
(* ignores always has somebody else to act on it.                          *)
NoStops == \A s \in Stoppers : stopper[s] = "ready"
InCall(k, c) == k[c].call \in {"polling", "answered", "stopping"}
Busy == \E c \in Child : InCall(kid, c) \/ kid[c].proc = "exited"

(* Only spawned children have a call, a process and a port.                *)
OnlySpawned(k, n) ==
  \A c \in Child : /\ k[c].call # "none" => c <= n /\ k[c].port \in Ports
                   /\ k[c].proc # "absent" => c <= n

ClientKnown(m) == m.running => m.client # NoPort

RInv ==
  /\ OnlySpawned(kid, spawned)
  /\ ClientKnown(mgr)
  /\ NoStops /\ spawned > 0 => mgr.child # NoChild \/ mgr.fallback
  /\ NoStops /\ mgr.intentionalStop =>
       mgr.fallback \/ \E c \in Child : kid[c].call = "stopping"
  /\ NoStops /\ spawned > 0 => mgr.running \/ mgr.fallback \/ Busy

(* A step that ends in start() or in the CPU retry re-establishes RInv: it *)
(* leaves either the fallback or a fresh child that is being polled.       *)
LEMMA LaunchRInv ==
  ASSUME IInv, NEW m \in Manager, NEW k \in [Child -> Kid], NEW r \in BOOLEAN,
         ClientKnown(m), OnlySpawned(k, spawned), spawned + 1 \in Child,
         Launch(m, k, r)
  PROVE  RInv'
<1>1. spawned \in Nat
  BY DEF IInv, TypeOK
<1>2. CASE /\ mgr' \in Manager
           /\ mgr'.running = m.running /\ mgr'.client = m.client
           /\ mgr'.fallback /\ kid' = k /\ spawned' = spawned
  BY <1>2 DEF RInv, OnlySpawned, ClientKnown
<1>3. CASE /\ mgr' \in Manager
           /\ mgr'.running = m.running /\ mgr'.client = m.client
           /\ mgr'.child = spawned + 1
           /\ ~mgr'.intentionalStop
           /\ kid'[spawned + 1].call = "polling"
           /\ kid'[spawned + 1].port \in Ports
           /\ \A d \in Child \ {spawned + 1} : kid'[d] = k[d]
           /\ spawned' = spawned + 1
  <2>1. OnlySpawned(kid', spawned')
    BY <1>1, <1>3 DEF OnlySpawned, Child
  <2>2. mgr'.child # NoChild
    BY <1>1, <1>3
  <2>3. Busy'
    BY <1>3 DEF Busy, InCall
  <2>4. QED
    BY <1>3, <2>1, <2>2, <2>3 DEF RInv, ClientKnown
<1>4. QED
  BY <1>1, <1>2, <1>3, LaunchEffect

LEMMA UnhealthyRInv ==
  ASSUME IInv, NEW m \in Manager, NEW k \in [Child -> Kid], NEW r \in BOOLEAN,
         ClientKnown(m), OnlySpawned(k, spawned),
         m.forceCpu = mgr.forceCpu, AfterUnhealthy(m, k, r)
  PROVE  RInv'
<1>1. CASE ~m.forceCpu /\ r /\ Launch([m EXCEPT !.forceCpu = TRUE], k, FALSE)
  <2>1. [m EXCEPT !.forceCpu = TRUE] \in Manager /\ ClientKnown([m EXCEPT !.forceCpu = TRUE])
    BY DEF Manager, ClientKnown
  <2>2. spawned + 1 \in Child
    BY <1>1, BudgetBounds
  <2>3. QED
    BY <1>1, <2>1, <2>2, LaunchRInv
<1>2. CASE mgr' = [m EXCEPT !.fallback = TRUE] /\ kid' = k /\ spawned' = spawned
  <2>1. mgr'.fallback /\ ClientKnown(mgr')
    BY <1>2 DEF Manager, ClientKnown
  <2>2. QED
    BY <1>2, <2>1 DEF RInv, OnlySpawned, ClientKnown
<1>3. QED
  BY <1>1, <1>2 DEF AfterUnhealthy

LEMMA InitRInv == Init => RInv
  BY DEF Init, InitManager, InitKid, RInv, OnlySpawned, ClientKnown

LEMMA NextRInv == IInv /\ RInv /\ [Next]_vars => RInv'
<1> SUFFICES ASSUME IInv, RInv, [Next]_vars PROVE RInv'
  OBVIOUS
<1>t. /\ mgr \in Manager /\ kid \in [Child -> Kid] /\ spawned \in Nat
      /\ stopper \in [Stoppers -> {"ready", "grace", "done"}]
      /\ TypeOK
  BY DEF IInv, TypeOK
<1>k. \A c \in Child : kid[c] \in Kid /\ kid[c].retry \in BOOLEAN
  BY <1>t DEF Kid
<1>o. OnlySpawned(kid, spawned) /\ ClientKnown(mgr)
  BY DEF RInv
<1>1. CASE StartCall
  <2>1. Launch(mgr, kid, TRUE) /\ spawned + 1 \in Child
    BY <1>1, BudgetBounds DEF StartCall
  <2>2. QED
    BY <1>t, <1>o, <2>1, LaunchRInv
<1>2. ASSUME NEW c \in Child, Boot(c) \/ Exit(c)
      PROVE  RInv'
  <2>1. /\ \A d \in Child : kid'[d].call = kid[d].call /\ kid'[d].port = kid[d].port
        /\ \A d \in Child \ {c} : kid'[d].proc = kid[d].proc
        /\ kid[c].proc # "absent"
        /\ kid[c].proc # "exited"
    BY <1>t, <1>k, <1>2 DEF Boot, Exit, Live, Kid
  <2>2. UNCHANGED <<mgr, spawned, stopper>>
    BY <1>2 DEF Boot, Exit
  <2>3. OnlySpawned(kid', spawned')
    BY <1>o, <2>1, <2>2 DEF OnlySpawned
  <2>4. Busy => Busy'
    BY <2>1 DEF Busy, InCall
  <2>5. QED
    BY <2>1, <2>2, <2>3, <2>4 DEF RInv, NoStops, ClientKnown
<1>3. ASSUME NEW c \in Child, ReportGpuError(c)
      PROVE  RInv'
  <2>1. \A f \in {"running", "client", "child", "fallback", "intentionalStop"} :
          mgr'[f] = mgr[f]
    BY <1>t, <1>3 DEF ReportGpuError, Manager
  <2>2. UNCHANGED <<kid, spawned, stopper>>
    BY <1>3 DEF ReportGpuError
  <2>3. QED
    BY <2>1, <2>2 DEF RInv, NoStops, OnlySpawned, ClientKnown, Busy, InCall
<1>4. ASSUME NEW c \in Child, Answer(c)
      PROVE  RInv'
  <2>1. /\ kid'[c].call = "answered" /\ kid[c].call = "polling"
        /\ \A d \in Child : kid'[d].proc = kid[d].proc /\ kid'[d].port = kid[d].port
        /\ \A d \in Child \ {c} : kid'[d].call = kid[d].call
    BY <1>t, <1>k, <1>4 DEF Answer, Kid
  <2>2. UNCHANGED <<mgr, spawned, stopper>>
    BY <1>4 DEF Answer
  <2>3. OnlySpawned(kid', spawned')
    BY <1>o, <2>1, <2>2 DEF OnlySpawned
  <2>4. Busy'
    BY <2>1 DEF Busy, InCall
  <2>5. QED
    BY <2>1, <2>2, <2>3, <2>4 DEF RInv, NoStops, ClientKnown
<1>5. ASSUME NEW c \in Child, HealthOk(c)
      PROVE  RInv'
  <2>1. /\ kid[c].call = "answered" /\ kid'[c].call = "settled"
        /\ \A d \in Child : kid'[d].proc = kid[d].proc /\ kid'[d].port = kid[d].port
        /\ \A d \in Child \ {c} : kid'[d].call = kid[d].call
    BY <1>t, <1>k, <1>5 DEF HealthOk, Settle, Kid
  <2>2. /\ mgr'.running /\ mgr'.client = kid[c].port
        /\ mgr'.child = mgr.child /\ mgr'.fallback = mgr.fallback
        /\ mgr'.intentionalStop = mgr.intentionalStop
    BY <1>t, <1>5 DEF HealthOk, Manager
  <2>3. spawned' = spawned /\ stopper' = stopper
    BY <1>5 DEF HealthOk
  <2>4. OnlySpawned(kid', spawned') /\ kid[c].port \in Ports
    BY <1>o, <2>1, <2>3 DEF OnlySpawned
  <2>5. ClientKnown(mgr')
    BY <2>2, <2>4 DEF ClientKnown
  <2>6. QED
    BY <2>1, <2>2, <2>3, <2>4, <2>5 DEF RInv, NoStops, ClientKnown, OnlySpawned
<1>6. ASSUME NEW c \in Child, OnExit(c)
      PROVE  RInv'
  <2>1. /\ Reaped(c) \in [Child -> Kid]
        /\ \A d \in Child : Reaped(c)[d].call = kid[d].call /\ Reaped(c)[d].port = kid[d].port
        /\ OnlySpawned(Reaped(c), spawned)
    <3>1. /\ \A d \in Child : Reaped(c)[d].call = kid[d].call /\ Reaped(c)[d].port = kid[d].port
          /\ \A d \in Child \ {c} : Reaped(c)[d].proc = kid[d].proc
          /\ kid[c].proc = "exited"
      BY <1>t, <1>k, <1>6 DEF OnExit, Reaped, Kid
    <3>2. QED
      BY <1>t, <1>o, <3>1, Builders DEF OnlySpawned
  <2>2. CASE mgr.intentionalStop /\ mgr' = Down(mgr) /\ kid' = Reaped(c) /\ spawned' = spawned
    <3>1. /\ ~mgr'.running
          /\ mgr'.child = mgr.child /\ mgr'.fallback = mgr.fallback
          /\ mgr'.intentionalStop = mgr.intentionalStop
      BY <1>t, <2>2, Fields
    <3>2. (\E d \in Child : kid[d].call = "stopping") => Busy'
      BY <2>1, <2>2 DEF Busy, InCall
    <3>3. stopper' = stopper
      BY <1>6 DEF OnExit
    <3>4. NoStops => mgr.fallback \/ \E d \in Child : kid[d].call = "stopping"
      BY <2>2 DEF RInv
    <3>5. QED
      BY <2>1, <2>2, <3>1, <3>2, <3>3, <3>4 DEF RInv, NoStops, ClientKnown, OnlySpawned
  <2>3. CASE mgr' = [Down(mgr) EXCEPT !.fallback = TRUE] /\ kid' = Reaped(c) /\ spawned' = spawned
    <3>1. ~mgr'.running /\ mgr'.fallback
      BY <1>t, <2>3, Builders, Fields DEF Manager
    <3>2. QED
      BY <2>1, <2>3, <3>1 DEF RInv, ClientKnown, OnlySpawned
  <2>4. CASE /\ GpuFailure(c)
             /\ Launch([Counted(Down(mgr)) EXCEPT !.forceCpu = TRUE], Reaped(c), FALSE)
    <3>1. ClientKnown([Counted(Down(mgr)) EXCEPT !.forceCpu = TRUE])
      BY <1>t, Builders, Fields DEF Manager, ClientKnown
    <3>2. spawned + 1 \in Child
      BY <2>4, BudgetBounds DEF GpuFailure
    <3>3. QED
      BY <1>t, <2>1, <2>4, <3>1, <3>2, Builders, LaunchRInv
  <2>5. CASE /\ mgr.restartCount < MaxRestarts
             /\ Launch(Counted(Down(mgr)), Reaped(c), kid[c].retry)
    <3>1. ClientKnown(Counted(Down(mgr)))
      BY <1>t, Builders, Fields DEF ClientKnown
    <3>2. spawned + 1 \in Child
      BY <2>5, BudgetBounds
    <3>3. QED
      BY <1>t, <1>k, <2>1, <2>5, <3>1, <3>2, Builders, LaunchRInv
  <2>6. QED
    BY <1>6, <2>2, <2>3, <2>4, <2>5 DEF OnExit
<1>7. ASSUME NEW c \in Child, HealthTimeout(c)
      PROVE  RInv'
  <2>1. CASE AfterUnhealthy(Stopped(Stopping(mgr)), Settle(kid, c), kid[c].retry)
    <3>1. ClientKnown(Stopped(Stopping(mgr))) /\ Stopped(Stopping(mgr)).forceCpu = mgr.forceCpu
      BY <1>t, Builders, Fields DEF ClientKnown
    <3>2. OnlySpawned(Settle(kid, c), spawned)
      BY <1>t, <1>k, <1>o, <1>7 DEF HealthTimeout, OnlySpawned, Settle, Kid
    <3>3. QED
      BY <1>t, <1>k, <2>1, <3>1, <3>2, Builders, UnhealthyRInv
  <2>2. CASE /\ ~NothingToSignal
             /\ mgr' = Stopping(mgr)
             /\ kid' = [Signalled EXCEPT ![c].call = "stopping"]
             /\ spawned' = spawned
    <3>1. mgr.child # NoChild /\ mgr.child \in Child
      BY <1>t, <2>2 DEF NothingToSignal, Manager
    <3>2. /\ kid[c].call = "polling" /\ kid'[c].call = "stopping"
          /\ \A d \in Child : kid'[d].proc = kid[d].proc /\ kid'[d].port = kid[d].port
          /\ \A d \in Child \ {c} : kid'[d].call = kid[d].call
      BY <1>t, <1>k, <1>7, <2>2, <3>1 DEF HealthTimeout, Signalled, Kid
    <3>3. /\ mgr'.running = mgr.running /\ mgr'.client = mgr.client
          /\ mgr'.child = mgr.child
      BY <1>t, <2>2, Fields
    <3>4. OnlySpawned(kid', spawned')
      BY <1>o, <2>2, <3>2 DEF OnlySpawned
    <3>5. Busy'
      BY <3>2 DEF Busy, InCall
    <3>6. QED
      BY <1>o, <3>1, <3>2, <3>3, <3>4, <3>5 DEF RInv, ClientKnown, OnlySpawned
  <2>3. QED
    BY <1>7, <2>1, <2>2 DEF HealthTimeout
<1>8. ASSUME NEW c \in Child, GraceOver(c)
      PROVE  RInv'
  <2>1. CASE mgr.child # NoChild
             /\ AfterUnhealthy(Stopped(mgr), Settle(Killed, c), kid[c].retry)
    <3>1. ClientKnown(Stopped(mgr)) /\ Stopped(mgr).forceCpu = mgr.forceCpu
      BY <1>t, Fields DEF ClientKnown
    <3>2. mgr.child \in Child
      BY <1>t, <2>1 DEF Manager
    <3>3. /\ \A d \in Child : Killed[d].proc = kid[d].proc /\ Killed[d].port = kid[d].port
                              /\ Killed[d].call = kid[d].call
          /\ Killed \in [Child -> Kid]
      BY <1>t, <1>k, <2>1, <3>2, Builders DEF Killed, Signalled, Kid
    <3>4. /\ \A d \in Child : Settle(Killed, c)[d].proc = kid[d].proc
                              /\ Settle(Killed, c)[d].port = kid[d].port
          /\ \A d \in Child \ {c} : Settle(Killed, c)[d].call = kid[d].call
      BY <3>3 DEF Settle, Kid
    <3>5. OnlySpawned(Settle(Killed, c), spawned)
      BY <1>o, <1>8, <3>4 DEF OnlySpawned, GraceOver
    <3>6. QED
      BY <1>t, <1>k, <2>1, <3>1, <3>5, Builders, UnhealthyRInv
  <2>2. CASE mgr.child = NoChild /\ kid' = Settle(kid, c) /\ UNCHANGED <<mgr, spawned>>
    <3>1. /\ kid[c].call = "stopping" /\ kid'[c].call = "settled"
          /\ \A d \in Child : kid'[d].proc = kid[d].proc /\ kid'[d].port = kid[d].port
          /\ \A d \in Child \ {c} : kid'[d].call = kid[d].call
      BY <1>t, <1>k, <1>8, <2>2 DEF GraceOver, Settle, Kid
    <3>2. c <= spawned /\ OnlySpawned(kid', spawned')
      BY <1>o, <2>2, <3>1 DEF OnlySpawned
    <3>3. spawned > 0 /\ stopper' = stopper
      BY <1>t, <1>8, <3>2 DEF Child, GraceOver
    <3>4. NoStops => mgr.fallback
      BY <2>2, <3>3 DEF RInv
    <3>5. QED
      BY <1>o, <2>2, <3>2, <3>3, <3>4 DEF RInv, NoStops, ClientKnown, OnlySpawned
  <2>3. QED
    BY <1>8, <2>1, <2>2 DEF GraceOver
<1>9. ASSUME NEW s \in Stoppers, StopCall(s) \/ StopGraceOver(s)
      PROVE  RInv'
  <2>1. ~NoStops' /\ spawned' = spawned
    BY <1>t, <1>9 DEF StopCall, StopGraceOver, NoStops
  <2>2. mgr' \in {mgr, Stopping(mgr), Stopped(mgr), Stopped(Stopping(mgr))}
    BY <1>9 DEF StopCall, StopGraceOver
  <2>3. ClientKnown(mgr')
    BY <1>t, <1>o, <2>2, Builders, Fields DEF ClientKnown
  <2>4. kid' = kid \/ (mgr.child \in Child /\ kid' \in {Signalled, Killed})
    BY <1>t, <1>9 DEF StopCall, StopGraceOver, NothingToSignal, Manager
  <2>5. \A d \in Child : kid'[d].proc = kid[d].proc /\ kid'[d].port = kid[d].port
                         /\ kid'[d].call = kid[d].call
    BY <1>t, <1>k, <2>4 DEF Signalled, Killed, Kid
  <2>6. OnlySpawned(kid', spawned')
    BY <1>o, <2>1, <2>5 DEF OnlySpawned
  <2>7. QED
    BY <2>1, <2>3, <2>6 DEF RInv, OnlySpawned, ClientKnown
<1>10. CASE UNCHANGED vars
  BY <1>10 DEF vars, RInv, NoStops, OnlySpawned, ClientKnown, Busy, InCall
<1>11. QED
  BY <1>1, <1>2, <1>3, <1>4, <1>5, <1>6, <1>7, <1>8, <1>9, <1>10 DEF Next

(* However start() calls, exits and health timeouts interleave, a manager  *)
(* that has come to rest reports a sidecar or has chosen WASM for good.    *)
THEOREM NeverStranded == Spec => []NothingStranded
<1>1. IInv /\ RInv => NothingStranded
  <2> SUFFICES ASSUME IInv, RInv, spawned > 0, AtRest
               PROVE  mgr.running \/ mgr.fallback
    BY DEF NothingStranded
  <2>1. spawned \in Nat
    BY DEF IInv, TypeOK
  <2>2. NoStops
    BY DEF AtRest, NoStops
  <2>3. ~Busy
    <3> SUFFICES ASSUME NEW c \in Child, InCall(kid, c) \/ kid[c].proc = "exited"
                 PROVE  FALSE
      BY DEF Busy
    <3>1. c \in 1 .. spawned
      BY <2>1 DEF RInv, OnlySpawned, InCall, Child
    <3>2. kid[c].call = "settled" /\ kid[c].proc # "exited"
      BY <3>1 DEF AtRest
    <3>3. QED
      BY <3>2 DEF InCall
  <2>4. QED
    BY <2>2, <2>3 DEF RInv
<1>2. QED
  BY <1>1, InitIInv, NextIInv, InitRInv, NextRInv, PTL DEF Spec

(* A running sidecar always has a client, through every overlap.           *)
THEOREM RunningHasClient == Spec => []ClientBehindRunning
<1>1. RInv => ClientBehindRunning
  BY DEF RInv, ClientKnown, ClientBehindRunning
<1>2. QED
  BY <1>1, InitIInv, NextIInv, InitRInv, NextRInv, PTL DEF Spec

-----------------------------------------------------------------------------
(* Neither half of stop() makes an orphan: whatever childProcess was, the  *)
(* child it named is signalled or gone when it is forgotten.               *)
Signal(k, c) == k[c].killed \/ k[c].proc \notin {"booting", "serving"}

LEMMA UnhealthyNoOrphan ==
  ASSUME IInv, RInv, NEW m \in Manager, NEW k \in [Child -> Kid], NEW r \in BOOLEAN,
         m.forceCpu = mgr.forceCpu, AfterUnhealthy(m, k, r),
         \A d \in Child : k[d].proc = kid[d].proc /\ (kid[d].killed => k[d].killed),
         mgr.child # NoChild => Signal(k, mgr.child),
         NEW c \in Child, ~Orphan(c)
  PROVE  ~Orphan(c)'
<1>1. spawned \in Nat /\ (~m.forceCpu => spawned + 1 \in Child) /\ mgr \in Manager
  BY BudgetBounds DEF IInv, TypeOK
<1>2. CASE c = spawned + 1 /\ mgr'.child = spawned + 1
  BY <1>2 DEF Orphan
<1>3. CASE kid'[c] = k[c]
  BY <1>1, <1>3 DEF Orphan, Live, Signal, Child
<1>4. QED
  BY <1>1, <1>2, <1>3, UnhealthyEffect

THEOREM OrphansFromOverwritesOnly == Spec => OrphansOnlyByOverwrite
<1> DEFINE Step == \A c \in Child : ~Orphan(c) /\ Orphan(c)' =>
                     \/ ensures' > ensures
                     \/ \E d \in Child \ {c} : kid[d].proc = "exited" /\ kid'[d].proc = "reaped"
<1>1. IInv /\ RInv /\ [Next]_vars => [Step]_vars
  <2> SUFFICES ASSUME IInv, RInv, Next, NEW c \in Child, ~Orphan(c), Orphan(c)'
               PROVE  \/ ensures' > ensures
                      \/ \E d \in Child \ {c} : kid[d].proc = "exited" /\ kid'[d].proc = "reaped"
    OBVIOUS
  <2>t. /\ mgr \in Manager /\ kid \in [Child -> Kid] /\ spawned \in Nat
        /\ ensures \in 0 .. MaxEnsures
        /\ TypeOK
    BY DEF IInv, TypeOK
  <2>k. \A d \in Child : kid[d] \in Kid /\ kid[d].retry \in BOOLEAN
    BY <2>t DEF Kid
  <2>c. mgr.child # NoChild => mgr.child \in Child
    BY <2>t DEF Manager
  <2>s. ASSUME mgr.child # NoChild
        PROVE  /\ Killed \in [Child -> Kid] /\ Signalled \in [Child -> Kid]
               /\ Signal(Killed, mgr.child) /\ Signal(Signalled, mgr.child)
               /\ \A d \in Child : /\ Killed[d].proc = kid[d].proc
                                   /\ Signalled[d].proc = kid[d].proc
                                   /\ kid[d].killed => Killed[d].killed
               /\ ~kid[mgr.child].killed =>
                    \A d \in Child : kid[d].killed => Signalled[d].killed
    <3>1. Killed \in [Child -> Kid] /\ Signalled \in [Child -> Kid]
      BY <2>t, <2>s, Builders
    <3>2. /\ Signal(Signalled, mgr.child)
          /\ \A d \in Child : Signalled[d].proc = kid[d].proc
          /\ ~kid[mgr.child].killed =>
               \A d \in Child : kid[d].killed => Signalled[d].killed
      BY <2>t, <2>k, <2>c, <2>s DEF Signalled, Signal, Kid
    <3>3. QED
      BY <3>1, <3>2 DEF Killed, Signal
  <2>1. CASE StartCall
    BY <2>t, <2>1 DEF StartCall
  <2>2. ASSUME NEW d \in Child,
               Boot(d) \/ ReportGpuError(d) \/ Exit(d) \/ Answer(d) \/ HealthOk(d)
        PROVE  FALSE
    <3>1. mgr'.child = mgr.child
      BY <2>t, <2>2 DEF Boot, ReportGpuError, Exit, Answer, HealthOk, Manager
    <3>2. kid'[c].killed = kid[c].killed
      BY <2>t, <2>k, <2>2 DEF Boot, ReportGpuError, Exit, Answer, HealthOk, Settle, Kid
    <3>3. kid'[c].proc \in {"booting", "serving"} => kid[c].proc \in {"booting", "serving"}
      BY <2>t, <2>k, <2>2 DEF Boot, ReportGpuError, Exit, Answer, HealthOk, Settle, Live, Kid
    <3>4. QED
      BY <3>1, <3>2, <3>3 DEF Orphan, Live
  <2>3. ASSUME NEW d \in Child, OnExit(d)
        PROVE  \E e \in Child \ {c} : kid[e].proc = "exited" /\ kid'[e].proc = "reaped"
    <3>1. kid[d].proc = "exited" /\ Reaped(d)[d].proc = "reaped"
      BY <2>t, <2>k, <2>3 DEF OnExit, Reaped, Kid
    <3>2. d # spawned + 1
      BY <2>t, <3>1 DEF RInv, OnlySpawned, Child
    <3>3. kid'[d] = Reaped(d)[d]
      <4>1. CASE kid' = Reaped(d)
        BY <4>1
      <4>2. CASE /\ GpuFailure(d)
                 /\ Launch([Counted(Down(mgr)) EXCEPT !.forceCpu = TRUE], Reaped(d), FALSE)
        <5>1. spawned + 1 \in Child
          BY <4>2, BudgetBounds DEF GpuFailure
        <5> DEFINE m == [Counted(Down(mgr)) EXCEPT !.forceCpu = TRUE]
        <5>2. m \in Manager /\ Reaped(d) \in [Child -> Kid] /\ Launch(m, Reaped(d), FALSE)
          BY <2>t, <4>2, Builders
        <5> HIDE DEF m
        <5>3. QED
          BY <2>t, <3>2, <5>1, <5>2, LaunchEffect
      <4>3. CASE /\ mgr.restartCount < MaxRestarts
                 /\ Launch(Counted(Down(mgr)), Reaped(d), kid[d].retry)
        <5>1. spawned + 1 \in Child
          BY <4>3, BudgetBounds
        <5>2. QED
          BY <2>t, <2>k, <3>2, <4>3, <5>1, Builders, LaunchEffect
      <4>4. QED
        BY <2>3, <4>1, <4>2, <4>3 DEF OnExit
    <3>4. d # c
      BY <3>1, <3>3 DEF Orphan, Live
    <3>5. QED
      BY <3>1, <3>3, <3>4
  <2>4. ASSUME NEW d \in Child, HealthTimeout(d)
        PROVE  FALSE
    <3>1. CASE /\ NothingToSignal
               /\ AfterUnhealthy(Stopped(Stopping(mgr)), Settle(kid, d), kid[d].retry)
      <4>1. \A e \in Child : /\ Settle(kid, d)[e].proc = kid[e].proc
                             /\ Settle(kid, d)[e].killed = kid[e].killed
        BY <2>t, <2>k DEF Settle, Kid
      <4>2. mgr.child # NoChild => Signal(Settle(kid, d), mgr.child)
        BY <2>c, <3>1, <4>1 DEF NothingToSignal, Signal
      <4>3. Stopped(Stopping(mgr)).forceCpu = mgr.forceCpu
        BY <2>t, Builders, Fields
      <4>4. QED
        BY <2>t, <2>k, <3>1, <4>1, <4>2, <4>3, Builders, UnhealthyNoOrphan, SMTT(20)
    <3>2. CASE /\ ~NothingToSignal
               /\ mgr' = Stopping(mgr)
               /\ kid' = [Signalled EXCEPT ![d].call = "stopping"]
      <4>1. mgr.child # NoChild /\ ~kid[mgr.child].killed
        BY <3>2 DEF NothingToSignal
      <4>2. mgr'.child = mgr.child
        BY <2>t, <3>2, Fields
      <4>3. kid'[c].proc = kid[c].proc /\ (kid[c].killed => kid'[c].killed)
        BY <2>s, <3>2, <4>1 DEF Kid
      <4>4. QED
        BY <4>2, <4>3 DEF Orphan, Live
    <3>3. QED
      BY <2>4, <3>1, <3>2 DEF HealthTimeout
  <2>5. ASSUME NEW d \in Child, GraceOver(d)
        PROVE  FALSE
    <3>1. CASE /\ mgr.child # NoChild
               /\ AfterUnhealthy(Stopped(mgr), Settle(Killed, d), kid[d].retry)
      <4>1. \A e \in Child : /\ Settle(Killed, d)[e].proc = kid[e].proc
                             /\ Settle(Killed, d)[e].killed = Killed[e].killed
                             /\ kid[e].killed => Settle(Killed, d)[e].killed
        BY <2>s, <3>1 DEF Settle, Kid
      <4>2. Signal(Settle(Killed, d), mgr.child)
        BY <2>c, <2>s, <3>1, <4>1 DEF Signal
      <4>3. Stopped(mgr).forceCpu = mgr.forceCpu
        BY <2>t, Fields
      <4>4. QED
        BY <2>t, <2>k, <3>1, <4>1, <4>2, <4>3, Builders, UnhealthyNoOrphan, ZenonT(40)
    <3>2. CASE kid' = Settle(kid, d) /\ mgr' = mgr
      BY <2>t, <2>k, <3>2 DEF Settle, Kid, Orphan, Live
    <3>3. QED
      BY <2>5, <3>1, <3>2 DEF GraceOver
  <2>6. ASSUME NEW s \in Stoppers, StopCall(s)
        PROVE  FALSE
    <3>1. CASE NothingToSignal /\ mgr' = Stopped(Stopping(mgr)) /\ kid' = kid
      BY <3>1 DEF NothingToSignal, Orphan, Live, Child
    <3>2. CASE ~NothingToSignal /\ mgr' = Stopping(mgr) /\ kid' = Signalled
      <4>1. mgr'.child = mgr.child /\ mgr.child # NoChild /\ ~kid[mgr.child].killed
        BY <2>t, <3>2, Fields DEF NothingToSignal
      <4>2. QED
        BY <2>s, <3>2, <4>1 DEF Orphan, Live
    <3>3. QED
      BY <2>6, <3>1, <3>2 DEF StopCall
  <2>7. ASSUME NEW s \in Stoppers, StopGraceOver(s)
        PROVE  FALSE
    <3>1. CASE mgr' = mgr /\ kid' = kid
      BY <3>1 DEF Orphan, Live
    <3>2. CASE mgr.child # NoChild /\ mgr' = Stopped(mgr) /\ kid' = Killed
      BY <2>s, <3>2 DEF Orphan, Live, Signal
    <3>3. QED
      BY <2>7, <3>1, <3>2 DEF StopGraceOver
  <2>8. QED
    BY <2>1, <2>2, <2>3, <2>4, <2>5, <2>6, <2>7 DEF Next
<1>2. QED
  BY <1>1, InitIInv, NextIInv, InitRInv, NextRInv, PTL DEF Spec, OrphansOnlyByOverwrite

-----------------------------------------------------------------------------
(* The fallback is never taken back and nothing is spawned after it,       *)
(* whatever calls and timers were still pending when it was chosen.        *)
THEOREM FallbackStays == Spec => FallbackIsFinal
<1>1. TypeOK /\ [Next]_vars => [mgr.fallback => mgr'.fallback /\ spawned' = spawned]_vars
  <2> SUFFICES ASSUME TypeOK, Next, mgr.fallback
               PROVE  mgr'.fallback /\ spawned' = spawned
    OBVIOUS
  <2>t. mgr \in Manager
    BY DEF TypeOK
  <2>1. ASSUME NEW m \in Manager, NEW k, NEW r, m.fallback, Launch(m, k, r)
        PROVE  mgr'.fallback /\ spawned' = spawned
    BY <2>1 DEF Launch
  <2>2. ASSUME NEW m \in Manager, NEW k, NEW r, m.fallback, AfterUnhealthy(m, k, r)
        PROVE  mgr'.fallback /\ spawned' = spawned
    <3> DEFINE n == [m EXCEPT !.forceCpu = TRUE]
    <3>1. n \in Manager /\ n.fallback
      BY <2>2 DEF Manager
    <3>2. CASE Launch(n, k, FALSE)
      BY <2>1, <3>1, <3>2
    <3>3. CASE mgr' = [m EXCEPT !.fallback = TRUE] /\ spawned' = spawned
      BY <3>3 DEF Manager
    <3>4. QED
      BY <2>2, <3>2, <3>3 DEF AfterUnhealthy
  <2>3. CASE StartCall
    BY <2>3 DEF StartCall
  <2>4. ASSUME NEW c \in Child,
               Boot(c) \/ ReportGpuError(c) \/ Exit(c) \/ Answer(c) \/ HealthOk(c)
        PROVE  mgr'.fallback /\ spawned' = spawned
    BY <2>t, <2>4 DEF Boot, ReportGpuError, Exit, Answer, HealthOk, Manager
  <2>5. ASSUME NEW c \in Child, OnExit(c)
        PROVE  mgr'.fallback /\ spawned' = spawned
    <3>1. /\ Down(mgr).fallback /\ Counted(Down(mgr)).fallback
          /\ [Counted(Down(mgr)) EXCEPT !.forceCpu = TRUE].fallback
          /\ [Down(mgr) EXCEPT !.fallback = TRUE].fallback
      BY <2>t, Builders, Fields DEF Manager
    <3>2. CASE Launch([Counted(Down(mgr)) EXCEPT !.forceCpu = TRUE], Reaped(c), FALSE)
      <4> DEFINE m == [Counted(Down(mgr)) EXCEPT !.forceCpu = TRUE]
      <4>1. m \in Manager /\ m.fallback /\ Launch(m, Reaped(c), FALSE)
        BY <3>1, <3>2, Builders
      <4> HIDE DEF m
      <4>2. QED
        BY <2>1, <4>1
    <3>3. CASE Launch(Counted(Down(mgr)), Reaped(c), kid[c].retry)
      BY <2>1, <3>1, <3>3, Builders
    <3>4. QED
      BY <2>5, <3>1, <3>2, <3>3 DEF OnExit
  <2>6. /\ Stopping(mgr).fallback /\ Stopped(mgr).fallback
        /\ Stopped(Stopping(mgr)).fallback
    BY <2>t, Builders, Fields
  <2>7. ASSUME NEW c \in Child, HealthTimeout(c)
        PROVE  mgr'.fallback /\ spawned' = spawned
    BY <2>2, <2>6, <2>7, Builders DEF HealthTimeout
  <2>8. ASSUME NEW c \in Child, GraceOver(c)
        PROVE  mgr'.fallback /\ spawned' = spawned
    BY <2>2, <2>6, <2>8, Builders DEF GraceOver
  <2>9. ASSUME NEW s \in Stoppers, StopCall(s) \/ StopGraceOver(s)
        PROVE  mgr'.fallback /\ spawned' = spawned
    BY <2>6, <2>9 DEF StopCall, StopGraceOver
  <2>10. QED
    BY <2>3, <2>4, <2>5, <2>7, <2>8, <2>9 DEF Next
<1>2. QED
  BY <1>1, TypeCorrect, PTL DEF Spec, FallbackIsFinal
=============================================================================
