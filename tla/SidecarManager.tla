--------------------------- MODULE SidecarManager ---------------------------
(***************************************************************************)
(* The sidecar lifecycle manager of the Electron main process              *)
(* (desktop/src/main/sidecar-manager.cjs): it spawns the native server as  *)
(* a child process, polls /health until the server answers, restarts it    *)
(* after an unexpected exit, retries without a GPU, and falls back to WASM *)
(* for good when all of that fails.                                        *)
(*                                                                         *)
(* JavaScript runs one callback at a time, so an action is everything      *)
(* between two awaits.  What interleaves is the set of suspended start()   *)
(* and stop() calls, the 'exit' events, and the child processes            *)
(* themselves.  All of them share one childProcess, one status record, one *)
(* intentionalStop flag and one stderr buffer: that sharing is what makes  *)
(* the component hard.                                                     *)
(*                                                                         *)
(* Every spawned child belongs to exactly one start() call, so the record  *)
(* of a child also holds where that call is suspended.                     *)
(***************************************************************************)
EXTENDS Naturals, FiniteSets

CONSTANTS
  Ports,        (* Ports start() may draw; different draws may collide.    *)
  Stoppers,     (* Calls of stop() made from outside (IPC, before-quit).   *)
  MaxEnsures,   (* Bounds the calls of start() made from outside.          *)
  MaxRestarts,  (* MAX_RESTART_ATTEMPTS.                                   *)
  NoPort,       (* status.port / client is null.                           *)
  NoChild       (* childProcess is null.                                   *)

(* One slot per child that can ever be spawned; SpawnBudget shows that     *)
(* this many suffice.                                                      *)
Child == 1 .. (MaxEnsures + MaxRestarts + 1)

ASSUME BoundsAssumption == MaxEnsures \in Nat /\ MaxRestarts \in Nat
ASSUME NoPortAssumption == NoPort \notin Ports
ASSUME NoChildAssumption == NoChild \notin Nat

VARIABLES
  mgr,      (* The closure variables of createSidecarManager.              *)
  kid,      (* Per child: the process, its signal flag, its start() call.  *)
  spawned,  (* How many children were spawned so far.                      *)
  ensures,  (* How many start() calls came from outside (bounded).         *)
  stopper   (* Per outside stop() call: ready, in its grace period, done.  *)

vars == <<mgr, kid, spawned, ensures, stopper>>

Manager ==
  [ running : BOOLEAN,                  \* status.running
    port : Ports \cup {NoPort},         \* status.port
    client : Ports \cup {NoPort},       \* the port client talks to
    child : Child \cup {NoChild},       \* childProcess
    intentionalStop : BOOLEAN,
    gpuErr : BOOLEAN,                   \* accelStderr names a GPU failure
    restartCount : Nat,
    fallback : BOOLEAN,                 \* status.permanentWasmFallback
    forceCpu : BOOLEAN ]

Proc == {"absent", "booting", "serving", "exited", "reaped"}
Call == {"none", "polling", "answered", "stopping", "settled"}

Kid ==
  [ proc : Proc,                        \* exited: the 'exit' event is queued
    killed : BOOLEAN,                   \* ChildProcess.killed
    call : Call,                        \* where its start() is suspended
    port : Ports \cup {NoPort},
    retry : BOOLEAN ]                   \* options.retryCpu !== false

TypeOK ==
  /\ mgr \in Manager
  /\ kid \in [Child -> Kid]
  /\ spawned \in Nat
  /\ ensures \in 0 .. MaxEnsures
  /\ stopper \in [Stoppers -> {"ready", "grace", "done"}]

InitManager ==
  [ running |-> FALSE, port |-> NoPort, client |-> NoPort, child |-> NoChild,
    intentionalStop |-> FALSE, gpuErr |-> FALSE, restartCount |-> 0,
    fallback |-> FALSE, forceCpu |-> FALSE ]

InitKid ==
  [ proc |-> "absent", killed |-> FALSE, call |-> "none",
    port |-> NoPort, retry |-> TRUE ]

Init ==
  /\ mgr = InitManager
  /\ kid = [c \in Child |-> InitKid]
  /\ spawned = 0
  /\ ensures = 0
  /\ stopper = [s \in Stoppers |-> "ready"]

-----------------------------------------------------------------------------
(* start(), from its first line to its first await.                        *)

(* The manager and the children once start() has spawned on port p.        *)
SpawnedManagerStillStopping(m, p) ==      \* mutant: the flag is not reset
  [m EXCEPT !.child = spawned + 1, !.port = p, !.gpuErr = FALSE]

SpawnedManager(m, p) ==
  [m EXCEPT !.child = spawned + 1, !.port = p,
            !.intentionalStop = FALSE, !.gpuErr = FALSE]

SpawnedKids(k, p, r) ==
  [k EXCEPT ![spawned + 1] =
     [proc |-> "booting", killed |-> FALSE, call |-> "polling",
      port |-> p, retry |-> r]]

(* Mutant: the refusal after the fallback is missing.                      *)
LaunchAnyway(m, k, r) ==
  \E p \in Ports :
    /\ mgr' = SpawnedManager(m, p)
    /\ kid' = SpawnedKids(k, p, r)
    /\ spawned' = spawned + 1

(* start() entered with manager m and children k: refused after the        *)
(* fallback; the binary is missing; or a child is spawned on some port.    *)
Launch(m, k, r) ==
  \/ /\ m.fallback
     /\ mgr' = m /\ kid' = k /\ UNCHANGED spawned
  \/ /\ ~m.fallback
     /\ mgr' = [m EXCEPT !.fallback = TRUE] /\ kid' = k /\ UNCHANGED spawned
  \/ /\ ~m.fallback
     /\ \E p \in Ports : /\ mgr' = SpawnedManager(m, p)
                         /\ kid' = SpawnedKids(k, p, r)
     /\ spawned' = spawned + 1

(* start() called from outside: desktop-llama:ensure or the application.   *)
(* After the fallback, or while a sidecar runs, the call changes nothing.  *)
StartCall ==
  /\ ensures < MaxEnsures
  /\ ~mgr.fallback
  /\ ~(mgr.running /\ mgr.port # NoPort)
  /\ Launch(mgr, kid, TRUE)
  /\ ensures' = ensures + 1
  /\ UNCHANGED stopper

-----------------------------------------------------------------------------
(* The child process.                                                      *)

Live(c) == kid[c].proc \in {"booting", "serving"}

(* The server bound its port; a port somebody serves cannot be bound.      *)
Boot(c) ==
  /\ kid[c].proc = "booting"
  /\ \A d \in Child : kid[d].proc = "serving" => kid[d].port # kid[c].port
  /\ kid' = [kid EXCEPT ![c].proc = "serving"]
  /\ UNCHANGED <<mgr, spawned, ensures, stopper>>

(* The 'data' handler of any child's stderr fills the one shared buffer.   *)
ReportGpuError(c) ==
  /\ Live(c)
  /\ mgr' = [mgr EXCEPT !.gpuErr = TRUE]
  /\ UNCHANGED <<kid, spawned, ensures, stopper>>

(* The process ends, for any reason; the manager has not been told yet.    *)
Exit(c) ==
  /\ Live(c)
  /\ kid' = [kid EXCEPT ![c].proc = "exited"]
  /\ UNCHANGED <<mgr, spawned, ensures, stopper>>

-----------------------------------------------------------------------------
(* The 'exit' handler of child c.                                          *)

Reaped(c) == [kid EXCEPT ![c].proc = "reaped"]
Down(m) == [m EXCEPT !.running = FALSE]
Counted(m) == [m EXCEPT !.restartCount = @ + 1]
GpuFailureEveryTime(c) == mgr.gpuErr        \* mutant: retried more than once

GpuFailure(c) == mgr.gpuErr /\ ~mgr.forceCpu /\ kid[c].retry

OnExit(c) ==
  /\ kid[c].proc = "exited"
  /\ \/ /\ mgr.intentionalStop
        /\ mgr' = Down(mgr) /\ kid' = Reaped(c) /\ UNCHANGED spawned
     \/ /\ ~mgr.intentionalStop
        /\ GpuFailure(c)
        /\ Launch([Counted(Down(mgr)) EXCEPT !.forceCpu = TRUE], Reaped(c), FALSE)
     \/ /\ ~mgr.intentionalStop
        /\ ~GpuFailure(c)
        /\ mgr.restartCount < MaxRestarts
        /\ Launch(Counted(Down(mgr)), Reaped(c), kid[c].retry)
     \/ /\ ~mgr.intentionalStop
        /\ ~GpuFailure(c)
        /\ mgr.restartCount >= MaxRestarts
        /\ mgr' = [Down(mgr) EXCEPT !.fallback = TRUE]
        /\ kid' = Reaped(c) /\ UNCHANGED spawned
  /\ UNCHANGED <<ensures, stopper>>

-----------------------------------------------------------------------------
(* stop(), in its two halves around the grace period.                      *)

(* No child, or one already signalled: stop() does not wait.               *)
NothingToSignal == mgr.child # NoChild => kid[mgr.child].killed

(* ChildProcess.kill: killed is set only if the signal could be sent.      *)
Signalled == [kid EXCEPT ![mgr.child].killed = kid[mgr.child].proc # "reaped"]

KilledNobody == kid      \* mutant: no SIGKILL at the end of the grace period

(* SIGKILL is for a child whose .killed is still unset: not the one that   *)
(* got SIGTERM, but one spawned during the grace period.                   *)
Killed == IF kid[mgr.child].killed THEN kid ELSE Signalled

Stopping(m) == [m EXCEPT !.intentionalStop = TRUE]
StoppedStillRunning(m) ==                   \* mutant: running is not cleared
  [m EXCEPT !.child = NoChild, !.client = NoPort, !.port = NoPort]

Stopped(m) == [m EXCEPT !.child = NoChild, !.client = NoPort,
                        !.running = FALSE, !.port = NoPort]

StopCall(s) ==
  /\ stopper[s] = "ready"
  /\ \/ /\ NothingToSignal
        /\ mgr' = Stopped(Stopping(mgr))
        /\ stopper' = [stopper EXCEPT ![s] = "done"]
        /\ UNCHANGED kid
     \/ /\ ~NothingToSignal
        /\ mgr' = Stopping(mgr)
        /\ stopper' = [stopper EXCEPT ![s] = "grace"]
        /\ kid' = Signalled
  /\ UNCHANGED <<spawned, ensures>>

(* After the grace period childProcess is read again: somebody else may    *)
(* have cleared it (the call then rejects with a TypeError).               *)
StopGraceOver(s) ==
  /\ stopper[s] = "grace"
  /\ stopper' = [stopper EXCEPT ![s] = "done"]
  /\ \/ /\ mgr.child = NoChild
        /\ UNCHANGED <<mgr, kid>>
     \/ /\ mgr.child # NoChild
        /\ mgr' = Stopped(mgr)
        /\ kid' = Killed
  /\ UNCHANGED <<spawned, ensures>>

-----------------------------------------------------------------------------
(* The rest of start(): the health poll and what follows it.               *)

Settle(k, c) == [k EXCEPT ![c].call = "settled"]

(* Whoever serves the port of child c answers its poll; the response is on *)
(* its way.                                                                *)
Answer(c) ==
  /\ kid[c].call = "polling"
  /\ \E d \in Child : kid[d].proc = "serving" /\ kid[d].port = kid[c].port
  /\ kid' = [kid EXCEPT ![c].call = "answered"]
  /\ UNCHANGED <<mgr, spawned, ensures, stopper>>

HealthOk(c) ==
  /\ kid[c].call = "answered"
  /\ mgr' = [mgr EXCEPT !.client = kid[c].port, !.running = TRUE]
  /\ kid' = Settle(kid, c)
  /\ UNCHANGED <<spawned, ensures, stopper>>

(* After await stop(): one retry on the CPU, or the permanent fallback.    *)
AfterUnhealthy(m, k, r) ==
  \/ /\ ~m.forceCpu /\ r
     /\ Launch([m EXCEPT !.forceCpu = TRUE], k, FALSE)
  \/ /\ m.forceCpu \/ ~r
     /\ mgr' = [m EXCEPT !.fallback = TRUE]
     /\ kid' = k /\ UNCHANGED spawned

(* The poll gave up: stop() whatever childProcess is by now.               *)
HealthTimeout(c) ==
  /\ kid[c].call = "polling"
  /\ \/ /\ NothingToSignal
        /\ AfterUnhealthy(Stopped(Stopping(mgr)), Settle(kid, c), kid[c].retry)
     \/ /\ ~NothingToSignal
        /\ mgr' = Stopping(mgr)
        /\ kid' = [Signalled EXCEPT ![c].call = "stopping"]
        /\ UNCHANGED spawned
  /\ UNCHANGED <<ensures, stopper>>

(* Mutant: nothing happens when childProcess was cleared meanwhile.        *)
GraceOverOfChild(c) ==
  /\ kid[c].call = "stopping"
  /\ mgr.child # NoChild
  /\ AfterUnhealthy(Stopped(mgr), Settle(Killed, c), kid[c].retry)
  /\ UNCHANGED <<ensures, stopper>>

GraceOver(c) ==
  /\ kid[c].call = "stopping"
  /\ \/ /\ mgr.child = NoChild
        /\ kid' = Settle(kid, c)
        /\ UNCHANGED <<mgr, spawned>>
     \/ /\ mgr.child # NoChild
        /\ AfterUnhealthy(Stopped(mgr), Settle(Killed, c), kid[c].retry)
  /\ UNCHANGED <<ensures, stopper>>

-----------------------------------------------------------------------------
Next ==
  \/ StartCall
  \/ \E c \in Child :
       \/ Boot(c) \/ ReportGpuError(c) \/ Exit(c) \/ OnExit(c)
       \/ Answer(c) \/ HealthOk(c) \/ HealthTimeout(c) \/ GraceOver(c)
  \/ \E s \in Stoppers : StopCall(s) \/ StopGraceOver(s)

(* The event loop runs every queued callback and every timer that is due;  *)
(* the poll makes a bounded number of attempts.  Nothing is assumed of the *)
(* child processes or of the callers.                                      *)
Fairness ==
  /\ \A c \in Child : /\ WF_vars(OnExit(c))
                      /\ WF_vars(HealthOk(c))
                      /\ WF_vars(HealthTimeout(c))
                      /\ WF_vars(GraceOver(c))
  /\ \A s \in Stoppers : WF_vars(StopGraceOver(s))

Spec == Init /\ [][Next]_vars
FairSpec == Spec /\ Fairness

-----------------------------------------------------------------------------
(* Properties.                                                             *)

CpuRetries == IF mgr.forceCpu THEN 1 ELSE 0

(* MAX_RESTART_ATTEMPTS and "retry on the CPU once" hold for the manager   *)
(* as a whole, however many start() calls, exits and health timeouts       *)
(* overlap: beyond the calls made from outside there are at most           *)
(* MaxRestarts restarts and one CPU retry, and never more children than    *)
(* Child has slots.                                                        *)
SpawnBudget ==
  /\ mgr.restartCount <= MaxRestarts + CpuRetries
  /\ spawned <= ensures + mgr.restartCount + CpuRetries
  /\ spawned <= ensures + MaxRestarts + 1

(* A caller that reads running = TRUE from getStatus() finds a client in   *)
(* getClient(), whatever stop() calls ran in between.                      *)
ClientBehindRunning == mgr.running => mgr.client # NoPort

(* When the manager has come to rest (every start() settled, every exit    *)
(* handled) and nobody called stop(), the application is not stranded:     *)
(* either a sidecar is reported running or WASM was chosen for good.       *)
AtRest ==
  /\ \A c \in 1 .. spawned : kid[c].call = "settled" /\ kid[c].proc # "exited"
  /\ \A s \in Stoppers : stopper[s] = "ready"
NothingStranded == spawned > 0 /\ AtRest => mgr.running \/ mgr.fallback

(* The manager loses sight of a live child it never signalled only where   *)
(* start() overwrites childProcess: an overlapping start() from outside,   *)
(* or the restart that another child's exit triggers.  Neither stop() nor  *)
(* a health timeout, in whatever order they resume, forgets a live child.  *)
Orphan(c) == c # mgr.child /\ Live(c) /\ ~kid[c].killed
OrphansOnlyByOverwrite ==
  [][\A c \in Child : ~Orphan(c) /\ Orphan(c)' =>
       \/ ensures' > ensures
       \/ \E d \in Child \ {c} : kid[d].proc = "exited" /\ kid'[d].proc = "reaped"]_vars

(* Every start() call eventually settles, so an await on it never hangs.   *)
StartsSettle ==
  \A c \in Child : kid[c].call # "none" ~> kid[c].call = "settled"

(* The permanent fallback is permanent: it is never taken back, and no     *)
(* suspended call or late exit event spawns another child after it.        *)
FallbackIsFinal == [][mgr.fallback => mgr'.fallback /\ spawned' = spawned]_vars
=============================================================================
