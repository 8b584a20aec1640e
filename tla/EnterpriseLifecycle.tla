--------------------------- MODULE EnterpriseLifecycle ---------------------------
(***************************************************************************)
(* The lifecycle controller of src/enterprise/lifecycle and the module     *)
(* registry it drives: validation, initialization in dependency order,     *)
(* rollback of a failed start, and ordered shutdown.  Modules initialize   *)
(* and shut down asynchronously, each under a timer: an operation that     *)
(* fails, and one that outlives its timer, look alike to the controller,   *)
(* but the second goes on and may still succeed.                           *)
(*                                                                         *)
(* The controller is single threaded: what it does between two awaits is   *)
(* one step here.  A module is named by its place in registration order.   *)
(***************************************************************************)
EXTENDS Integers, Sequences, FiniteSets, FiniteSetsExt, SequencesExt

CONSTANT Count      \* registered modules

ASSUME CountAssumption == Count \in Nat \ {0}

Modules == 1..Count

VARIABLES
    descriptors,    \* dependencies and criticality of each module; never changes
    valid,          \* no required dependency is missing or of another version
    host,           \* the state of the host
    modules,        \* the state of each module
    pending,        \* what the loop in progress has still to do; its head is awaited
    initialized,    \* the modules that came up, in that order
    shutdown,       \* the one shutdown promise
    late,           \* initializations that outlived their timer
    open            \* external: the modules that hold resources

lifecycleVars == <<descriptors, valid, host, modules, pending, initialized, shutdown, late, open>>

HostStates == {"created", "validating", "starting", "ready", "degraded", "stopping", "failed", "stopped"}

ModuleStates == {"registered", "initializing", "ready", "degraded", "failed", "stopping", "stopped"}

Descriptors == [dependsOn : [Modules -> SUBSET Modules], required : SUBSET Modules]

LifecycleTypeOK ==
    /\ descriptors \in Descriptors
    /\ valid \in BOOLEAN
    /\ host \in HostStates
    /\ modules \in [Modules -> ModuleStates]
    /\ pending \in Seq(Modules)
    /\ initialized \in Seq(Modules)
    /\ shutdown \in {"none", "running", "refused", "done"}
    /\ late \subseteq Modules
    /\ open \subseteq Modules

LifecycleInit ==
    /\ descriptors \in Descriptors
    /\ valid \in BOOLEAN
    /\ host = "created"
    /\ modules = [m \in Modules |-> "registered"]
    /\ pending = << >>
    /\ initialized = << >>
    /\ shutdown = "none"
    /\ late = {}
    /\ open = {}

DependsOn(m) == descriptors.dependsOn[m]
Required(m) == m \in descriptors.required

Placed(s) == {s[i] : i \in DOMAIN s}

\* Variants named ...Faulty are mistakes an implementation could make; no action
\* uses one.  This one counts a module as resolved by any one of its dependencies.
UnblockedFaulty(s) ==
    {m \in Modules \ Placed(s) : DependsOn(m) = {} \/ DependsOn(m) \cap Placed(s) # {}}

Unblocked(s) == {m \in Modules \ Placed(s) : DependsOn(m) \subseteq Placed(s)}

\* resolveTopologicalOrder: of the modules whose dependencies are placed, the
\* one registered first comes next.  A cycle leaves modules that are never placed.
InitializationOrder ==
    LET place[n \in 0..Count] ==
          IF n = 0 THEN << >>
          ELSE LET s == place[n - 1]
               IN  IF Unblocked(s) = {} THEN s ELSE Append(s, Min(Unblocked(s)))
    IN  place[Count]

Cyclic == Len(InitializationOrder) < Count

-----------------------------------------------------------------------------
(* doStart.                                                                *)

Begun(s, state) == IF s = << >> THEN modules ELSE [modules EXCEPT ![Head(s)] = state]

Start ==
    /\ host = "created"
    /\ IF ~valid
         THEN host' = "failed" /\ UNCHANGED <<modules, pending>>
         ELSE IF Cyclic
           THEN host' = "validating" /\ UNCHANGED <<modules, pending>>
           ELSE /\ host' = "starting"
                /\ pending' = InitializationOrder
                /\ modules' = Begun(InitializationOrder, "initializing")
    /\ UNCHANGED <<descriptors, valid, initialized, shutdown, late, open>>

Initializing(m) == host = "starting" /\ pending # << >> /\ Head(pending) = m /\ modules[m] = "initializing"

\* Looks for modules that came up short among the modules that failed.
DegradedFaulty(ms) == \E m \in Modules : ms[m] = "failed"

SomeDegraded(ms) == \E m \in Modules : ms[m] = "degraded"

\* Module m is settled as s; the loop goes on to the next one, or ends.
Proceed(m, s) ==
    LET rest == Tail(pending)
        settled == [modules EXCEPT ![m] = s]
    IN  /\ pending' = rest
        /\ IF rest = << >>
             THEN /\ modules' = settled
                  /\ host' = IF SomeDegraded(settled) THEN "degraded" ELSE "ready"
             ELSE /\ modules' = [settled EXCEPT ![Head(rest)] = "initializing"]
                  /\ UNCHANGED host

InitializeReturns(m) ==
    /\ Initializing(m)
    /\ Proceed(m, "ready")
    /\ initialized' = Append(initialized, m)
    /\ open' = open \cup {m}
    /\ UNCHANGED <<descriptors, valid, shutdown, late>>

\* Rolls back in the order the modules came up in.
RollbackFaulty == initialized

\* shutdownModules is given the modules that came up, the last one first.
Rollback == Reverse(initialized)

\* The initialization failed, or its timer ran out and it goes on unobserved.
Outlives(m) == late' = late \/ late' = late \cup {m}

OptionalFails(m) ==
    /\ Initializing(m)
    /\ ~Required(m)
    /\ Proceed(m, "degraded")
    /\ Outlives(m)
    /\ UNCHANGED <<descriptors, valid, initialized, shutdown, open>>

RequiredFails(m) ==
    /\ Initializing(m)
    /\ Required(m)
    /\ Outlives(m)
    /\ pending' = Rollback
    /\ IF Rollback = << >>
         THEN host' = "failed" /\ modules' = [modules EXCEPT ![m] = "failed"]
         ELSE UNCHANGED host /\ modules' = [modules EXCEPT ![m] = "failed", ![Head(Rollback)] = "stopping"]
    /\ UNCHANGED <<descriptors, valid, initialized, shutdown, open>>

\* Nobody is waiting for it any more.
LateInitialization(m) ==
    /\ m \in late
    /\ late' = late \ {m}
    /\ open' = open \/ open' = open \cup {m}
    /\ UNCHANGED <<descriptors, valid, host, modules, pending, initialized, shutdown>>

-----------------------------------------------------------------------------
(* shutdownModules, for the rollback of a start and for doShutdown.        *)

Stopping(m) == pending # << >> /\ Head(pending) = m /\ modules[m] = "stopping"

\* The loop goes on to the next module, or ends the start or the shutdown.
Onward(settled) ==
    LET rest == Tail(pending)
    IN  /\ pending' = rest
        /\ IF rest = << >>
             THEN /\ modules' = settled
                  /\ host' = IF host = "starting" THEN "failed" ELSE "stopped"
                  /\ shutdown' = IF host = "starting" THEN shutdown ELSE "done"
             ELSE /\ modules' = [settled EXCEPT ![Head(rest)] = "stopping"]
                  /\ UNCHANGED <<host, shutdown>>

ShutdownReturns(m) ==
    /\ Stopping(m)
    /\ Onward([modules EXCEPT ![m] = "stopped"])
    /\ open' = open \ {m}
    /\ UNCHANGED <<descriptors, valid, initialized, late>>

\* Gives up the loop at the first module that fails to stop.
ShutdownFailsFaulty(m) ==
    /\ Stopping(m)
    /\ pending' = << >>
    /\ UNCHANGED <<descriptors, valid, host, modules, initialized, shutdown, late, open>>

\* It failed, or its timer ran out and it goes on while its dependencies stop.
ShutdownFails(m) ==
    /\ Stopping(m)
    /\ Onward(modules)
    /\ UNCHANGED <<descriptors, valid, initialized, late, open>>

LateShutdown(m) ==
    /\ m \in open
    /\ modules[m] = "stopping"
    /\ ~Stopping(m)
    /\ open' = open \ {m}
    /\ UNCHANGED <<descriptors, valid, host, modules, pending, initialized, shutdown, late>>

(* doShutdown, of which there is only one: later calls share its promise.  *)

\* Has nothing to take down when it takes down a running host.
ShutdownRunningFaulty ==
    /\ shutdown = "none"
    /\ host \in {"ready", "degraded"}
    /\ host' = "stopped" /\ shutdown' = "done"
    /\ UNCHANGED <<descriptors, valid, modules, pending, initialized, late, open>>

ShutdownRunning ==
    /\ shutdown = "none"
    /\ host \in {"ready", "degraded"}
    /\ pending' = Rollback
    /\ IF Rollback = << >>
         THEN host' = "stopped" /\ shutdown' = "done" /\ UNCHANGED modules
         ELSE host' = "stopping" /\ shutdown' = "running" /\ modules' = Begun(Rollback, "stopping")
    /\ UNCHANGED <<descriptors, valid, initialized, late, open>>

ShutdownIdle ==
    /\ shutdown = "none"
    /\ host \in {"created", "validating", "failed"}
    /\ host' = "stopped"
    /\ shutdown' = "done"
    /\ UNCHANGED <<descriptors, valid, modules, pending, initialized, late, open>>

\* The transition table has no way from starting to stopping: the promise is
\* rejected, and every later call is answered with that rejection.
ShutdownWhileStarting ==
    /\ shutdown = "none"
    /\ host = "starting"
    /\ shutdown' = "refused"
    /\ UNCHANGED <<descriptors, valid, host, modules, pending, initialized, late, open>>

-----------------------------------------------------------------------------
Settles(m) ==
    \/ InitializeReturns(m) \/ OptionalFails(m) \/ RequiredFails(m)
    \/ ShutdownReturns(m) \/ ShutdownFails(m)

LifecycleNext ==
    \/ Start
    \/ ShutdownRunning \/ ShutdownIdle \/ ShutdownWhileStarting
    \/ \E m \in Modules : Settles(m) \/ LateInitialization(m) \/ LateShutdown(m)

LifecycleSpec == LifecycleInit /\ [][LifecycleNext]_lifecycleVars

\* An awaited operation settles, by itself or by its timer.
FairLifecycleSpec == LifecycleSpec /\ \A m \in Modules : WF_lifecycleVars(Settles(m))

-----------------------------------------------------------------------------
(* Safety.                                                                 *)

Up(m) == modules[m] \in {"ready", "degraded"}

\* While a module is coming up or is up, everything it depends on has come up
\* before and has not been told to stop: through start, rollback and shutdown,
\* whatever fails or hangs in between.
DependenciesOutlive ==
    \A m \in Modules : modules[m] \in {"initializing", "ready"} =>
        \A d \in DependsOn(m) : Up(d)

\* A host that serves has every required module, and says so when an optional one
\* did not come up; a host that no longer serves has left no module serving.
HostReflectsModules ==
    /\ host \in {"ready", "degraded"} => \A m \in Modules : Required(m) => modules[m] = "ready"
    /\ host = "ready" => \A m \in Modules : modules[m] = "ready"
    /\ host = "degraded" => \E m \in Modules : modules[m] = "degraded"
    /\ host \in {"failed", "stopped"} => \A m \in Modules : modules[m] \notin {"initializing", "ready"}

\* Once the host is down, whatever still holds resources was asked for them
\* back in vain, or came up after its timer had run out: nothing else leaks.
OnlyLateRemainOpen ==
    host \in {"failed", "stopped"} =>
        \A m \in open : \/ modules[m] = "stopping"
                        \/ modules[m] \in {"degraded", "failed"} /\ m \notin Placed(initialized)

IsTopological(s) ==
    /\ Len(s) = Count /\ Placed(s) = Modules
    /\ \A i \in DOMAIN s : DependsOn(s[i]) \subseteq {s[j] : j \in 1..(i - 1)}

Before(s, t) == \E i \in DOMAIN s : s[i] < t[i] /\ \A j \in 1..(i - 1) : s[j] = t[j]

\* The order is the first, by registration, of the orders that respect every
\* dependency, and it is refused exactly when there is none.
OrderIsFirstTopological ==
    host = "created" =>
        LET orders == {s \in [1..Count -> Modules] : IsTopological(s)}
        IN  IF orders = {} THEN Cyclic
            ELSE InitializationOrder \in orders /\ \A s \in orders : ~Before(s, InitializationOrder)

-----------------------------------------------------------------------------
(* Liveness.                                                               *)

\* A start ends, and a shutdown that was accepted ends with the host stopped,
\* whichever modules fail or hang.
HostSettles ==
    /\ (host = "starting") ~> (host \in {"ready", "degraded", "failed"})
    /\ (shutdown = "running") ~> (host = "stopped")
=============================================================================
