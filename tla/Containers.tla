----------------------------- MODULE Containers -----------------------------
(***************************************************************************)
(* The containers of a batch and its shutdown: the registry of running     *)
(* containers behind a lock (cargo_reproducer.py:36-69), one docker run of *)
(* a reproduction with its timeout (209-289), the builds of a candidate    *)
(* one after the other (301-336), and the signal handler of the driver     *)
(* that kills what the registry names (cargo_drive.py:808-829).            *)
(* Drive takes each of these for one step; here they interleave.           *)
(***************************************************************************)
EXTENDS Naturals, FiniteSets

CONSTANTS
    Worker,     \* threads that reproduce candidates
    Handler,    \* the signal handler as an owner of the lock
    Nobody,     \* the lock is free; a worker has no container
    Name,       \* container names, cargo-repro-<uuid>: never used twice
    Stubborn,   \* names whose docker kill fails or times out
    Builds,     \* containers per candidate: pre, post, and fix if there is one
    Candidates, \* candidates of the run
    Serial      \* is the only worker the main thread, where handlers run?

ASSUME ContainersAssumption ==
    /\ Nobody \notin Worker \cup Name /\ Handler \notin Worker /\ Handler # Nobody
    /\ Stubborn \subseteq Name
    /\ Builds \in Nat \ {0} /\ Candidates \in Nat
    /\ Serial \in BOOLEAN
    /\ Serial => \E w \in Worker : Worker = {w}

VARIABLES
    left,       \* candidates nobody has taken
    pc,         \* where each worker is
    build,      \* which of its builds
    name,       \* the container of each worker
    container,  \* what the docker daemon knows of each name
    registry,   \* _active_containers
    lock,       \* owner of _active_containers_lock
    event,      \* shutdown_event
    handler,    \* where the handler is
    targets,    \* names it has still to kill
    up

vars == <<left, pc, build, name, container, registry, lock, event, handler, targets, up>>

WorkerPC == {"idle", "enter", "registering", "launching", "waiting", "killing",
             "leave", "unregistering", "return"}
\* Between registration and removal.
Tracked == {"launching", "waiting", "killing", "leave", "unregistering"}

\* A handler that is under way has the main thread.
HandlerRuns == handler \in {"acquiring", "snapshot", "killing"}
At(w, where) == up /\ pc[w] = where /\ ~(Serial /\ HandlerRuns)
Go(w, where) == pc' = [pc EXCEPT ![w] = where]

Init ==
    /\ left = Candidates
    /\ pc = [w \in Worker |-> "idle"]
    /\ build = [w \in Worker |-> 0]
    /\ name = [w \in Worker |-> Nobody]
    /\ container = [n \in Name |-> "unused"]
    /\ registry = {}
    /\ lock = Nobody
    /\ event = FALSE
    /\ handler = "off"
    /\ targets = {}
    /\ up = TRUE

----------------------------------------------------------------------------
(* A worker.                                                               *)

\* uuid4: a name that was never used.
Fresh(n) == container[n] = "unused" /\ \A w \in Worker : name[w] # n

\* _worker looks at the event and calls process, which reaches reproduce.
Begin(w) ==
    /\ At(w, "idle") /\ ~event /\ left > 0
    /\ \E n \in Name : Fresh(n) /\ name' = [name EXCEPT ![w] = n]
    /\ left' = left - 1
    /\ build' = [build EXCEPT ![w] = 1]
    /\ Go(w, "enter")
    /\ UNCHANGED <<container, registry, lock, event, handler, targets, up>>

\* "with _active_containers_lock" of _register_container.
EnterRegister(w) ==
    /\ At(w, "enter") /\ lock = Nobody
    /\ lock' = w
    /\ Go(w, "registering")
    /\ UNCHANGED <<left, build, name, container, registry, event, handler, targets, up>>

Register(w) ==
    /\ At(w, "registering")
    /\ registry' = registry \cup {name[w]}
    /\ lock' = Nobody
    /\ Go(w, "launching")
    /\ UNCHANGED <<left, build, name, container, event, handler, targets, up>>

\* docker run has reached the daemon.
Launch(w) ==
    /\ At(w, "launching")
    /\ container' = [container EXCEPT ![name[w]] = "running"]
    /\ Go(w, "waiting")
    /\ UNCHANGED <<left, build, name, registry, lock, event, handler, targets, up>>

\* docker run returns: the container is gone.
Returns(w) ==
    /\ At(w, "waiting") /\ container[name[w]] = "gone"
    /\ Go(w, "leave")
    /\ UNCHANGED <<left, build, name, container, registry, lock, event, handler, targets, up>>

\* TimeoutExpired: the docker client is dead, the container runs on.
TimesOut(w) ==
    /\ At(w, "waiting") /\ container[name[w]] = "running"
    /\ Go(w, "killing")
    /\ UNCHANGED <<left, build, name, container, registry, lock, event, handler, targets, up>>

\* docker kill: a running container goes, unless it is a stubborn one.
Kill(n) ==
    IF container[n] = "running" /\ n \notin Stubborn
    THEN [container EXCEPT ![n] = "gone"] ELSE container

\* Mutant: TimeoutExpired is taken for the end of the container.
KillsOnlyClient(w) ==
    /\ At(w, "killing")
    /\ Go(w, "leave")
    /\ UNCHANGED <<left, build, name, container, registry, lock, event, handler, targets, up>>

\* The kill of a build that timed out; a failure of it is swallowed.
KillTimedOut(w) ==
    /\ At(w, "killing")
    /\ container' = Kill(name[w])
    /\ Go(w, "leave")
    /\ UNCHANGED <<left, build, name, registry, lock, event, handler, targets, up>>

\* "with _active_containers_lock" of _unregister_container.
EnterUnregister(w) ==
    /\ At(w, "leave") /\ lock = Nobody
    /\ lock' = w
    /\ Go(w, "unregistering")
    /\ UNCHANGED <<left, build, name, container, registry, event, handler, targets, up>>

\* Mutant: one build too many.
OneBuildMore(w) ==
    /\ \E n \in Name : Fresh(n) /\ name' = [name EXCEPT ![w] = n]
    /\ build' = [build EXCEPT ![w] = @ + 1]
    /\ Go(w, "enter")

\* After the last build reproduce returns; after another one it goes straight to the next,
\* whether or not the event is set.
After(w) ==
    IF build[w] < Builds
    THEN /\ \E n \in Name : Fresh(n) /\ name' = [name EXCEPT ![w] = n]
         /\ build' = [build EXCEPT ![w] = @ + 1]
         /\ Go(w, "enter")
    ELSE /\ name' = [name EXCEPT ![w] = Nobody]
         /\ Go(w, "return")
         /\ UNCHANGED build

\* Mutant: the name of a finished container stays registered.
KeepsName(w) ==
    /\ At(w, "unregistering")
    /\ lock' = Nobody
    /\ After(w)
    /\ UNCHANGED <<left, container, registry, event, handler, targets, up>>

\* The finally clause.
Unregister(w) ==
    /\ At(w, "unregistering")
    /\ registry' = registry \ {name[w]}
    /\ lock' = Nobody
    /\ After(w)
    /\ UNCHANGED <<left, container, event, handler, targets, up>>

\* process is over; what becomes of its record is Drive's.
Return(w) ==
    /\ At(w, "return")
    /\ Go(w, "idle")
    /\ UNCHANGED <<left, build, name, container, registry, lock, event, handler, targets, up>>

----------------------------------------------------------------------------
(* The daemon, the signal and the driver.                                  *)

\* A container ends by itself, watched or not.
Ends(n) ==
    /\ container[n] = "running"
    /\ container' = [container EXCEPT ![n] = "gone"]
    /\ UNCHANGED <<left, pc, build, name, registry, lock, event, handler, targets, up>>

\* The first signal; _handler returns at once when the event is set.
Signal ==
    /\ up /\ ~event
    /\ event' = TRUE
    /\ handler' = "acquiring"
    /\ UNCHANGED <<left, pc, build, name, container, registry, lock, targets, up>>

\* kill_active_containers takes the lock ...
HandlerEnters ==
    /\ handler = "acquiring" /\ lock = Nobody
    /\ lock' = Handler
    /\ handler' = "snapshot"
    /\ UNCHANGED <<left, pc, build, name, container, registry, event, targets, up>>

\* Mutant: the lock is not released after the names are copied.
SnapshotKeepsLock ==
    /\ handler = "snapshot"
    /\ targets' = registry
    /\ handler' = "killing"
    /\ UNCHANGED <<left, pc, build, name, container, registry, lock, event, up>>

\* ... copies the names, lets the lock go ...
HandlerSnapshot ==
    /\ handler = "snapshot"
    /\ targets' = registry
    /\ lock' = Nobody
    /\ handler' = "killing"
    /\ UNCHANGED <<left, pc, build, name, container, registry, event, up>>

\* ... and kills one after the other; a name that does not run yet is not found.
HandlerKills ==
    /\ handler = "killing"
    /\ \E n \in targets :
          /\ targets' = targets \ {n}
          /\ container' = Kill(n)
    /\ UNCHANGED <<left, pc, build, name, registry, lock, event, handler, up>>

HandlerReturns ==
    /\ handler = "killing" /\ targets = {}
    /\ handler' = "done"
    /\ UNCHANGED <<left, pc, build, name, container, registry, lock, event, targets, up>>

\* main leaves the loop or the pool, which waits for its threads.
Exit ==
    /\ up /\ ~HandlerRuns
    /\ left = 0 \/ event
    /\ \A w \in Worker : pc[w] = "idle"
    /\ up' = FALSE
    /\ UNCHANGED <<left, pc, build, name, container, registry, lock, event, handler, targets>>

WorkerStep(w) ==
    \/ Begin(w) \/ EnterRegister(w) \/ Register(w) \/ Launch(w) \/ Returns(w) \/ TimesOut(w)
    \/ KillTimedOut(w) \/ EnterUnregister(w) \/ Unregister(w) \/ Return(w)

HandlerStep == HandlerEnters \/ HandlerSnapshot \/ HandlerKills \/ HandlerReturns

Next ==
    \/ \E w \in Worker : WorkerStep(w)
    \/ \E n \in Name : Ends(n)
    \/ Signal \/ HandlerStep \/ Exit

Spec == Init /\ [][Next]_vars

\* Threads and the handler are scheduled and --timeout bounds every wait; containers need
\* not end and signals need not come.  The lock needs no stronger fairness: the candidates
\* are finitely many, so nobody loses it forever to others.
Fairness ==
    /\ \A w \in Worker : WF_vars(WorkerStep(w))
    /\ WF_vars(HandlerStep) /\ WF_vars(Exit)

FairSpec == Spec /\ Fairness

----------------------------------------------------------------------------
(* Properties.                                                             *)

\* Every variable has its type.
TypeOK ==
    /\ left \in 0..Candidates
    /\ pc \in [Worker -> WorkerPC]
    /\ build \in [Worker -> 0..Builds]
    /\ name \in [Worker -> Name \cup {Nobody}]
    /\ container \in [Name -> {"unused", "running", "gone"}]
    /\ registry \subseteq Name /\ targets \subseteq Name
    /\ lock \in Worker \cup {Handler, Nobody}
    /\ event \in BOOLEAN /\ up \in BOOLEAN
    /\ handler \in {"off", "acquiring", "snapshot", "killing", "done"}

\* The registry names exactly the containers of the workers that are between registration
\* and removal: a shutdown finds every one it could kill, and none leaks into it.
RegistryTracks == registry = {name[w] : w \in {v \in Worker : pc[v] \in Tracked}}

\* A container runs only while a worker waits for it, whatever times out or is killed, so
\* none outlives the driver (cargo_reproducer.py:33-38); docker kill must have worked.
NoOrphans ==
    \A n \in Name \ Stubborn :
        container[n] = "running" =>
            up /\ \E w \in Worker : name[w] = n /\ pc[w] \in {"waiting", "killing"}

\* A signal brings the driver to its end (running-a-batch.md:208-212, graceful shutdown):
\* nobody waits for a container that hangs or for the lock forever.
ShutdownEnds == event ~> ~up
=============================================================================
