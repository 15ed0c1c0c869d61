-------------------------- MODULE ContainersProofs --------------------------
(***************************************************************************)
(* For every number of workers, names, builds and candidates: the registry *)
(* names exactly the containers of the workers that may have one, and no   *)
(* container that docker kill can end runs without a worker that waits. Of *)
(* the lock: the one state from which a shutdown never ends, and that the  *)
(* holder goes on in every other.                                          *)
(***************************************************************************)
EXTENDS Containers, TLAPS

----------------------------------------------------------------------------
(* The inductive invariant.                                                *)

\* The lock is with whoever is inside its critical section; the handler comes with the event.
LockInv ==
    /\ \A w \in Worker : pc[w] \in {"registering", "unregistering"} <=> lock = w
    /\ handler = "snapshot" <=> lock = Handler
    /\ event \/ handler = "off"

\* No two workers have the same name, and only workers in a build have one.
NameInv ==
    /\ \A w \in Worker : name[w] = Nobody <=> pc[w] \in {"idle", "return"}
    /\ \A v, w \in Worker : name[v] = name[w] /\ name[w] # Nobody => v = w

\* The container of a worker fits its stage.
StageInv ==
    \A w \in Worker :
        /\ pc[w] \in {"enter", "registering", "launching"} => container[name[w]] = "unused"
        /\ pc[w] \in {"waiting", "killing"} => container[name[w]] # "unused"
        /\ pc[w] \in {"leave", "unregistering"} /\ name[w] \notin Stubborn =>
              container[name[w]] = "gone"

\* After the end of the driver no worker is left.
EndInv == up \/ \A w \in Worker : pc[w] = "idle"

RegistryInv ==
    /\ LockInv
    /\ NameInv
    /\ StageInv
    /\ EndInv
    /\ RegistryTracks
    /\ NoOrphans

----------------------------------------------------------------------------
(* Type correctness.                                                       *)

\* Before the run every variable has its type.
LEMMA TypeInit == Init => TypeOK
PROOF
<1> SUFFICES ASSUME Init PROVE TypeOK
  OBVIOUS
<1>1. left \in 0..Candidates /\ 0 \in 0..Builds
  BY ContainersAssumption DEF Init
<1>2. build \in [Worker -> 0..Builds]
  BY <1>1 DEF Init
<1>3. pc \in [Worker -> WorkerPC] /\ name \in [Worker -> Name \cup {Nobody}]
  BY DEF Init, WorkerPC
<1>4. container \in [Name -> {"unused", "running", "gone"}]
  BY DEF Init
<1>5. registry \subseteq Name /\ targets \subseteq Name /\ lock = Nobody
      /\ event \in BOOLEAN /\ up \in BOOLEAN /\ handler = "off"
  BY DEF Init
<1> QED BY <1>1, <1>2, <1>3, <1>4, <1>5 DEF TypeOK

\* Every step keeps the types; the count of builds stays within the bound.
LEMMA TypeStep == TypeOK /\ NameInv /\ [Next]_vars => TypeOK'
PROOF
<1> SUFFICES ASSUME TypeOK, NameInv, [Next]_vars PROVE TypeOK'
  OBVIOUS
<1> USE ContainersAssumption DEF TypeOK, WorkerPC
<1>1. ASSUME NEW w \in Worker, WorkerStep(w) PROVE TypeOK'
  <2>1. CASE Begin(w)
    <3>1. left' \in 0..Candidates /\ 1 \in 0..Builds
      BY <2>1 DEF Begin
    <3>2. PICK n \in Name : name' = [name EXCEPT ![w] = n]
      BY <2>1 DEF Begin
    <3>3. /\ name' \in [Worker -> Name \cup {Nobody}]
          /\ build' \in [Worker -> 0..Builds]
          /\ pc' \in [Worker -> WorkerPC]
      BY <2>1, <3>1, <3>2 DEF Begin, Go
    <3>4. UNCHANGED <<container, registry, lock, event, handler, targets, up>>
      BY <2>1 DEF Begin
    <3> QED BY <3>1, <3>3, <3>4
  <2>2. CASE EnterRegister(w) \/ Register(w) \/ Launch(w) \/ Returns(w) \/ TimesOut(w)
    BY <2>2 DEF EnterRegister, Register, Launch, Returns, TimesOut, At, Go, NameInv
  <2>3. CASE KillTimedOut(w) \/ EnterUnregister(w) \/ Return(w)
    BY <2>3 DEF KillTimedOut, Kill, EnterUnregister, Return, At, Go, NameInv
  <2>4. CASE Unregister(w)
    BY <2>4 DEF Unregister, After, At, Go
  <2> QED BY <1>1, <2>1, <2>2, <2>3, <2>4 DEF WorkerStep
<1>2. ASSUME NEW n \in Name, Ends(n) PROVE TypeOK'
  BY <1>2 DEF Ends
<1>3. CASE HandlerStep
  BY <1>3 DEF HandlerStep, HandlerEnters, HandlerSnapshot, HandlerKills, HandlerReturns, Kill
<1>4. CASE Signal \/ Exit
  BY <1>4 DEF Signal, Exit
<1>5. CASE UNCHANGED vars
  BY <1>5 DEF vars
<1> QED BY <1>1, <1>2, <1>3, <1>4, <1>5 DEF Next

----------------------------------------------------------------------------
(* The registry.                                                           *)

\* Before the run nothing is registered and nothing runs.
LEMMA RegistryInit == Init => RegistryInv
PROOF
<1> SUFFICES ASSUME Init PROVE RegistryInv
  OBVIOUS
<1>1. LockInv /\ NameInv /\ StageInv /\ EndInv
  BY ContainersAssumption DEF Init, LockInv, NameInv, StageInv, EndInv
<1>2. RegistryTracks /\ NoOrphans
  BY DEF Init, RegistryTracks, NoOrphans, Tracked
<1> QED BY <1>1, <1>2 DEF RegistryInv

\* A worker moves within its build: name and container stay fitting.
LEMMA WorkerKeeps ==
    ASSUME TypeOK, RegistryInv, NEW w \in Worker,
           \/ Begin(w) \/ EnterRegister(w) \/ Register(w) \/ Launch(w) \/ Returns(w)
           \/ TimesOut(w) \/ KillTimedOut(w) \/ EnterUnregister(w) \/ Unregister(w) \/ Return(w)
    PROVE  RegistryInv'
PROOF
<1> USE ContainersAssumption DEF At, Go
<1>0. /\ pc \in [Worker -> WorkerPC] /\ name \in [Worker -> Name \cup {Nobody}]
      /\ container \in [Name -> {"unused", "running", "gone"}]
      /\ LockInv /\ NameInv /\ StageInv /\ EndInv /\ RegistryTracks /\ NoOrphans
  BY DEF TypeOK, RegistryInv
<1>1. CASE Begin(w)
  <2>1. PICK n \in Name : Fresh(n) /\ name' = [name EXCEPT ![w] = n]
    BY <1>1 DEF Begin
  <2>2. pc[w] = "idle" /\ pc' = [pc EXCEPT ![w] = "enter"] /\ up
        /\ UNCHANGED <<container, registry, lock, event, handler, up>>
    BY <1>1 DEF Begin
  <2>3. LockInv' /\ EndInv'
    BY <1>0, <2>2 DEF LockInv, EndInv
  <2>4. NameInv' /\ StageInv'
    BY <1>0, <2>1, <2>2 DEF NameInv, StageInv, Fresh
  <2>5. RegistryTracks'
    BY <1>0, <2>1, <2>2 DEF RegistryTracks, Tracked
  <2>6. NoOrphans'
    BY <1>0, <2>1, <2>2 DEF NoOrphans, Fresh
  <2> QED BY <2>3, <2>4, <2>5, <2>6 DEF RegistryInv
<1>2. CASE EnterRegister(w)
  <2>1. LockInv' /\ EndInv'
    BY <1>0, <1>2 DEF EnterRegister, LockInv, EndInv
  <2>2. NameInv' /\ StageInv'
    BY <1>0, <1>2 DEF EnterRegister, NameInv, StageInv
  <2>3. RegistryTracks' /\ NoOrphans'
    BY <1>0, <1>2 DEF EnterRegister, RegistryTracks, NoOrphans, Tracked
  <2> QED BY <2>1, <2>2, <2>3 DEF RegistryInv
<1>3. CASE Register(w)
  <2>1. LockInv' /\ EndInv'
    BY <1>0, <1>3 DEF Register, LockInv, EndInv
  <2>2. NameInv' /\ StageInv'
    BY <1>0, <1>3 DEF Register, NameInv, StageInv
  <2>3. RegistryTracks'
    BY <1>0, <1>3 DEF Register, RegistryTracks, Tracked
  <2>4. NoOrphans'
    BY <1>0, <1>3 DEF Register, NoOrphans
  <2> QED BY <2>1, <2>2, <2>3, <2>4 DEF RegistryInv
<1>4. CASE Launch(w)
  <2>0. name[w] \in Name
    BY <1>0, <1>4 DEF Launch, NameInv
  <2>1. LockInv' /\ EndInv' /\ NameInv'
    BY <1>0, <1>4 DEF Launch, LockInv, EndInv, NameInv
  <2>2. StageInv'
    BY <1>0, <1>4, <2>0 DEF Launch, NameInv, StageInv
  <2>3. RegistryTracks'
    BY <1>0, <1>4 DEF Launch, RegistryTracks, Tracked
  <2>4. NoOrphans'
    BY <1>0, <1>4, <2>0 DEF Launch, NoOrphans
  <2> QED BY <2>1, <2>2, <2>3, <2>4 DEF RegistryInv
<1>5. CASE Returns(w) \/ TimesOut(w)
  <2>1. LockInv' /\ EndInv' /\ NameInv'
    BY <1>0, <1>5 DEF Returns, TimesOut, LockInv, EndInv, NameInv
  <2>2. StageInv'
    BY <1>0, <1>5 DEF Returns, TimesOut, StageInv
  <2>3. RegistryTracks'
    BY <1>0, <1>5 DEF Returns, TimesOut, RegistryTracks, Tracked
  <2>4. NoOrphans'
    BY <1>0, <1>5 DEF Returns, TimesOut, NoOrphans
  <2> QED BY <2>1, <2>2, <2>3, <2>4 DEF RegistryInv
<1>6. CASE KillTimedOut(w)
  <2>0. name[w] \in Name
    BY <1>0, <1>6 DEF KillTimedOut, NameInv
  <2>1. LockInv' /\ EndInv' /\ NameInv'
    BY <1>0, <1>6 DEF KillTimedOut, LockInv, EndInv, NameInv
  <2>2. StageInv'
    <3>1. /\ pc[w] = "killing" /\ pc' = [pc EXCEPT ![w] = "leave"]
          /\ name' = name /\ container' = Kill(name[w])
      BY <1>6 DEF KillTimedOut
    <3>2. \A v \in Worker \ {w} : name[v] # name[w]
      BY <1>0, <2>0, <3>1, ContainersAssumption DEF NameInv
    <3>3. container[name[w]] # "unused"
      BY <1>0, <2>0, <3>1 DEF StageInv
    <3> QED BY <1>0, <2>0, <3>1, <3>2, <3>3 DEF Kill, StageInv
  <2>3. RegistryTracks'
    BY <1>0, <1>6 DEF KillTimedOut, RegistryTracks, Tracked
  <2>4. NoOrphans'
    BY <1>0, <1>6, <2>0 DEF KillTimedOut, Kill, NoOrphans
  <2> QED BY <2>1, <2>2, <2>3, <2>4 DEF RegistryInv
<1>7. CASE EnterUnregister(w)
  <2>1. LockInv' /\ EndInv'
    BY <1>0, <1>7 DEF EnterUnregister, LockInv, EndInv
  <2>2. NameInv' /\ StageInv'
    BY <1>0, <1>7 DEF EnterUnregister, NameInv, StageInv
  <2>3. RegistryTracks' /\ NoOrphans'
    BY <1>0, <1>7 DEF EnterUnregister, RegistryTracks, NoOrphans, Tracked
  <2> QED BY <2>1, <2>2, <2>3 DEF RegistryInv
<1>8. CASE Unregister(w)
  <2>1. /\ pc[w] = "unregistering" /\ name[w] \in Name /\ lock = w /\ lock' = Nobody /\ up
        /\ registry' = registry \ {name[w]}
        /\ UNCHANGED <<container, event, handler, up>>
    BY <1>0, <1>8 DEF Unregister, NameInv, LockInv
  <2>2. \/ /\ pc' = [pc EXCEPT ![w] = "enter"]
           /\ \E n \in Name : Fresh(n) /\ name' = [name EXCEPT ![w] = n]
        \/ pc' = [pc EXCEPT ![w] = "return"] /\ name' = [name EXCEPT ![w] = Nobody]
    BY <1>8 DEF Unregister, After
  <2>3. LockInv' /\ EndInv'
    BY <1>0, <2>1, <2>2 DEF LockInv, EndInv
  <2>4. NameInv' /\ StageInv'
    BY <1>0, <2>1, <2>2 DEF NameInv, StageInv, Fresh
  <2>5. RegistryTracks'
    BY <1>0, <2>1, <2>2 DEF RegistryTracks, NameInv, Tracked
  <2>6. NoOrphans'
    BY <1>0, <2>1, <2>2 DEF NoOrphans, StageInv
  <2> QED BY <2>3, <2>4, <2>5, <2>6 DEF RegistryInv
<1>9. CASE Return(w)
  <2>1. LockInv' /\ EndInv'
    BY <1>0, <1>9 DEF Return, LockInv, EndInv
  <2>2. NameInv' /\ StageInv'
    BY <1>0, <1>9 DEF Return, NameInv, StageInv
  <2>3. RegistryTracks' /\ NoOrphans'
    BY <1>0, <1>9 DEF Return, RegistryTracks, NoOrphans, Tracked
  <2> QED BY <2>1, <2>2, <2>3 DEF RegistryInv
<1> QED BY <1>1, <1>2, <1>3, <1>4, <1>5, <1>6, <1>7, <1>8, <1>9

\* The daemon and the handler end containers and start none.
LEMMA KillKeeps ==
    ASSUME TypeOK, RegistryInv, NEW n \in Name,
           container' = [container EXCEPT ![n] = "gone"] \/ container' = Kill(n),
           container[n] # "unused" \/ container' = Kill(n),
           UNCHANGED <<pc, name, registry, up>>, LockInv'
    PROVE  RegistryInv'
PROOF
<1>1. \A m \in Name : /\ container[m] = "unused" <=> container'[m] = "unused"
                      /\ container'[m] = "running" => container[m] = "running"
                      /\ container[m] = "gone" => container'[m] = "gone"
  BY DEF Kill, TypeOK
<1>2. NameInv' /\ EndInv' /\ RegistryTracks'
  BY DEF RegistryInv, NameInv, EndInv, RegistryTracks
<1>3. StageInv'
  BY <1>1, ContainersAssumption DEF RegistryInv, TypeOK, NameInv, StageInv
<1>4. NoOrphans'
  BY <1>1 DEF RegistryInv, NoOrphans
<1> QED BY <1>2, <1>3, <1>4 DEF RegistryInv

\* The steps of the handler that touch only the lock and its own list, and the driver's end.
LEMMA QuietKeeps ==
    ASSUME TypeOK, RegistryInv, UNCHANGED <<pc, name, container, registry>>, LockInv',
           up' = up \/ \A w \in Worker : pc[w] = "idle"
    PROVE  RegistryInv'
PROOF
<1>1. NameInv' /\ StageInv' /\ EndInv' /\ RegistryTracks'
  BY DEF RegistryInv, NameInv, StageInv, EndInv, RegistryTracks
<1>2. NoOrphans'
  BY DEF RegistryInv, NoOrphans
<1> QED BY <1>1, <1>2 DEF RegistryInv

\* Every step keeps the invariant.
LEMMA RegistryStep == TypeOK /\ RegistryInv /\ [Next]_vars => RegistryInv'
PROOF
<1> SUFFICES ASSUME TypeOK, RegistryInv, [Next]_vars PROVE RegistryInv'
  OBVIOUS
<1>1. ASSUME NEW w \in Worker, WorkerStep(w) PROVE RegistryInv'
  BY <1>1, WorkerKeeps DEF WorkerStep
<1>2. ASSUME NEW n \in Name, Ends(n) PROVE RegistryInv'
  <2>1. LockInv'
    BY <1>2 DEF Ends, RegistryInv, LockInv
  <2> QED BY <1>2, <2>1, KillKeeps DEF Ends
<1>3. CASE HandlerEnters \/ HandlerSnapshot \/ HandlerReturns
  <2>1. LockInv'
    BY <1>3, ContainersAssumption
       DEF HandlerEnters, HandlerSnapshot, HandlerReturns, RegistryInv, LockInv
  <2> QED BY <1>3, <2>1, QuietKeeps DEF HandlerEnters, HandlerSnapshot, HandlerReturns
<1>4. CASE HandlerKills
  <2>1. LockInv'
    BY <1>4 DEF HandlerKills, RegistryInv, LockInv
  <2>2. PICK n \in Name : container' = Kill(n)
    BY <1>4 DEF HandlerKills, TypeOK
  <2> QED BY <1>4, <2>1, <2>2, KillKeeps DEF HandlerKills
<1>5. CASE Signal \/ Exit \/ UNCHANGED vars
  <2>1. LockInv'
    BY <1>5 DEF Signal, Exit, vars, RegistryInv, LockInv
  <2> QED BY <1>5, <2>1, QuietKeeps DEF Signal, Exit, vars
<1> QED BY <1>1, <1>2, <1>3, <1>4, <1>5 DEF Next, HandlerStep

----------------------------------------------------------------------------
(* The theorems.                                                           *)

\* The types and the invariant of the registry hold together in every run.
LEMMA Invariant == Spec => [](TypeOK /\ RegistryInv)
PROOF
<1>1. RegistryInv => NameInv
  BY DEF RegistryInv
<1> QED BY <1>1, TypeInit, TypeStep, RegistryInit, RegistryStep, PTL DEF Spec

\* In every run the variables have their types.
THEOREM TypeCorrect == Spec => []TypeOK
PROOF BY Invariant, PTL

\* The registry names exactly the containers of the workers that may have one.
THEOREM RegistryExact == Spec => []RegistryTracks
PROOF
<1>1. RegistryInv => RegistryTracks
  BY DEF RegistryInv
<1> QED BY <1>1, Invariant, PTL

\* Nothing that docker kill can end runs without a worker that waits for it.
THEOREM NoContainerLeftBehind == Spec => []NoOrphans
PROOF
<1>1. RegistryInv => NoOrphans
  BY DEF RegistryInv
<1> QED BY <1>1, Invariant, PTL

----------------------------------------------------------------------------
(* Who waits for whom at the lock.                                         *)

\* The handler of a serial run waits for a lock that the thread it interrupted holds.
WaitsForItself == Serial /\ handler = "acquiring" /\ lock \in Worker

\* While a serial run's handler copies and kills, its worker is outside the lock.
SerialInv == Serial /\ handler \in {"snapshot", "killing"} => lock \notin Worker

\* Past the lock, the handler of a serial run finds no worker that takes it.
LEMMA SerialStep ==
    ASSUME TypeOK, RegistryInv, SerialInv, [Next]_vars
    PROVE  SerialInv'
PROOF
<1> SUFFICES ASSUME Serial, handler' \in {"snapshot", "killing"} PROVE lock' \notin Worker
  BY DEF SerialInv
<1>1. ASSUME NEW w \in Worker, WorkerStep(w) PROVE FALSE
  BY <1>1 DEF WorkerStep, Begin, EnterRegister, Register, Launch, Returns, TimesOut,
       KillTimedOut, EnterUnregister, Unregister, Return, At, HandlerRuns
<1>2. CASE HandlerEnters \/ HandlerSnapshot
  BY <1>2, ContainersAssumption DEF HandlerEnters, HandlerSnapshot
<1>3. CASE HandlerKills \/ HandlerReturns \/ Signal \/ Exit \/ UNCHANGED vars
           \/ \E n \in Name : Ends(n)
  BY <1>3 DEF HandlerKills, HandlerReturns, Signal, Exit, Ends, vars, SerialInv
<1> QED BY <1>1, <1>2, <1>3 DEF Next, HandlerStep

\* Nothing ends that wait: the worker is stopped, nobody else has the lock.
LEMMA WaitStays ==
    ASSUME TypeOK, RegistryInv, WaitsForItself, [Next]_vars
    PROVE  WaitsForItself' /\ up /\ event
PROOF
<1>1. lock # Nobody /\ lock # Handler /\ event /\ HandlerRuns
  BY ContainersAssumption DEF WaitsForItself, RegistryInv, LockInv, HandlerRuns
<1>2. up
  BY DEF WaitsForItself, RegistryInv, LockInv, EndInv
<1>3. ASSUME NEW w \in Worker, WorkerStep(w) PROVE FALSE
  BY <1>1, <1>3 DEF WaitsForItself, WorkerStep, Begin, EnterRegister, Register, Launch,
       Returns, TimesOut, KillTimedOut, EnterUnregister, Unregister, Return, At
<1>4. ~HandlerStep /\ ~Signal /\ ~Exit
  BY <1>1 DEF WaitsForItself, HandlerStep, HandlerEnters, HandlerSnapshot, HandlerKills,
       HandlerReturns, Signal, Exit
<1>5. WaitsForItself'
  BY <1>3, <1>4 DEF Next, Ends, vars, WaitsForItself
<1> QED BY <1>1, <1>2, <1>5

\* Once the handler waits for the lock of the thread it interrupted, the shutdown never ends
\* (cargo_reproducer.py:58), whatever containers end and however threads are scheduled.
THEOREM SelfWaitIsForever == Spec => (<>WaitsForItself => ~ShutdownEnds)
PROOF
<1>1. TypeOK /\ RegistryInv /\ WaitsForItself /\ [Next]_vars => WaitsForItself' /\ up /\ event
  BY WaitStays
<1> QED BY <1>1, Invariant, PTL DEF Spec, ShutdownEnds

\* That is the only standstill at the lock: in every other state the worker that holds it can
\* leave its critical section, so in a pool the handler and the others wait for a thread
\* that goes on (cargo_reproducer.py:43-50).
THEOREM HolderGoesOn ==
    Spec => [](lock \in Worker /\ ~WaitsForItself
                  => At(lock, "registering") \/ At(lock, "unregistering"))
PROOF
<1>1. Init => SerialInv
  BY DEF Init, SerialInv
<1>2. TypeOK /\ RegistryInv /\ SerialInv /\ [Next]_vars => SerialInv'
  BY SerialStep
<1>3. TypeOK /\ RegistryInv /\ SerialInv
         => (lock \in Worker /\ ~WaitsForItself
                => At(lock, "registering") \/ At(lock, "unregistering"))
  <2> SUFFICES ASSUME RegistryInv, SerialInv, lock \in Worker, ~WaitsForItself
               PROVE  At(lock, "registering") \/ At(lock, "unregistering")
    OBVIOUS
  <2>1. pc[lock] \in {"registering", "unregistering"} /\ up
    BY DEF RegistryInv, LockInv, EndInv
  <2>2. ~(Serial /\ HandlerRuns)
    BY DEF WaitsForItself, SerialInv, HandlerRuns
  <2> QED BY <2>1, <2>2 DEF At
<1> QED BY <1>1, <1>2, <1>3, Invariant, PTL DEF Spec
=============================================================================
