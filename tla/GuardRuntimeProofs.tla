------------------------- MODULE GuardRuntimeProofs -------------------------
(***************************************************************************)
(* Proofs about GuardRuntime: an inductive invariant, and that the runtime *)
(* implements DurableState.  The argument is in Writers and CallPhases:    *)
(* the holder of persistMu writes a snapshot that lies between the file    *)
(* and the active engine, and from the flush to the switch a call works on *)
(* an engine that equals the file, because access keeps events out.        *)
(***************************************************************************)
EXTENDS GuardRuntime, TLAPS

\* Only the active generation writes, and never less than the file holds.
Writers ==
    /\ \A g \in Generations : worker[g] = "writing" => g = generation
    /\ PersistLocked =>
          generation > 0 /\ saved \subseteq snapshot /\ snapshot \subseteq engine[generation]

\* What holds at each step of a configuration call.
CallPhases ==
    /\ call.kind = "register" => generation = 0 /\ call.step \in {"load", "install"}
    /\ AccessLocked => generation < MaxGenerations
    /\ call.step \in {"waiting", "writing"} => generation > 0
    /\ call.step = "writing" => snapshot = engine[generation]
    /\ call.step \in {"load", "install"} => generation \notin dirty
    /\ call.step = "install" =>
          prepared = saved \/ \E c \in Changes : prepared = saved \cup {c}

\* The active engine holds at least what the file holds.
Forward ==
    /\ 0 \notin dirty
    /\ generation > 0 => saved \subseteq engine[generation]

IInv == TypeOK /\ CleanMeansStored /\ Writers /\ CallPhases /\ Forward

USE DEF Calls, NoCall, Generations, Places

-----------------------------------------------------------------------------
(***************************************************************************)
(* Every step preserves the invariant.                                     *)
(***************************************************************************)
LEMMA EventKeeps ==
    ASSUME IInv, NEW c \in Changes, Event(c)
    PROVE  IInv'
<1>1. TypeOK'
  BY DEF IInv, TypeOK, Event, Change, workerVars, callVars, diskVars, stopVars,
         countVars, AccessLocked
<1>2. CleanMeansStored'
  BY DEF IInv, CleanMeansStored, Event, Change, callVars, diskVars,
         AccessLocked
<1>3. Writers'
  BY DEF IInv, Writers, PersistLocked, Event, Change, workerVars, callVars,
         diskVars, AccessLocked
<1>4. CallPhases'
  BY DEF IInv, CallPhases, AccessLocked, TypeOK, Event, Change, callVars,
         diskVars
<1>5. Forward'
  BY DEF IInv, Forward, Event, Change, callVars, diskVars, AccessLocked
<1>6. QED  BY <1>1, <1>2, <1>3, <1>4, <1>5 DEF IInv

LEMMA WorkerWakesKeeps ==
    ASSUME IInv, NEW g \in Generations, WorkerWakes(g)
    PROVE  IInv'
<1>1. TypeOK'
  BY DEF IInv, TypeOK, WorkerWakes, Moves, engineVars, callVars, diskVars,
         stopVars, countVars
<1>2. CleanMeansStored'
  BY DEF IInv, CleanMeansStored, WorkerWakes, engineVars, callVars, diskVars
<1>3. Writers'
  BY DEF IInv, Writers, PersistLocked, WorkerWakes, Moves, engineVars,
         callVars, diskVars
<1>4. CallPhases'
  BY DEF IInv, CallPhases, AccessLocked, WorkerWakes, engineVars, callVars,
         diskVars
<1>5. Forward'
  BY DEF IInv, Forward, WorkerWakes, engineVars, callVars, diskVars
<1>6. QED  BY <1>1, <1>2, <1>3, <1>4, <1>5 DEF IInv

LEMMA WorkerRetiresKeeps ==
    ASSUME IInv, NEW g \in Generations, WorkerRetires(g)
    PROVE  IInv'
<1>1. TypeOK'
  BY DEF IInv, TypeOK, WorkerRetires, Moves, engineVars, callVars, diskVars,
         stopVars, countVars
<1>2. CleanMeansStored'
  BY DEF IInv, CleanMeansStored, WorkerRetires, engineVars, callVars, diskVars
<1>3. Writers'
  BY DEF IInv, Writers, PersistLocked, WorkerRetires, Moves, engineVars,
         callVars, diskVars
<1>4. CallPhases'
  BY DEF IInv, CallPhases, AccessLocked, WorkerRetires, engineVars, callVars,
         diskVars
<1>5. Forward'
  BY DEF IInv, Forward, WorkerRetires, engineVars, callVars, diskVars
<1>6. QED  BY <1>1, <1>2, <1>3, <1>4, <1>5 DEF IInv

LEMMA WorkerLocksKeeps ==
    ASSUME IInv, NEW g \in Generations, WorkerLocks(g)
    PROVE  IInv'
<1>1. TypeOK'
  BY BoundAssumption DEF IInv, TypeOK, WorkerLocks, AfterSave, Moves, Current,
         engineVars, callVars, stopVars, countVars, PersistLocked
<1>2. CleanMeansStored'
  BY DEF IInv, CleanMeansStored, WorkerLocks, Current, engineVars, callVars,
         PersistLocked
<1>3. Writers'
  BY BoundAssumption DEF IInv, Writers, PersistLocked, TypeOK, Forward,
         WorkerLocks, AfterSave, Moves, Current, engineVars, callVars
<1>4. CallPhases'
  BY DEF IInv, CallPhases, AccessLocked, WorkerLocks, Current, engineVars,
         callVars, PersistLocked
<1>5. Forward'
  BY DEF IInv, Forward, WorkerLocks, Current, engineVars, callVars,
         PersistLocked
<1>6. QED  BY <1>1, <1>2, <1>3, <1>4, <1>5 DEF IInv

LEMMA WorkerWritesKeeps ==
    ASSUME IInv, NEW g \in Generations, NEW outcome \in Outcomes, WorkerWrites(g, outcome)
    PROVE  IInv'
<1>1. TypeOK'
  BY DEF IInv, TypeOK, WorkerWrites, Write, Unchanged, AfterSave, Moves,
         Outcomes, callVars, stopVars, countVars
<1>a. g = generation /\ generation > 0
  BY DEF IInv, TypeOK, Writers, PersistLocked, WorkerWrites
<1>b. saved \subseteq snapshot /\ snapshot \subseteq engine[generation]
  BY DEF IInv, Writers, PersistLocked, WorkerWrites
<1>c. UNCHANGED <<engine, generation, call, prepared, snapshot>>
  BY DEF WorkerWrites, callVars
<1>d. generation \notin dirty => saved' = saved
  <2>1. generation \notin dirty => engine[generation] = saved
    BY <1>a DEF IInv, CleanMeansStored
  <2>2. saved' = saved \/ saved' = snapshot
    BY DEF WorkerWrites, Write
  <2>3. QED  BY <1>b, <2>1, <2>2
<1>2. CleanMeansStored'
  <2>1. CASE generation \notin dirty
    BY <2>1, <1>c, <1>d DEF IInv, CleanMeansStored
  <2>2. CASE generation \in dirty /\ generation \notin dirty'
    <3>1. outcome = "ok" /\ engine[g] = snapshot
      BY <2>2, <1>a DEF WorkerWrites, Write, Unchanged
    <3>2. saved' = engine[generation]
      BY <3>1, <1>a DEF WorkerWrites, Write
    <3>3. QED  BY <3>2, <1>c DEF CleanMeansStored
  <2>3. CASE generation \in dirty'
    BY <2>3, <1>c DEF CleanMeansStored
  <2>4. QED  BY <2>1, <2>2, <2>3
<1>3. Writers'
  BY DEF IInv, Writers, PersistLocked, WorkerWrites, Write, Unchanged,
         AfterSave, Moves, Outcomes, callVars
<1>4. CallPhases'
  <2>1. generation' \notin dirty' \/ generation \in dirty
    BY <1>c DEF WorkerWrites, Write
  <2>2. QED
    BY <2>1, <1>c, <1>d DEF IInv, CallPhases, AccessLocked
<1>5. Forward'
  BY DEF IInv, Forward, Writers, PersistLocked, WorkerWrites, Write, Unchanged,
         Outcomes, callVars
<1>6. QED  BY <1>1, <1>2, <1>3, <1>4, <1>5 DEF IInv

LEMMA ProbeStartsKeeps ==
    ASSUME IInv, NEW g \in Generations, ProbeStarts(g)
    PROVE  IInv'
<1>1. TypeOK'
  BY DEF IInv, TypeOK, ProbeStarts, Moves, Current, engineVars, callVars,
         diskVars, stopVars
<1>2. CleanMeansStored'
  BY DEF IInv, CleanMeansStored, ProbeStarts, Current, engineVars, callVars,
         diskVars
<1>3. Writers'
  BY DEF IInv, Writers, PersistLocked, ProbeStarts, Moves, Current, engineVars,
         callVars, diskVars
<1>4. CallPhases'
  BY DEF IInv, CallPhases, AccessLocked, ProbeStarts, Current, engineVars,
         callVars, diskVars
<1>5. Forward'
  BY DEF IInv, Forward, ProbeStarts, Current, engineVars, callVars, diskVars
<1>6. QED  BY <1>1, <1>2, <1>3, <1>4, <1>5 DEF IInv

LEMMA ProbeAnsweredKeeps ==
    ASSUME IInv, NEW g \in Generations, ProbeAnswered(g)
    PROVE  IInv'
<1>1. TypeOK'
  BY DEF IInv, TypeOK, ProbeAnswered, Moves, engineVars, callVars, diskVars,
         stopVars, countVars
<1>2. CleanMeansStored'
  BY DEF IInv, CleanMeansStored, ProbeAnswered, engineVars, callVars, diskVars
<1>3. Writers'
  BY DEF IInv, Writers, PersistLocked, ProbeAnswered, Moves, engineVars,
         callVars, diskVars
<1>4. CallPhases'
  BY DEF IInv, CallPhases, AccessLocked, ProbeAnswered, engineVars, callVars,
         diskVars
<1>5. Forward'
  BY DEF IInv, Forward, ProbeAnswered, engineVars, callVars, diskVars
<1>6. QED  BY <1>1, <1>2, <1>3, <1>4, <1>5 DEF IInv

LEMMA ProbeAppliesKeeps ==
    ASSUME IInv, NEW g \in Generations, ProbeApplies(g)
    PROVE  IInv'
<1>1. TypeOK'
  <2>1. g \in 1 .. generation
    BY DEF IInv, TypeOK, ProbeApplies
  <2>2. /\ engine' \in [Generations -> SUBSET Changes]
        /\ dirty' \in SUBSET Generations
        /\ used' \in SUBSET Changes
    <3>1. CASE \E c \in Changes : Change(c)
      BY <3>1 DEF IInv, TypeOK, Change
    <3>2. CASE UNCHANGED engineVars
      BY <3>2 DEF IInv, TypeOK, engineVars
    <3>3. QED  BY <3>1, <3>2 DEF ProbeApplies
  <2>3. /\ worker' = [worker EXCEPT ![g] = "idle"]
        /\ UNCHANGED <<final, cancelled, callVars, diskVars, stopVars, countVars>>
    BY DEF ProbeApplies, Moves
  <2>4. QED
    BY <2>1, <2>2, <2>3
    DEF IInv, TypeOK, callVars, diskVars, stopVars, countVars
<1>2. CleanMeansStored'
  BY DEF IInv, CleanMeansStored, ProbeApplies, Change, engineVars, callVars,
         diskVars, AccessLocked
<1>3. Writers'
  BY BoundAssumption DEF IInv, Writers, PersistLocked, TypeOK, ProbeApplies,
         Change, Moves, engineVars, callVars, diskVars, AccessLocked
<1>4. CallPhases'
  BY DEF IInv, CallPhases, AccessLocked, TypeOK, ProbeApplies, Change,
         engineVars, callVars, diskVars
<1>5. Forward'
  BY BoundAssumption DEF IInv, Forward, TypeOK, ProbeApplies, Change,
         engineVars, callVars, diskVars, AccessLocked
<1>6. QED  BY <1>1, <1>2, <1>3, <1>4, <1>5 DEF IInv

LEMMA CallBeginsKeeps ==
    ASSUME IInv, NEW kind \in {"register", "reconfigure", "dynamic"}, CallBegins(kind)
    PROVE  IInv'
<1>1. TypeOK'
  BY DEF IInv, TypeOK, CallBegins, engineVars, workerVars, diskVars, stopVars,
         countVars
<1>2. CleanMeansStored'
  BY DEF IInv, CleanMeansStored, CallBegins, engineVars, diskVars
<1>3. Writers'
  BY DEF IInv, Writers, PersistLocked, CallBegins, engineVars, workerVars,
         diskVars
<1>4. CallPhases'
  BY DEF IInv, CallPhases, AccessLocked, Forward, CallBegins, engineVars,
         diskVars
<1>5. Forward'
  BY DEF IInv, Forward, CallBegins, engineVars, diskVars
<1>6. QED  BY <1>1, <1>2, <1>3, <1>4, <1>5 DEF IInv

LEMMA CallFlushesKeeps ==
    ASSUME IInv, CallFlushes
    PROVE  IInv'
<1>1. TypeOK'
  BY DEF IInv, TypeOK, CallFlushes, CallGoesTo, engineVars, workerVars,
         diskVars, stopVars, countVars
<1>2. CleanMeansStored'
  BY DEF IInv, CleanMeansStored, CallFlushes, engineVars, diskVars
<1>3. Writers'
  BY DEF IInv, Writers, PersistLocked, CallFlushes, CallGoesTo, engineVars,
         workerVars, diskVars
<1>4. CallPhases'
  BY BoundAssumption DEF IInv, CallPhases, AccessLocked, TypeOK, Forward,
         CallFlushes, CallGoesTo, engineVars, diskVars
<1>5. Forward'
  BY DEF IInv, Forward, CallFlushes, engineVars, diskVars
<1>6. QED  BY <1>1, <1>2, <1>3, <1>4, <1>5 DEF IInv

LEMMA CallLocksKeeps ==
    ASSUME IInv, CallLocks
    PROVE  IInv'
<1>1. TypeOK'
  BY DEF IInv, TypeOK, CallLocks, CallGoesTo, engineVars, workerVars, stopVars,
         countVars, PersistLocked
<1>2. CleanMeansStored'
  BY DEF IInv, CleanMeansStored, CallLocks, engineVars, PersistLocked
<1>3. Writers'
  BY BoundAssumption DEF IInv, Writers, PersistLocked, TypeOK, CallPhases,
         AccessLocked, Forward, CallLocks, CallGoesTo, engineVars, workerVars
<1>4. CallPhases'
  BY DEF IInv, CallPhases, AccessLocked, CallLocks, CallGoesTo, engineVars,
         PersistLocked
<1>5. Forward'
  BY DEF IInv, Forward, CallLocks, engineVars, PersistLocked
<1>6. QED  BY <1>1, <1>2, <1>3, <1>4, <1>5 DEF IInv

LEMMA CallWritesKeeps ==
    ASSUME IInv, NEW outcome \in Outcomes, CallWrites(outcome)
    PROVE  IInv'
<1>1. TypeOK'
  BY DEF IInv, TypeOK, CallWrites, Write, Unchanged, CallGoesTo, Outcomes,
         workerVars, stopVars, countVars
<1>2. CleanMeansStored'
  BY DEF IInv, CleanMeansStored, CallPhases, AccessLocked, CallWrites, Write,
         Unchanged, Outcomes
<1>3. Writers'
  BY DEF IInv, Writers, PersistLocked, CallWrites, Write, Unchanged,
         CallGoesTo, Outcomes, workerVars
<1>4. CallPhases'
  BY DEF IInv, CallPhases, AccessLocked, TypeOK, CallWrites, Write, Unchanged,
         CallGoesTo, Outcomes
<1>5. Forward'
  BY DEF IInv, Forward, Writers, PersistLocked, CallWrites, Write, Unchanged,
         Outcomes
<1>6. QED  BY <1>1, <1>2, <1>3, <1>4, <1>5 DEF IInv

LEMMA CallLoadsKeeps ==
    ASSUME IInv, CallLoads
    PROVE  IInv'
<1>1. TypeOK'
  BY DEF IInv, TypeOK, CallLoads, CallGoesTo, workerVars, diskVars, stopVars,
         countVars
<1>2. CleanMeansStored'
  BY DEF IInv, CleanMeansStored, CallLoads, diskVars
<1>3. Writers'
  BY DEF IInv, Writers, PersistLocked, CallLoads, CallGoesTo, workerVars,
         diskVars
<1>4. CallPhases'
  BY DEF IInv, CallPhases, AccessLocked, CallLoads, CallGoesTo, diskVars
<1>5. Forward'
  BY DEF IInv, Forward, CallLoads, diskVars
<1>6. QED  BY <1>1, <1>2, <1>3, <1>4, <1>5 DEF IInv

LEMMA CallFailsKeeps ==
    ASSUME IInv, CallFails
    PROVE  IInv'
<1>1. TypeOK'
  BY DEF IInv, TypeOK, CallFails, engineVars, workerVars, diskVars, stopVars,
         countVars
<1>2. CleanMeansStored'
  BY DEF IInv, CleanMeansStored, CallFails, engineVars, diskVars
<1>3. Writers'
  BY DEF IInv, Writers, PersistLocked, CallFails, engineVars, workerVars,
         diskVars
<1>4. CallPhases'
  BY DEF IInv, CallPhases, AccessLocked, CallFails, engineVars, diskVars
<1>5. Forward'
  BY DEF IInv, Forward, CallFails, engineVars, diskVars
<1>6. QED  BY <1>1, <1>2, <1>3, <1>4, <1>5 DEF IInv

LEMMA CallInstallsKeeps ==
    ASSUME IInv, CallInstalls
    PROVE  IInv'
<1>1. TypeOK'
  BY BoundAssumption DEF IInv, TypeOK, CallPhases, AccessLocked, CallInstalls,
         MayInstall, StartsWorker, Moves, Retired, diskVars, stopVars,
         countVars, PersistLocked
<1>2. CleanMeansStored'
  BY BoundAssumption DEF IInv, CleanMeansStored, TypeOK, CallPhases,
         AccessLocked, CallInstalls, MayInstall, diskVars, PersistLocked
<1>3. Writers'
  BY DEF IInv, Writers, PersistLocked, CallInstalls, MayInstall, StartsWorker,
         Moves, Retired, diskVars
<1>4. CallPhases'
  BY DEF IInv, CallPhases, AccessLocked, CallInstalls, MayInstall, diskVars,
         PersistLocked
<1>5. Forward'
  BY BoundAssumption DEF IInv, Forward, TypeOK, CallPhases, AccessLocked,
         CallInstalls, MayInstall, diskVars, PersistLocked
<1>6. QED  BY <1>1, <1>2, <1>3, <1>4, <1>5 DEF IInv

LEMMA ShutdownBeginsKeeps ==
    ASSUME IInv, ShutdownBegins
    PROVE  IInv'
<1>1. TypeOK'
  BY DEF IInv, TypeOK, ShutdownBegins, engineVars, diskVars, countVars
<1>2. CleanMeansStored'
  BY DEF IInv, CleanMeansStored, ShutdownBegins, engineVars, diskVars
<1>3. Writers'
  BY DEF IInv, Writers, PersistLocked, ShutdownBegins, engineVars, diskVars
<1>4. CallPhases'
  BY DEF IInv, CallPhases, AccessLocked, ShutdownBegins, engineVars, diskVars
<1>5. Forward'
  BY DEF IInv, Forward, ShutdownBegins, engineVars, diskVars
<1>6. QED  BY <1>1, <1>2, <1>3, <1>4, <1>5 DEF IInv

LEMMA ShutdownEndsKeeps ==
    ASSUME IInv, ShutdownEnds
    PROVE  IInv'
<1>1. TypeOK'
  BY DEF IInv, TypeOK, ShutdownEnds, engineVars, workerVars, diskVars,
         countVars
<1>2. CleanMeansStored'
  BY DEF IInv, CleanMeansStored, ShutdownEnds, engineVars, diskVars
<1>3. Writers'
  BY DEF IInv, Writers, PersistLocked, ShutdownEnds, engineVars, workerVars,
         diskVars
<1>4. CallPhases'
  BY DEF IInv, CallPhases, AccessLocked, ShutdownEnds, engineVars, diskVars
<1>5. Forward'
  BY DEF IInv, Forward, ShutdownEnds, engineVars, diskVars
<1>6. QED  BY <1>1, <1>2, <1>3, <1>4, <1>5 DEF IInv

LEMMA CrashKeeps ==
    ASSUME IInv, Crash
    PROVE  IInv'
<1>1. TypeOK'
  <2>1. \A h \in Generations : worker'[h] = "none"
    BY DEF Crash
  <2>2. generation' = 0 /\ \A h \in Generations : h \notin 1 .. generation'
    BY BoundAssumption DEF Crash
  <2>3. /\ engine' \in [Generations -> SUBSET Changes]
        /\ worker' \in [Generations -> Places]
        /\ call' \in Calls
    BY DEF Crash
  <2>4. crashes' \in Nat
    BY DEF IInv, TypeOK, Crash
  <2>5. generation' \in Generations
    BY <2>2, BoundAssumption
  <2>6. QED
    BY <2>1, <2>2, <2>3, <2>4, <2>5 DEF IInv, TypeOK, Crash
<1>2. CleanMeansStored'
  BY DEF IInv, CleanMeansStored, Crash
<1>3. Writers'
  BY DEF IInv, Writers, PersistLocked, Crash
<1>4. CallPhases'
  BY DEF IInv, CallPhases, AccessLocked, Crash
<1>5. Forward'
  BY DEF IInv, Forward, Crash
<1>6. QED  BY <1>1, <1>2, <1>3, <1>4, <1>5 DEF IInv

LEMMA InitInvariant == Init => IInv
<1> SUFFICES ASSUME Init PROVE IInv
  OBVIOUS
<1>1. TypeOK
  <2>1. \A h \in Generations : h \notin 1 .. generation
    BY BoundAssumption DEF Init
  <2>2. generation \in Generations /\ call \in Calls
    BY BoundAssumption DEF Init
  <2>3. worker \in [Generations -> Places] /\ \A h \in Generations : worker[h] = "none"
    BY DEF Init
  <2>4. QED  BY <2>1, <2>2, <2>3 DEF Init, TypeOK
<1>2. CleanMeansStored /\ Writers /\ CallPhases /\ Forward
  BY BoundAssumption
  DEF Init, CleanMeansStored, Writers, PersistLocked, CallPhases, AccessLocked, Forward
<1>3. QED  BY <1>1, <1>2 DEF IInv

LEMMA NextInvariant == ASSUME IInv, [Next]_vars PROVE IInv'
<1>1. CASE \E c \in Changes : Event(c)
  BY <1>1, EventKeeps
<1>2. CASE \E g \in Generations : WorkerStep(g) \/ ProbeStarts(g)
  BY <1>2, WorkerWakesKeeps, WorkerRetiresKeeps, WorkerLocksKeeps,
     WorkerWritesKeeps, ProbeStartsKeeps, ProbeAnsweredKeeps, ProbeAppliesKeeps
  DEF WorkerStep
<1>3. CASE \E kind \in {"register", "reconfigure", "dynamic"} : CallBegins(kind)
  BY <1>3, CallBeginsKeeps
<1>4. CASE CallStep
  BY <1>4, CallFlushesKeeps, CallLocksKeeps, CallWritesKeeps, CallLoadsKeeps,
     CallFailsKeeps, CallInstallsKeeps, ShutdownEndsKeeps
  DEF CallStep
<1>5. CASE ShutdownBegins \/ Crash
  BY <1>5, ShutdownBeginsKeeps, CrashKeeps
<1>6. CASE UNCHANGED vars
  BY <1>6
  DEF IInv, TypeOK, CleanMeansStored, Writers, PersistLocked, CallPhases,
      AccessLocked, Forward, vars, engineVars, workerVars, callVars, diskVars,
      stopVars, countVars
<1>7. QED  BY <1>1, <1>2, <1>3, <1>4, <1>5, <1>6 DEF Next

LEMMA Invariance == Spec => []IInv
<1>1. Init => IInv
  BY InitInvariant
<1>2. IInv /\ [Next]_vars => IInv'
  BY NextInvariant
<1>3. QED  BY <1>1, <1>2, PTL DEF Spec

\* Every state is well formed: each generation has its worker, and persistMu
\* has at most one holder.
THEOREM TypeCorrect == Spec => []TypeOK
<1>1. IInv => TypeOK
  BY DEF IInv
<1>2. QED  BY <1>1, Invariance, PTL

\* An engine that takes itself for saved is what the state file holds.
THEOREM CleanMeansStoredAlways == Spec => []CleanMeansStored
<1>1. IInv => CleanMeansStored
  BY DEF IInv
<1>2. QED  BY <1>1, Invariance, PTL

-----------------------------------------------------------------------------
(***************************************************************************)
(* The runtime implements DurableState.                                    *)
(***************************************************************************)
LEMMA ChangeAccepts ==
    ASSUME IInv, generation > 0, NEW c \in Changes, Change(c),
           UNCHANGED <<generation, saved>>
    PROVE  Durable!Accept(c)
BY DEF IInv, TypeOK, Change, Durable!Accept, Live

LEMMA WriteStores ==
    ASSUME IInv, PersistLocked, NEW g, NEW outcome \in Outcomes, Write(g, outcome),
           UNCHANGED <<engine, generation>>
    PROVE  Durable!Store
<1>1. generation > 0 /\ saved \subseteq snapshot /\ snapshot \subseteq engine[generation]
  BY DEF IInv, Writers
<1>2. Live = engine[generation] /\ Live' = Live
  BY <1>1 DEF Live
<1>3. saved' = saved \/ saved' = snapshot
  BY DEF Write
<1>4. QED  BY <1>1, <1>2, <1>3 DEF Durable!Store

LEMMA InstallAccepts ==
    ASSUME IInv, CallInstalls
    PROVE  (\E c \in Changes : Durable!Accept(c)) \/ UNCHANGED <<Live, saved>>
<1>1. Live = saved
  BY DEF IInv, TypeOK, CleanMeansStored, CallPhases, CallInstalls, Live
<1>2. generation' > 0 /\ engine'[generation'] = prepared /\ saved' = saved
  <2>1. AccessLocked
    BY DEF IInv, TypeOK, CallInstalls, AccessLocked
  <2>2. generation + 1 \in Generations /\ generation + 1 > 0
    BY <2>1, BoundAssumption DEF IInv, TypeOK, CallPhases
  <2>3. QED
    BY <2>2 DEF IInv, TypeOK, CallInstalls, diskVars
<1>3. Live' = prepared
  BY <1>2 DEF Live
<1>4. prepared = saved \/ \E c \in Changes : prepared = saved \cup {c}
  BY DEF IInv, CallPhases, CallInstalls
<1>5. QED  BY <1>1, <1>2, <1>3, <1>4 DEF Durable!Accept

LEMMA QuietSteps ==
    ASSUME UNCHANGED <<engine, generation, saved>>
    PROVE  UNCHANGED <<Live, saved>>
BY DEF Live

LEMMA NextImplements ==
    ASSUME IInv, [Next]_vars
    PROVE  [Durable!Next]_<<Live, saved>>
<1>1. ASSUME NEW c \in Changes, Event(c) PROVE Durable!Next
  <2>1. generation > 0 /\ Change(c) /\ UNCHANGED <<generation, saved>>
    BY <1>1 DEF Event, callVars, diskVars
  <2>2. QED  BY <2>1, ChangeAccepts DEF Durable!Next
<1>2. ASSUME NEW g \in Generations, NEW outcome \in Outcomes, WorkerWrites(g, outcome)
      PROVE  Durable!Next
  BY <1>2, WriteStores DEF WorkerWrites, PersistLocked, Durable!Next, callVars
<1>3. ASSUME NEW outcome \in Outcomes, CallWrites(outcome) PROVE Durable!Next
  BY <1>3, WriteStores DEF CallWrites, PersistLocked, Durable!Next
<1>4. ASSUME NEW g \in Generations, ProbeApplies(g)
      PROVE  Durable!Next \/ UNCHANGED <<Live, saved>>
  <2>1. generation > 0
    BY <1>4 DEF IInv, TypeOK, ProbeApplies
  <2>2. UNCHANGED <<generation, saved>>
    BY <1>4 DEF ProbeApplies, callVars, diskVars
  <2>3. CASE \E c \in Changes : Change(c)
    BY <2>1, <2>2, <2>3, ChangeAccepts DEF Durable!Next
  <2>4. CASE UNCHANGED engineVars
    BY <2>2, <2>4, QuietSteps DEF engineVars
  <2>5. QED  BY <1>4, <2>3, <2>4 DEF ProbeApplies
<1>5. CASE CallInstalls
  BY <1>5, InstallAccepts DEF Durable!Next
<1>6. CASE Crash
  BY <1>6 DEF Crash, Live, Durable!Next, Durable!Crash
<1>7. ASSUME NEW g \in Generations,
             \/ WorkerWakes(g) \/ WorkerRetires(g) \/ WorkerLocks(g)
             \/ ProbeAnswered(g) \/ ProbeStarts(g)
      PROVE  UNCHANGED <<Live, saved>>
  BY <1>7, QuietSteps
  DEF WorkerWakes, WorkerRetires, WorkerLocks, ProbeAnswered, ProbeStarts,
      engineVars, callVars, diskVars
<1>8. CASE \E kind \in {"register", "reconfigure", "dynamic"} : CallBegins(kind)
  BY <1>8, QuietSteps DEF CallBegins, engineVars, diskVars
<1>9. CASE \/ CallFlushes \/ CallLocks \/ CallLoads \/ CallFails
           \/ ShutdownBegins \/ ShutdownEnds \/ UNCHANGED vars
  BY <1>9, QuietSteps
  DEF CallFlushes, CallLocks, CallLoads, CallFails, ShutdownBegins, ShutdownEnds,
      vars, engineVars, callVars, diskVars
<1>10. QED
  BY <1>1, <1>2, <1>3, <1>4, <1>5, <1>6, <1>7, <1>8, <1>9
  DEF Next, WorkerStep, CallStep

\* No accepted change is lost while the process lives, and the state file never
\* goes back, whatever generation is active and whoever writes.
THEOREM Durability == Spec => DurableSpec
<1>1. Init => Durable!Init
  BY DEF Init, Durable!Init, Live
<1>2. IInv /\ [Next]_vars => [Durable!Next]_<<Live, saved>>
  BY NextImplements
<1>3. QED
  BY <1>1, <1>2, Invariance, PTL DEF Spec, DurableSpec, Durable!Spec

-----------------------------------------------------------------------------
(***************************************************************************)
(* Shutdown saves, for any number of changes, generations, failures and    *)
(* crashes.  The argument is in Owed: from the moment Shutdown is called,  *)
(* what it must save is in the file, or the worker of the active           *)
(* generation is there and does not leave before it has written it.        *)
(***************************************************************************)
\* A worker on its last save, or gone, was cancelled; before Shutdown only the
\* workers of retired generations are.
Leaving ==
    /\ \A g \in final : worker[g] \in {"waiting", "writing", "exited"} /\ g \in cancelled
    /\ \A g \in Generations : worker[g] = "exited" => g \in cancelled
    /\ ~shutdown => \A g \in cancelled : g < generation

\* After Shutdown nothing is installed, and the active engine holds the mark.
Stopping ==
    /\ call.kind = "shutdown" \/ stopped => shutdown
    /\ call.step = "install" => ~shutdown
    /\ shutdown => stopMark.held \subseteq engine[generation] /\ stopMark.failures <= failures
    /\ engine[0] = {}

Owed ==
    shutdown /\ failures = stopMark.failures =>
        \/ stopMark.held \subseteq saved
        \/ /\ generation \in dirty
           /\ worker[generation] \notin {"none", "exited"}
           /\ generation \in final /\ worker[generation] = "writing"
                 => stopMark.held \subseteq snapshot

SInv == Leaving /\ Stopping /\ Owed /\ ShutdownFlushes

USE BoundAssumption DEF Calls, NoCall, Generations, Places

-----------------------------------------------------------------------------
(***************************************************************************)
(* Every step preserves it.                                                *)
(***************************************************************************)
\* What a change leaves alone.
LEMMA ChangeKeeps ==
    ASSUME IInv, SInv, NEW c \in Changes, Change(c), generation > 0,
           UNCHANGED <<generation, call, final, cancelled, saved, failures, snapshot, stopVars>>,
           \A g \in Generations :
               \/ worker'[g] = worker[g]
               \/ g \notin final /\ worker'[g] = "idle" /\ worker[g] = "applying"
    PROVE  SInv'
<1>1. Leaving'
  BY DEF IInv, TypeOK, SInv, Leaving, stopVars
<1>2. Stopping'
  BY DEF IInv, TypeOK, SInv, Stopping, Change, stopVars
<1>3. Owed'
  BY DEF IInv, TypeOK, SInv, Owed, Change, stopVars
<1>4. ShutdownFlushes'
  BY DEF SInv, ShutdownFlushes, stopVars
<1>5. QED  BY <1>1, <1>2, <1>3, <1>4 DEF SInv

\* The steps of a worker that neither save nor change an engine.
LEMMA WorkerMovesOwes ==
    ASSUME IInv, SInv, NEW g \in Generations,
           WorkerWakes(g) \/ WorkerRetires(g) \/ ProbeStarts(g) \/ ProbeAnswered(g)
    PROVE  SInv'
<1>1. /\ UNCHANGED <<cancelled, call, generation, engine, dirty, saved, failures, snapshot,
                     shutdown, stopMark, stopped>>
      /\ worker \in [Generations -> Places] /\ generation \in Generations
      /\ worker[g] \in {"idle", "probing"} /\ final \subseteq Generations
  BY DEF WorkerWakes, WorkerRetires, ProbeStarts, ProbeAnswered, engineVars, callVars, diskVars,
         stopVars, IInv, TypeOK
<1>2. /\ \A h \in Generations \ {g} : worker'[h] = worker[h]
      /\ \/ worker'[g] \in {"waiting", "idle", "probing", "applying"} /\ final' = final
         \/ worker'[g] = "waiting" /\ final' = final \cup {g} /\ g \in cancelled
         \/ worker'[g] = "exited" /\ final' = final /\ g \in cancelled /\ g \notin dirty
  BY <1>1 DEF WorkerWakes, WorkerRetires, ProbeStarts, ProbeAnswered, Moves
<1>3. Leaving'
  <2>1. /\ final' \subseteq final \cup {g} /\ final' \subseteq Generations
        /\ g \in final' => g \in cancelled /\ worker'[g] \in {"waiting", "writing", "exited"}
        /\ worker'[g] = "exited" => g \in cancelled
    BY <1>1, <1>2 DEF SInv, Leaving
  <2>2. \A h \in final' : worker'[h] \in {"waiting", "writing", "exited"} /\ h \in cancelled'
    BY <1>1, <1>2, <2>1 DEF SInv, Leaving
  <2>3. \A h \in Generations : worker'[h] = "exited" => h \in cancelled'
    BY <1>1, <1>2, <2>1 DEF SInv, Leaving
  <2>4. QED  BY <1>1, <2>2, <2>3 DEF SInv, Leaving
<1>4. Stopping' /\ ShutdownFlushes'
  BY <1>1 DEF SInv, Stopping, ShutdownFlushes
<1>5. Owed'
  <2>1. CASE g = generation
    BY <1>1, <1>2, <2>1 DEF SInv, Owed
  <2>2. CASE g # generation
    BY <1>1, <1>2, <2>2 DEF SInv, Owed
  <2>3. QED  BY <2>1, <2>2
<1>6. QED  BY <1>3, <1>4, <1>5 DEF SInv

LEMMA WorkerLocksOwes ==
    ASSUME IInv, SInv, NEW g \in Generations, WorkerLocks(g)
    PROVE  SInv'
<1>1. /\ UNCHANGED <<final, cancelled, call, generation, engine, dirty, saved, failures,
                     shutdown, stopMark, stopped>>
      /\ worker \in [Generations -> Places] /\ generation \in Generations
      /\ worker[g] = "waiting" /\ final \subseteq Generations
  BY DEF WorkerLocks, engineVars, callVars, stopVars, IInv, TypeOK
<1>2. /\ \A h \in Generations \ {g} : worker'[h] = worker[h]
      /\ \/ g = generation /\ worker'[g] = "writing" /\ snapshot' = engine[generation]
         \/ /\ g # generation /\ snapshot' = snapshot
            /\ worker'[g] = IF g \in final THEN "exited" ELSE "idle"
  BY <1>1 DEF WorkerLocks, AfterSave, Moves, Current
<1>3. Leaving'
  <2>1. /\ final' \subseteq final \cup {g} /\ final' \subseteq Generations
        /\ g \in final' => g \in cancelled /\ worker'[g] \in {"waiting", "writing", "exited"}
        /\ worker'[g] = "exited" => g \in cancelled
    BY <1>1, <1>2 DEF SInv, Leaving
  <2>2. \A h \in final' : worker'[h] \in {"waiting", "writing", "exited"} /\ h \in cancelled'
    BY <1>1, <1>2, <2>1 DEF SInv, Leaving
  <2>3. \A h \in Generations : worker'[h] = "exited" => h \in cancelled'
    BY <1>1, <1>2, <2>1 DEF SInv, Leaving
  <2>4. QED  BY <1>1, <2>2, <2>3 DEF SInv, Leaving
<1>4. Stopping' /\ ShutdownFlushes'
  BY <1>1 DEF SInv, Stopping, ShutdownFlushes
<1>5. Owed'
  BY <1>1, <1>2 DEF SInv, Owed, Stopping
<1>6. QED  BY <1>3, <1>4, <1>5 DEF SInv

\* A write by the holder of persistMu: what is owed is written, or the engine
\* stays dirty and its worker has another save before it.
LEMMA WritePays ==
    ASSUME IInv, SInv, PersistLocked, NEW outcome \in Outcomes, Write(generation, outcome)
    PROVE  /\ failures <= failures' /\ saved \subseteq saved'
           /\ shutdown /\ failures' = stopMark.failures =>
                \/ stopMark.held \subseteq saved'
                \/ /\ generation \in dirty'
                   /\ worker[generation] \notin {"none", "exited"}
                   /\ ~(generation \in final /\ worker[generation] = "writing")
<1>1. saved \subseteq snapshot /\ failures \in Nat
  BY DEF IInv, TypeOK, Writers
<1>2. failures <= failures' /\ saved \subseteq saved'
  BY <1>1 DEF Write
<1>3. ASSUME shutdown, failures' = stopMark.failures
      PROVE  \/ stopMark.held \subseteq saved'
             \/ /\ generation \in dirty'
                /\ worker[generation] \notin {"none", "exited"}
                /\ ~(generation \in final /\ worker[generation] = "writing")
  <2>1. /\ stopMark.held \subseteq engine[generation] /\ stopMark.failures <= failures
        /\ stopMark.failures \in Nat
    BY <1>3 DEF SInv, Stopping, IInv, TypeOK
  <2>2. failures' = failures /\ outcome = "ok" /\ saved' = snapshot
    BY <1>1, <1>2, <1>3, <2>1 DEF Write
  <2>3. CASE stopMark.held \subseteq saved
    BY <1>2, <2>3
  <2>4. CASE /\ generation \in dirty
             /\ worker[generation] \notin {"none", "exited"}
             /\ generation \in final /\ worker[generation] = "writing"
                  => stopMark.held \subseteq snapshot
    <3>1. CASE engine[generation] = snapshot
      BY <2>1, <2>2, <3>1
    <3>2. CASE engine[generation] # snapshot
      <4>1. dirty' = dirty
        BY <3>2 DEF Write, Unchanged
      <4>2. QED  BY <2>2, <2>4, <4>1
    <3>3. QED  BY <3>1, <3>2
  <2>5. QED  BY <1>3, <2>2, <2>3, <2>4 DEF SInv, Owed
<1>4. QED  BY <1>2, <1>3

\* What was owed when Shutdown returned stays written.
LEMMA FlushedStays ==
    ASSUME SInv, IInv, failures <= failures', saved \subseteq saved', failures' \in Nat,
           UNCHANGED <<stopped, stopMark>>
    PROVE  ShutdownFlushes'
<1>1. stopped => stopMark.failures <= failures /\ stopMark.failures \in Nat /\ failures \in Nat
  BY DEF SInv, Stopping, IInv, TypeOK
<1>2. QED  BY <1>1 DEF SInv, ShutdownFlushes

LEMMA WorkerWritesOwes ==
    ASSUME IInv, SInv, NEW g \in Generations, NEW outcome \in Outcomes, WorkerWrites(g, outcome)
    PROVE  SInv'
<1>1. /\ UNCHANGED <<final, cancelled, call, generation, engine, snapshot, shutdown, stopMark,
                     stopped>>
      /\ worker \in [Generations -> Places] /\ generation \in Generations /\ failures \in Nat
      /\ worker[g] = "writing" /\ g = generation /\ PersistLocked
      /\ final \subseteq Generations
  BY DEF WorkerWrites, callVars, stopVars, IInv, TypeOK, Writers, PersistLocked
<1>2. /\ \A h \in Generations \ {g} : worker'[h] = worker[h]
      /\ worker'[g] = IF g \in final THEN "exited" ELSE "idle"
  BY <1>1 DEF WorkerWrites, AfterSave, Moves
<1>3. Write(generation, outcome)
  BY <1>1 DEF WorkerWrites
<1>4. failures <= failures' /\ saved \subseteq saved' /\ failures' \in Nat
  <2>1. failures' \in Nat
    BY <1>1, <1>3 DEF Write
  <2>2. QED  BY <1>1, <1>3, <2>1, WritePays
<1>5. Leaving'
  <2>1. /\ final' \subseteq final \cup {g} /\ final' \subseteq Generations
        /\ g \in final' => g \in cancelled /\ worker'[g] \in {"waiting", "writing", "exited"}
        /\ worker'[g] = "exited" => g \in cancelled
    BY <1>1, <1>2 DEF SInv, Leaving
  <2>2. \A h \in final' : worker'[h] \in {"waiting", "writing", "exited"} /\ h \in cancelled'
    BY <1>1, <1>2, <2>1 DEF SInv, Leaving
  <2>3. \A h \in Generations : worker'[h] = "exited" => h \in cancelled'
    BY <1>1, <1>2, <2>1 DEF SInv, Leaving
  <2>4. QED  BY <1>1, <2>2, <2>3 DEF SInv, Leaving
<1>6. Stopping'
  <2>1. shutdown => stopMark.failures \in Nat
    BY DEF IInv, TypeOK
  <2>2. QED  BY <1>1, <1>4, <2>1 DEF SInv, Stopping
<1>7. Owed'
  <2>1. shutdown /\ failures' = stopMark.failures =>
          \/ stopMark.held \subseteq saved'
          \/ generation \in dirty' /\ generation \notin final
    BY <1>1, <1>3, WritePays
  <2>2. QED  BY <1>1, <1>2, <2>1 DEF Owed
<1>8. ShutdownFlushes'
  BY <1>1, <1>4, FlushedStays
<1>9. QED  BY <1>5, <1>6, <1>7, <1>8 DEF SInv

\* The steps of a call that neither save nor change what is in force.
LEMMA CallMovesOwes ==
    ASSUME IInv, SInv,
           \/ \E kind \in {"register", "reconfigure", "dynamic"} : CallBegins(kind)
           \/ CallFlushes \/ CallLoads \/ CallFails
    PROVE  SInv'
<1>1. UNCHANGED <<worker, final, cancelled, generation, engine, dirty, saved, failures, snapshot,
                  shutdown, stopMark, stopped>>
  BY DEF CallBegins, CallFlushes, CallLoads, CallFails, engineVars, workerVars, diskVars, stopVars
<1>2. Leaving' /\ Owed' /\ ShutdownFlushes'
  BY <1>1 DEF SInv, Leaving, Owed, ShutdownFlushes
<1>3. Stopping'
  <2>1. call' \in {NoCall} \/ (call'.kind = "shutdown" => call.kind = "shutdown")
    BY DEF CallBegins, CallFlushes, CallLoads, CallFails, CallGoesTo, IInv, TypeOK
  <2>2. call'.step = "install" => ~shutdown
    BY DEF CallBegins, CallFlushes, CallLoads, CallFails, CallGoesTo, IInv, TypeOK
  <2>3. QED  BY <1>1, <2>1, <2>2 DEF SInv, Stopping
<1>4. QED  BY <1>2, <1>3 DEF SInv

LEMMA CallLocksOwes ==
    ASSUME IInv, SInv, CallLocks
    PROVE  SInv'
<1>1. /\ UNCHANGED <<worker, final, cancelled, generation, engine, dirty, saved, failures,
                     shutdown, stopMark, stopped>>
      /\ snapshot' = engine[generation]
  BY DEF CallLocks, engineVars, workerVars, stopVars
<1>2. Leaving' /\ ShutdownFlushes'
  BY <1>1 DEF SInv, Leaving, ShutdownFlushes
<1>3. Stopping'
  <2>1. call'.step = "writing" /\ call'.kind = call.kind
    BY DEF CallLocks, CallGoesTo, IInv, TypeOK
  <2>2. QED  BY <1>1, <2>1 DEF SInv, Stopping
<1>4. Owed'
  BY <1>1 DEF SInv, Owed, Stopping
<1>5. QED  BY <1>2, <1>3, <1>4 DEF SInv

LEMMA CallWritesOwes ==
    ASSUME IInv, SInv, NEW outcome \in Outcomes, CallWrites(outcome)
    PROVE  SInv'
<1>1. /\ UNCHANGED <<worker, final, cancelled, generation, engine, snapshot, shutdown, stopMark,
                     stopped>>
      /\ PersistLocked /\ Write(generation, outcome) /\ failures \in Nat
  BY DEF CallWrites, workerVars, stopVars, PersistLocked, IInv, TypeOK
<1>2. failures <= failures' /\ saved \subseteq saved' /\ failures' \in Nat
  <2>1. failures' \in Nat
    BY <1>1 DEF Write
  <2>2. QED  BY <1>1, <2>1, WritePays
<1>3. Leaving'
  BY <1>1 DEF SInv, Leaving
<1>4. Stopping'
  <2>1. /\ call'.step # "install" /\ (call'.kind = "shutdown" => call.kind = "shutdown")
        /\ stopMark.failures \in Nat
    BY DEF CallWrites, CallGoesTo, IInv, TypeOK
  <2>2. QED  BY <1>1, <1>2, <2>1 DEF SInv, Stopping
<1>5. Owed'
  <2>1. shutdown /\ failures' = stopMark.failures =>
          \/ stopMark.held \subseteq saved'
          \/ /\ generation \in dirty'
             /\ worker[generation] \notin {"none", "exited"}
             /\ ~(generation \in final /\ worker[generation] = "writing")
    BY <1>1, WritePays
  <2>2. QED  BY <1>1, <2>1 DEF Owed
<1>6. ShutdownFlushes'
  BY <1>1, <1>2, FlushedStays
<1>7. QED  BY <1>3, <1>4, <1>5, <1>6 DEF SInv

LEMMA CallInstallsOwes ==
    ASSUME IInv, SInv, CallInstalls
    PROVE  SInv'
<1>1. /\ ~shutdown /\ ~shutdown' /\ ~stopped'
  BY DEF CallInstalls, stopVars, SInv, Stopping
<1>2. /\ generation' = generation + 1 /\ generation \in Nat /\ generation + 1 \in Generations
      /\ final' = final /\ cancelled' = cancelled \cup {generation}
      /\ worker' = [worker EXCEPT ![generation + 1] = "idle"]
      /\ worker \in [Generations -> Places] /\ worker[generation + 1] = "none"
      /\ engine' = [engine EXCEPT ![generation + 1] = prepared]
      /\ engine \in [Generations -> SUBSET Changes] /\ call' = NoCall
      /\ final \subseteq Generations /\ cancelled \subseteq Generations
  <2>1. generation < MaxGenerations /\ generation \in Nat
    BY DEF CallInstalls, IInv, TypeOK, CallPhases, AccessLocked
  <2>2. worker[generation + 1] = "none"
    BY <2>1 DEF IInv, TypeOK
  <2>3. QED  BY <2>1, <2>2 DEF CallInstalls, StartsWorker, Retired, Moves, IInv, TypeOK
<1>3. Leaving'
  <2>1. \A g \in cancelled' : g < generation'
    BY <1>1, <1>2 DEF SInv, Leaving
  <2>2. \A g \in Generations \ {generation + 1} : worker'[g] = worker[g]
    BY <1>2
  <2>3. generation + 1 \notin final
    BY <1>2 DEF SInv, Leaving
  <2>4. QED  BY <1>2, <2>1, <2>2, <2>3 DEF SInv, Leaving
<1>4. Stopping'
  <2>1. engine'[0] = engine[0]
    BY <1>2
  <2>2. QED  BY <1>1, <1>2, <2>1 DEF SInv, Stopping
<1>5. Owed' /\ ShutdownFlushes'
  BY <1>1 DEF Owed, ShutdownFlushes
<1>6. QED  BY <1>3, <1>4, <1>5 DEF SInv

LEMMA ShutdownBeginsOwes ==
    ASSUME IInv, SInv, ShutdownBegins
    PROVE  SInv'
<1>1. /\ UNCHANGED <<worker, final, generation, engine, dirty, saved, failures, snapshot, stopped>>
      /\ ~shutdown /\ shutdown' /\ ~stopped
      /\ stopMark' = [held |-> engine[generation], failures |-> failures]
      /\ cancelled' = Generations /\ generation \in Generations /\ failures \in Nat
      /\ call' = [kind |-> "shutdown", step |-> "stopping"] /\ final \subseteq Generations
  BY DEF ShutdownBegins, engineVars, diskVars, SInv, Stopping, IInv, TypeOK
<1>2. Leaving'
  BY <1>1 DEF SInv, Leaving
<1>3. Stopping' /\ ShutdownFlushes'
  BY <1>1 DEF SInv, Stopping, ShutdownFlushes
<1>4. Owed'
  <2>1. CASE generation \notin dirty
    <3>1. engine[generation] \subseteq saved
      BY <1>1, <2>1 DEF SInv, Stopping, IInv, CleanMeansStored
    <3>2. QED  BY <1>1, <3>1 DEF Owed
  <2>2. CASE generation \in dirty
    <3>1. generation > 0 /\ worker[generation] # "none"
      BY <1>1, <2>2 DEF IInv, TypeOK, Forward
    <3>2. generation \notin cancelled
      BY <1>1 DEF SInv, Leaving
    <3>3. worker[generation] # "exited" /\ generation \notin final
      BY <1>1, <3>2 DEF SInv, Leaving
    <3>4. QED  BY <1>1, <2>2, <3>1, <3>3 DEF Owed
  <2>3. QED  BY <2>1, <2>2
<1>5. QED  BY <1>2, <1>3, <1>4 DEF SInv

LEMMA ShutdownEndsOwes ==
    ASSUME IInv, SInv, ShutdownEnds
    PROVE  SInv'
<1>1. /\ UNCHANGED <<worker, final, cancelled, generation, engine, dirty, saved, failures,
                     snapshot, shutdown, stopMark>>
      /\ shutdown /\ generation \in Generations /\ call' = NoCall
      /\ \A g \in Generations : worker[g] \in {"none", "exited"}
  BY DEF ShutdownEnds, engineVars, workerVars, diskVars, SInv, Stopping, IInv, TypeOK
<1>2. Leaving' /\ Owed'
  BY <1>1 DEF SInv, Leaving, Owed
<1>3. Stopping'
  BY <1>1 DEF SInv, Stopping
<1>4. ShutdownFlushes'
  BY <1>1 DEF SInv, Owed, ShutdownFlushes
<1>5. QED  BY <1>2, <1>3, <1>4 DEF SInv

LEMMA CrashOwes ==
    ASSUME IInv, SInv, Crash
    PROVE  SInv'
<1>1. ~shutdown' /\ ~stopped' /\ final' = {} /\ cancelled' = {} /\ call' = NoCall
  BY DEF Crash
<1>2. engine'[0] = {} /\ \A g \in Generations : worker'[g] = "none"
  BY DEF Crash
<1>3. QED  BY <1>1, <1>2 DEF SInv, Leaving, Stopping, Owed, ShutdownFlushes

LEMMA NextOwes == ASSUME IInv, SInv, [Next]_vars PROVE SInv'
<1>1. CASE \E c \in Changes : Event(c)
  <2>1. PICK c \in Changes : Event(c)
    BY <1>1
  <2>2. /\ Change(c) /\ generation > 0 /\ worker' = worker
        /\ UNCHANGED <<generation, call, final, cancelled, saved, failures, snapshot, stopVars>>
    BY <2>1 DEF Event, workerVars, callVars, diskVars
  <2>3. \A g \in Generations : worker'[g] = worker[g]
    BY <2>2
  <2>4. QED  BY <2>1, <2>2, <2>3, ChangeKeeps
<1>2. CASE \E g \in Generations : ProbeApplies(g)
  <2>1. PICK g \in Generations : ProbeApplies(g)
    BY <1>2
  <2>2. generation > 0 /\ g \notin final
    BY <2>1 DEF ProbeApplies, IInv, TypeOK, SInv, Leaving
  <2>3. \A h \in Generations :
            \/ worker'[h] = worker[h]
            \/ h \notin final /\ worker'[h] = "idle" /\ worker[h] = "applying"
    <3>1. /\ worker \in [Generations -> Places] /\ worker[g] = "applying"
          /\ worker' = [worker EXCEPT ![g] = "idle"]
      BY <2>1 DEF ProbeApplies, Moves, IInv, TypeOK
    <3>2. QED  BY <2>1, <2>2, <3>1
  <2>4. UNCHANGED <<generation, call, final, cancelled, saved, failures, snapshot, stopVars>>
    BY <2>1 DEF ProbeApplies, callVars, diskVars
  <2>5. CASE \E c \in Changes : Change(c)
    BY <2>2, <2>3, <2>4, <2>5, ChangeKeeps
  <2>6. CASE UNCHANGED engineVars
    <3>1. Leaving'
      <4>1. final \subseteq Generations
        BY DEF IInv, TypeOK
      <4>2. QED  BY <2>3, <2>4, <4>1 DEF SInv, Leaving, stopVars
    <3>2. Stopping' /\ ShutdownFlushes'
      BY <2>4, <2>6 DEF SInv, Stopping, ShutdownFlushes, stopVars, engineVars
    <3>3. Owed'
      BY <2>3, <2>4, <2>6 DEF SInv, Owed, stopVars, engineVars, IInv, TypeOK
    <3>4. QED  BY <3>1, <3>2, <3>3 DEF SInv
  <2>7. QED  BY <2>1, <2>5, <2>6 DEF ProbeApplies
<1>3. CASE \E g \in Generations :
        WorkerWakes(g) \/ WorkerRetires(g) \/ ProbeStarts(g) \/ ProbeAnswered(g)
  BY <1>3, WorkerMovesOwes
<1>4. CASE \E g \in Generations : WorkerLocks(g)
  BY <1>4, WorkerLocksOwes
<1>5. CASE \E g \in Generations, outcome \in Outcomes : WorkerWrites(g, outcome)
  BY <1>5, WorkerWritesOwes
<1>6. CASE \/ \E kind \in {"register", "reconfigure", "dynamic"} : CallBegins(kind)
           \/ CallFlushes \/ CallLoads \/ CallFails
  BY <1>6, CallMovesOwes
<1>7. CASE CallLocks \/ \E outcome \in Outcomes : CallWrites(outcome)
  BY <1>7, CallLocksOwes, CallWritesOwes
<1>8. CASE CallInstalls \/ ShutdownBegins \/ ShutdownEnds \/ Crash
  BY <1>8, CallInstallsOwes, ShutdownBeginsOwes, ShutdownEndsOwes, CrashOwes
<1>9. CASE UNCHANGED vars
  BY <1>9 DEF SInv, Leaving, Stopping, Owed, ShutdownFlushes, vars, engineVars, workerVars,
              callVars, diskVars, stopVars, countVars
<1>10. QED  BY <1>1, <1>2, <1>3, <1>4, <1>5, <1>6, <1>7, <1>8, <1>9
            DEF Next, WorkerStep, CallStep

\* When Shutdown returns, everything that had been accepted when it was called
\* is in the state file, unless a write failed in between (official_guard.go,
\* stopGuard): for any number of generations and changes.
THEOREM ShutdownFlushesAlways == Spec => []ShutdownFlushes
<1>1. Init => SInv
  BY BoundAssumption DEF Init, SInv, Leaving, Stopping, Owed, ShutdownFlushes, NoCall
<1>2. IInv /\ SInv /\ [Next]_vars => SInv'
  BY NextOwes
<1>3. SInv => ShutdownFlushes
  BY DEF SInv
<1>4. QED  BY <1>1, <1>2, <1>3, Invariance, PTL DEF Spec

=============================================================================
