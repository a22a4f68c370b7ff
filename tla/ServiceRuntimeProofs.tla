------------------------- MODULE ServiceRuntimeProofs -------------------------
(***************************************************************************)
(* Proofs about ServiceRuntime, for any set of supervised functions, HTTP  *)
(* requests and signals: the types, that Stop runs once, that a process    *)
(* that ends by itself has cleaned up, what Done() means, and that trouble *)
(* ends the process.                                                       *)
(***************************************************************************)
EXTENDS ServiceRuntime, TLAPS

\* The type invariant in two halves, the flags and the rest.
FlagsOK ==
    /\ fatal \in BOOLEAN
    /\ started \in BOOLEAN /\ ready \in BOOLEAN /\ shutdown \in BOOLEAN
    /\ ctxDone \in BOOLEAN /\ cleaned \in BOOLEAN /\ doneCh \in BOOLEAN
    /\ seen \in [Probes -> BOOLEAN]

ShapeOK ==
    /\ main \in MainPcs
    /\ worker \in [Workers -> {"new", "running", "hung", "panicked", "done"}]
    /\ handler \in HandlerPcs
    /\ server \in {"off", "serving", "done"}
    /\ sigs \in {0, 1} /\ errs \in {0, 1} /\ sent \in Nat
    /\ failed \subseteq Workers
    /\ stops \in Nat
    /\ probe \in [Probes -> {"new", "health", "ready", "healthy", "isready", "unavailable"}]

\* The type invariant, split into flags and the rest.
LEMMA TypeHalves == TypeOK <=> FlagsOK /\ ShapeOK
BY DEF TypeOK, FlagsOK, ShapeOK

\* The handler passes through Shutdown once: where it is tells whether Stop was
\* called, the context cancelled and the streams cleaned up.
BeforeStop == handler \in {"off", "select"} => stops = 0
AfterStop == handler \notin {"off", "select"} => stops = 1
CancelLast == ctxDone <=> handler = "done"
CleanFirst == handler \in {"cancel", "done"} => cleaned

\* Main leaves its wait only for a cancelled context, and starts the handler
\* on the way there.
MainWaits == main \in {"join", "joined", "exited"} => ctxDone
HandlerLate ==
    main \in {"init", "register", "serve", "start", "check", "notify", "supervise", "hung"} =>
        handler = "off"

Inv ==
    FlagsOK /\ ShapeOK /\ BeforeStop /\ AfterStop /\ CancelLast /\ CleanFirst /\ MainWaits /\ HandlerLate

\* The first state satisfies the inductive invariant.
LEMMA Initially == Init => Inv
<1> SUFFICES ASSUME Init PROVE Inv
  OBVIOUS
<1>1. FlagsOK
  BY DEF Init, FlagsOK
<1>2. ShapeOK
  BY DEF Init, ShapeOK, MainPcs, HandlerPcs
<1> QED
  BY <1>1, <1>2
     DEF Init, Inv, BeforeStop, AfterStop, CancelLast, CleanFirst, MainWaits, HandlerLate

\* Every step of main, handler, workers, server and probes keeps it.
LEMMA Inductive == Inv /\ [Next]_vars => Inv'
<1> SUFFICES ASSUME Inv, [Next]_vars PROVE Inv'
  OBVIOUS
<1> USE DEF Set, MainGoto, HandlerGoto, Ended, MainPcs, HandlerPcs, threadVars, chanVars, flagVars,
            endVars, probeVars
<1> DEFINE Order ==
      BeforeStop /\ AfterStop /\ CancelLast /\ CleanFirst /\ MainWaits /\ HandlerLate
<1> USE DEF Inv, BeforeStop, AfterStop, CancelLast, CleanFirst, MainWaits, HandlerLate
<1>1. CASE MainStep /\ ~ShutdownTimeout
  <2>1. FlagsOK'
    BY <1>1 DEF FlagsOK, MainStep, BuildFramework, Register, ServeHealth, StartService,
       CheckService, MainFails, NotifySignals, StartHandler, SeeCancelled, Join, CloseDone
  <2>2. ShapeOK'
    BY <1>1 DEF ShapeOK, MainStep, BuildFramework, Register, ServeHealth, StartService,
       CheckService, MainFails, NotifySignals, StartHandler, SeeCancelled, Join, CloseDone
  <2>3. Order'
    <3>1. CASE StartHandler
      BY <3>1 DEF StartHandler
    <3>2. CASE SeeCancelled \/ Join \/ CloseDone
      BY <3>2 DEF SeeCancelled, Join, CloseDone
    <3>3. CASE BuildFramework \/ Register \/ ServeHealth \/ StartService
      <4>1. /\ main \in {"init", "register", "serve", "start"}
            /\ main' \in {"register", "serve", "start", "check", "notify", "killed"}
            /\ UNCHANGED <<handler, stops, ctxDone, cleaned>>
        BY <3>3 DEF BuildFramework, Register, ServeHealth, StartService
      <4> QED  BY <4>1
    <3>4. CASE CheckService \/ NotifySignals \/ MainFails
      BY <3>4 DEF CheckService, NotifySignals, MainFails
    <3> QED  BY <1>1, <3>1, <3>2, <3>3, <3>4 DEF MainStep
  <2> QED  BY <2>1, <2>2, <2>3
<1>2. CASE ShutdownTimeout \/ Signal \/ LogFatal
  <2>1. FlagsOK'
    BY <1>2 DEF FlagsOK, ShutdownTimeout, Signal, LogFatal
  <2>2. ShapeOK'
    BY <1>2 DEF ShapeOK, ShutdownTimeout, Signal, LogFatal
  <2>3. Order'
    BY <1>2 DEF FlagsOK, ShapeOK, ShutdownTimeout, Signal, LogFatal
  <2> QED  BY <2>1, <2>2, <2>3
<1>3. CASE HandlerStep
  <2>1. FlagsOK'
    BY <1>3 DEF FlagsOK, HandlerStep, HandlerWakes, StopReturns, StopFails, StopServer,
       MarkShutdown, Cleanup, Cancel
  <2>2. ShapeOK'
    BY <1>3 DEF ShapeOK, HandlerStep, HandlerWakes, StopReturns, StopFails, StopServer,
       MarkShutdown, Cleanup, Cancel
  <2>3. Order'
    <3>1. CASE HandlerWakes
      <4>1. stops' = 1 /\ handler' = "stop" /\ UNCHANGED <<main, ctxDone, cleaned>>
        BY <3>1 DEF HandlerWakes
      <4>2. handler = "select" /\ ~ctxDone
        BY <3>1 DEF HandlerWakes
      <4> QED  BY <4>1, <4>2
    <3>2. CASE StopReturns \/ StopFails \/ StopServer \/ MarkShutdown
      BY <3>2 DEF StopReturns, StopFails, StopServer, MarkShutdown
    <3>3. CASE Cleanup
      <4>1. /\ handler = "cleanup" /\ handler' = "cancel" /\ cleaned' = ~ctxDone
            /\ UNCHANGED <<main, ctxDone, stops>>
        BY <3>3 DEF Cleanup
      <4>2. ~ctxDone
        BY <4>1
      <4>3. cleaned'
        BY <4>1, <4>2
      <4> QED  BY <4>1, <4>2, <4>3
    <3>4. CASE Cancel
      BY <3>4 DEF Cancel
    <3> QED  BY <1>3, <3>1, <3>2, <3>3, <3>4 DEF HandlerStep
  <2> QED  BY <2>1, <2>2, <2>3
<1>4. CASE ServerFails
  <2>1. FlagsOK'
    BY <1>4 DEF FlagsOK, ServerFails
  <2>2. ShapeOK'
    BY <1>4 DEF ShapeOK, ServerFails
  <2>3. Order'
    BY <1>4 DEF FlagsOK, ShapeOK, ServerFails
  <2> QED  BY <2>1, <2>2, <2>3
<1>5. ASSUME NEW w \in Workers, StartWorker(w) \/ WorkerStep(w) PROVE Inv'
  <2>1. FlagsOK'
    BY <1>5 DEF FlagsOK, StartWorker, WorkerStep, WorkerReturns, WorkerFails, WorkerPanics,
       WorkerHangs
  <2>2. ShapeOK'
    BY <1>5 DEF ShapeOK, StartWorker, WorkerStep, WorkerReturns, WorkerFails, WorkerPanics,
       WorkerHangs
  <2>3. Order'
    BY <1>5 DEF FlagsOK, ShapeOK, StartWorker, WorkerStep, WorkerReturns, WorkerFails,
       WorkerPanics, WorkerHangs
  <2> QED  BY <2>1, <2>2, <2>3
<1>6. ASSUME NEW p \in Probes, ProbeReads(p) \/ ProbeAnswers(p) PROVE Inv'
  <2>1. FlagsOK'
    BY <1>6 DEF FlagsOK, ProbeReads, ProbeAnswers
  <2>2. ShapeOK'
    BY <1>6 DEF ShapeOK, ProbeReads, ProbeAnswers
  <2>3. Order'
    BY <1>6 DEF FlagsOK, ShapeOK, ProbeReads, ProbeAnswers
  <2> QED  BY <2>1, <2>2, <2>3
<1>7. CASE UNCHANGED vars
  BY <1>7 DEF vars, FlagsOK, ShapeOK
<1> QED
  BY <1>1, <1>2, <1>3, <1>4, <1>5, <1>6, <1>7 DEF Next

\* The inductive invariant behind the theorems below.
LEMMA Invariant == Spec => []Inv
BY Initially, Inductive, PTL DEF Spec

\* Every state of the process has its type.
THEOREM TypeCorrect == Spec => []TypeOK
<1>1. Inv => TypeOK
  BY TypeHalves DEF Inv
<1> QED  BY <1>1, Invariant, PTL

\* However many signals, errors and fatal log entries there are, the service's
\* Stop is called at most once; and a process that leaves WaitAndShutdown by
\* itself has called it and run CleanupOnShutdown under a live context.
THEOREM EndsGracefully == Spec => []GracefulEnd
<1>1. Inv => GracefulEnd
  BY DEF Inv, GracefulEnd, MainWaits, CancelLast, CleanFirst, BeforeStop, AfterStop
<1> QED  BY <1>1, Invariant, PTL

\* An HTTP request has asked for the service's health.
HealthAsked == \E p \in Probes : probe[p] \in {"health", "healthy", "unavailable"}

Alive == \E w \in Workers : worker[w] \in {"running", "hung"}

\* Once wg.Wait has returned, only such a request can have started a function.
Gone ==
    /\ main \in {"joined", "exited"} /\ Alive => HealthAsked
    /\ doneCh => main = "exited"

\* Every step keeps it.
LEMMA GoneInductive == Inv /\ Gone /\ [Next]_vars => Gone'
<1> SUFFICES ASSUME Inv, Gone, [Next]_vars PROVE Gone'
  OBVIOUS
<1> USE DEF Set, MainGoto, HandlerGoto, Ended, threadVars, chanVars, flagVars, endVars, probeVars
<1>1. worker \in [Workers -> {"new", "running", "hung", "panicked", "done"}]
      /\ probe \in [Probes -> {"new", "health", "ready", "healthy", "isready", "unavailable"}]
  BY DEF Inv, ShapeOK
<1>2. CASE UNCHANGED <<main, worker, probe, doneCh>>
  BY <1>2 DEF Gone, Alive, HealthAsked
<1>3. CASE UNCHANGED <<worker, probe, doneCh>> /\ main' \notin {"joined", "exited"} /\ main # "exited"
  BY <1>3 DEF Gone
<1>4. CASE Join
  BY <1>4 DEF Join, AllDone, Gone, Alive
<1>5. CASE CloseDone
  BY <1>5 DEF CloseDone, Gone, Alive, HealthAsked
<1>6. ASSUME NEW w \in Workers, StartWorker(w) PROVE Gone'
  <2>1. /\ ~Ended /\ CodeRuns /\ worker[w] = "new" /\ worker' = [worker EXCEPT ![w] = "running"]
        /\ UNCHANGED <<main, probe, doneCh>>
    BY <1>6 DEF StartWorker, CodeRuns
  <2>2. main = "joined" => HealthAsked
    BY <2>1 DEF CodeRuns, Inv, MainWaits, CancelLast, Gone, Alive, HealthAsked
  <2> QED  BY <2>1, <2>2 DEF Gone, HealthAsked
<1>7. ASSUME NEW w \in Workers, WorkerStep(w) PROVE Gone'
  <2>1. /\ worker[w] = "running" /\ UNCHANGED <<main, probe, doneCh>>
        /\ \E to \in {"done", "panicked", "hung"} : worker' = [worker EXCEPT ![w] = to]
    BY <1>7 DEF WorkerStep, WorkerReturns, WorkerFails, WorkerPanics, WorkerHangs
  <2>2. Alive
    BY <2>1 DEF Alive
  <2> QED  BY <2>1, <2>2 DEF Gone, HealthAsked
<1>8. ASSUME NEW p \in Probes, ProbeReads(p) \/ ProbeAnswers(p) PROVE Gone'
  <2>1. /\ UNCHANGED <<main, worker, doneCh>>
        /\ \/ probe[p] = "new" /\ \E to \in {"health", "ready"} : probe' = [probe EXCEPT ![p] = to]
           \/ probe[p] = "health" /\ \E to \in {"healthy", "unavailable"} : probe' = [probe EXCEPT ![p] = to]
           \/ probe[p] = "ready" /\ \E to \in {"isready", "unavailable"} : probe' = [probe EXCEPT ![p] = to]
    BY <1>8 DEF ProbeReads, ProbeAnswers
  <2>2. HealthAsked => HealthAsked'
    BY <1>1, <2>1 DEF HealthAsked
  <2> QED  BY <2>1, <2>2 DEF Gone, Alive
<1> QED
  <2>1. CASE MainStep /\ ~ShutdownTimeout
    <3>1. CASE BuildFramework \/ Register \/ ServeHealth \/ StartService
      <4>1. UNCHANGED <<worker, probe, doneCh>>
        BY <3>1 DEF BuildFramework, Register, ServeHealth, StartService
      <4>2. main' \in {"register", "serve", "start", "check", "notify", "killed"} /\ main # "exited"
        BY <3>1 DEF BuildFramework, Register, ServeHealth, StartService
      <4> QED  BY <1>3, <4>1, <4>2
    <3>2. CASE CheckService \/ MainFails \/ NotifySignals \/ StartHandler \/ SeeCancelled
      <4>1. UNCHANGED <<worker, probe, doneCh>>
        BY <3>2 DEF CheckService, MainFails, NotifySignals, StartHandler, SeeCancelled
      <4>2. main' \in {"notify", "killed", "hung", "supervise", "wait", "join"} /\ main # "exited"
        BY <3>2 DEF CheckService, MainFails, NotifySignals, StartHandler, SeeCancelled
      <4> QED  BY <1>3, <4>1, <4>2
    <3> QED  BY <1>4, <1>5, <2>1, <3>1, <3>2 DEF MainStep
  <2>2. CASE ShutdownTimeout \/ Signal
    <3>1. \/ UNCHANGED <<main, worker, probe, doneCh>>
          \/ UNCHANGED <<worker, probe, doneCh>> /\ main' \notin {"joined", "exited"} /\ main # "exited"
      BY <2>2 DEF ShutdownTimeout, Signal
    <3> QED  BY <1>2, <1>3, <3>1
  <2>3. CASE HandlerStep \/ ServerFails \/ LogFatal \/ UNCHANGED vars
    <3>1. UNCHANGED <<main, worker, probe, doneCh>>
      BY <2>3 DEF HandlerStep, HandlerWakes, StopReturns, StopFails, StopServer, MarkShutdown,
         Cleanup, Cancel, ServerFails, LogFatal, vars
    <3> QED  BY <1>2, <3>1
  <2> QED  BY <1>6, <1>7, <1>8, <2>1, <2>2, <2>3 DEF Next

\* When Done() is closed no supervised function runs, except one a health
\* request has started since.
THEOREM DoneIsDone == Spec => []DoneMeansAllDone
<1>1. Init => Gone
  BY DEF Init, Gone
<1>2. Gone => DoneMeansAllDone
  BY DEF Gone, Alive, HealthAsked, DoneMeansAllDone
<1> QED  BY <1>1, <1>2, GoneInductive, Invariant, PTL DEF Spec

-----------------------------------------------------------------------------
(* Liveness.  The fairness of a goroutine says nothing while it can not go   *)
(* on; NeverStuck, which TLC checks, says when it can.  From there main and   *)
(* the handler pass through their steps one by one.                           *)

\* The handler is there when main waits, and it takes the error of a
\* supervised function out of errChan only to shut the service down.
HandlerThere == main \in {"wait", "join", "joined"} => handler # "off"
ErrorKept == failed # {} /\ handler \in {"off", "select"} => errs = 1

\* Every step of main keeps these two, and the trouble there is.
LEMMA MainMoves ==
    ASSUME Inv, HandlerThere, ErrorKept, MainStep
    PROVE  /\ HandlerThere' /\ ErrorKept'
           /\ Trouble => Trouble'
           /\ handler' = handler \/ (main = "supervise" /\ handler' = "select")
           /\ \/ main = "init" /\ main' \in {"register", "killed", "hung"}
              \/ main = "register" /\ main' \in {"serve", "killed", "hung"}
              \/ main = "serve" /\ main' = "start"
              \/ main = "start" /\ main' \in {"check", "notify", "killed", "hung"}
              \/ main = "check" /\ main' \in {"notify", "killed", "hung"}
              \/ main = "notify" /\ main' = "supervise"
              \/ main = "supervise" /\ main' = "wait" /\ handler' = "select"
              \/ main = "wait" /\ main' = "join"
              \/ main = "join" /\ main' \in {"joined", "killed"}
              \/ main = "joined" /\ main' = "exited"
<1> USE DEF MainGoto, Trouble, HandlerThere, ErrorKept, threadVars, chanVars, flagVars, endVars
<1>1. CASE BuildFramework \/ Register \/ ServeHealth
  <2>1. fatal => fatal'
    BY <1>1 DEF BuildFramework, Register, ServeHealth
  <2> QED  BY <1>1, <2>1 DEF BuildFramework, Register, ServeHealth
<1>2. CASE StartService \/ CheckService \/ MainFails \/ NotifySignals
  BY <1>2 DEF StartService, CheckService, MainFails, NotifySignals
<1>3. CASE StartHandler
  BY <1>3 DEF StartHandler, Inv, HandlerLate
<1>4. CASE SeeCancelled \/ Join \/ ShutdownTimeout \/ CloseDone
  BY <1>4 DEF SeeCancelled, Join, ShutdownTimeout, CloseDone
<1> QED  BY <1>1, <1>2, <1>3, <1>4 DEF MainStep

\* So does every step of the handler, which ends the trouble by going on.
LEMMA HandlerMoves ==
    ASSUME Inv, HandlerThere, ErrorKept, HandlerStep
    PROVE  /\ HandlerThere' /\ ErrorKept' /\ main' = main /\ ~Ended
           /\ \/ handler = "select" /\ handler' = "stop"
              \/ handler = "stop" /\ handler' \in {"server", "panicked", "hung"}
              \/ handler = "server" /\ handler' = "mark"
              \/ handler = "mark" /\ handler' = "cleanup"
              \/ handler = "cleanup" /\ handler' = "cancel"
              \/ handler = "cancel" /\ handler' = "done"
<1> USE DEF HandlerGoto, HandlerThere, ErrorKept, threadVars, chanVars, flagVars, endVars
<1>1. CASE HandlerWakes
  BY <1>1 DEF HandlerWakes
<1>2. CASE StopReturns \/ StopFails \/ StopServer
  BY <1>2 DEF StopReturns, StopFails, StopServer
<1>3. CASE MarkShutdown \/ Cleanup \/ Cancel
  BY <1>3 DEF MarkShutdown, Cleanup, Cancel
<1> QED  BY <1>1, <1>2, <1>3 DEF HandlerStep

\* And so do the others, who never move main, unless to kill the process, or
\* the handler.
LEMMA OthersMove ==
    ASSUME Inv, HandlerThere, ErrorKept, [Next]_vars, ~MainStep, ~HandlerStep
    PROVE  /\ HandlerThere' /\ ErrorKept'
           /\ Trouble => Trouble'
           /\ handler' = handler
           /\ main' = main \/ main' = "killed"
<1> USE DEF Trouble, HandlerThere, ErrorKept, threadVars, chanVars, flagVars, endVars, probeVars
<1>1. CASE ServerFails \/ Signal \/ LogFatal
  BY <1>1 DEF ServerFails, Signal, LogFatal
<1>2. ASSUME NEW w \in Workers, StartWorker(w) \/ WorkerReturns(w) \/ WorkerPanics(w) \/ WorkerHangs(w)
      PROVE  UNCHANGED <<main, handler, sigs, errs, fatal, failed>>
  BY <1>2 DEF StartWorker, WorkerReturns, WorkerPanics, WorkerHangs
<1>3. ASSUME NEW w \in Workers, WorkerFails(w)
      PROVE  /\ UNCHANGED <<main, handler, sigs, fatal>> /\ failed \subseteq failed'
             /\ failed' = failed \/ errs' = 1 \/ ctxDone
             /\ errs = 1 => errs' = 1
  BY <1>3 DEF WorkerFails
<1>4. ASSUME NEW p \in Probes, ProbeReads(p) \/ ProbeAnswers(p)
      PROVE  UNCHANGED <<main, handler, sigs, errs, fatal, failed>>
  BY <1>4 DEF ProbeReads, ProbeAnswers
<1>5. CASE UNCHANGED vars
  BY <1>5 DEF vars
<1>6. ctxDone => handler = "done"
  BY DEF Inv, CancelLast
<1>7. CASE \E w \in Workers : WorkerFails(w)
  BY <1>3, <1>6, <1>7
<1>8. CASE UNCHANGED <<main, handler, sigs, errs, fatal, failed>>
  BY <1>8
<1> QED  BY <1>1, <1>2, <1>4, <1>5, <1>7, <1>8 DEF Next, WorkerStep

\* Where the process is once there is trouble, and when it has ended.
Early(p) == main = p /\ Trouble
Shuts(h) == ~Ended /\ handler = h
Leaves(p) == main = p /\ handler = "done"
Over == Ended \/ main = "hung" \/ handler \in {"panicked", "hung"}

\* What comes next.
AfterMain == [init |-> {"register"}, register |-> {"serve"}, serve |-> {"start"},
              start |-> {"check", "notify"}, check |-> {"notify"}, notify |-> {"supervise"},
              supervise |-> {"wait"}]
AfterHandler == [stop |-> "server", server |-> "mark", mark |-> "cleanup",
                 cleanup |-> "cancel", cancel |-> "done"]
AfterWait == [wait |-> "join", join |-> "joined", joined |-> "exited"]

EarlyNext(p) == (\E q \in AfterMain[p] : Early(q)) \/ Over
ShutsNext(h) == Shuts(AfterHandler[h]) \/ Over
LeavesNext(p) == Leaves(AfterWait[p]) \/ Over

EarlyGoesOn(p) == Early(p) ~> EarlyNext(p)
ShutsGoesOn(h) == Shuts(h) ~> ShutsNext(h)
LeavesGoesOn(p) == Leaves(p) ~> LeavesNext(p)


\* The whole of what the temporal steps use.
Steady == Inv /\ HandlerThere /\ ErrorKept

\* It is invariant.
LEMMA SteadyHolds == Spec => []Steady
<1>1. Init => HandlerThere /\ ErrorKept
  BY DEF Init, HandlerThere, ErrorKept
<1>2. Steady /\ [Next]_vars => HandlerThere' /\ ErrorKept'
  BY MainMoves, HandlerMoves, OthersMove DEF Steady
<1> QED  BY <1>1, <1>2, Invariant, PTL DEF Spec, Steady

\* When main and the handler can go on.
MainReady == ~Ended /\ main # "hung" /\ (main = "wait" => ctxDone)
HandlerReady ==
    /\ ~Ended
    /\ \/ handler \in {"stop", "server", "mark", "cleanup", "cancel"}
       \/ handler = "select" /\ (sigs = 1 \/ errs = 1 \/ fatal)

MainDriven == Spec /\ MainFair /\ [](MainReady => ENABLED <<MainStep>>_vars)
HandlerDriven == Spec /\ HandlerFair /\ [](HandlerReady => ENABLED <<HandlerStep>>_vars)

\* Every fair execution drives both.
LEMMA Drives == FairSpec /\ []NeverStuck => MainDriven /\ HandlerDriven
<1>1. FairSpec => Spec /\ MainFair /\ HandlerFair
  BY DEF FairSpec, Fairness
<1>2. NeverStuck => (MainReady => ENABLED <<MainStep>>_vars)
  BY DEF NeverStuck, MainReady
<1>3. NeverStuck => (HandlerReady => ENABLED <<HandlerStep>>_vars)
  BY DEF NeverStuck, HandlerReady
<1> QED  BY <1>1, <1>2, <1>3, PTL DEF MainDriven, HandlerDriven

\* Bootstrap goes on to its wait, with the trouble there is.
LEMMA BootstrapGoesOn ==
    ASSUME NEW p \in DOMAIN AfterMain
    PROVE  MainDriven => EarlyGoesOn(p)
<1> USE DEF Early, EarlyNext, AfterMain, Over, Ended, Steady
<1>1. Steady /\ [Next]_vars /\ Early(p) => Early(p)' \/ EarlyNext(p)'
  BY MainMoves, HandlerMoves, OthersMove DEF Inv, HandlerLate
<1>2. Steady /\ <<MainStep>>_vars /\ Early(p) => EarlyNext(p)'
  BY MainMoves
<1>3. Early(p) => MainReady
  BY DEF MainReady
<1> QED  BY <1>1, <1>2, <1>3, SteadyHolds, PTL DEF MainDriven, Spec, MainFair, EarlyGoesOn, LeavesGoesOn

\* The handler hears of the trouble and goes through its shutdown.
LEMMA HandlerHears == HandlerDriven => ((Early("wait") /\ handler = "select") ~> Shuts("stop") \/ Over)
<1> DEFINE Hears == Early("wait") /\ handler = "select"
<1> USE DEF Early, Shuts, Over, Ended, Steady
<1>1. Steady /\ [Next]_vars /\ Hears => Hears' \/ Shuts("stop")' \/ Over'
  <2> SUFFICES ASSUME Steady, [Next]_vars, Hears PROVE Hears' \/ Shuts("stop")' \/ Over'
    OBVIOUS
  <2>1. ~MainStep
    <3>1. SUFFICES ASSUME MainStep PROVE FALSE
      OBVIOUS
    <3>2. main' = "join" /\ handler' = "select"
      BY <3>1, MainMoves
    <3> QED  BY <3>2, Inductive DEF Inv, MainWaits, CancelLast
  <2> QED  BY <2>1, MainMoves, HandlerMoves, OthersMove
<1>2. Steady /\ <<HandlerStep>>_vars /\ Hears => Shuts("stop")' \/ Over'
  BY HandlerMoves
<1>3. Steady /\ Hears => HandlerReady
  BY DEF HandlerReady, Trouble, ErrorKept
<1> QED  BY <1>1, <1>2, <1>3, SteadyHolds, PTL DEF HandlerDriven, Spec, HandlerFair, ShutsGoesOn

\* From step to step.
LEMMA HandlerGoesOn ==
    ASSUME NEW h \in DOMAIN AfterHandler
    PROVE  HandlerDriven => ShutsGoesOn(h)
<1> USE DEF Shuts, ShutsNext, AfterHandler, Over, Ended, Steady
<1>1. Steady /\ [Next]_vars /\ Shuts(h) => Shuts(h)' \/ ShutsNext(h)'
  BY MainMoves, HandlerMoves, OthersMove DEF Inv, HandlerLate
<1>2. Steady /\ <<HandlerStep>>_vars /\ Shuts(h) => ShutsNext(h)'
  BY HandlerMoves
<1>3. Shuts(h) => HandlerReady
  BY DEF HandlerReady
<1> QED  BY <1>1, <1>2, <1>3, SteadyHolds, PTL DEF HandlerDriven, Spec, HandlerFair, ShutsGoesOn

\* And main leaves its wait, one way or the other.
LEMMA WaitGoesOn ==
    ASSUME NEW p \in DOMAIN AfterWait
    PROVE  MainDriven => LeavesGoesOn(p)
<1> USE DEF Leaves, LeavesNext, AfterWait, Over, Ended, Steady
<1>1. Steady /\ [Next]_vars /\ Leaves(p) => Leaves(p)' \/ LeavesNext(p)'
  BY MainMoves, HandlerMoves, OthersMove
<1>2. Steady /\ <<MainStep>>_vars /\ Leaves(p) => LeavesNext(p)'
  BY MainMoves
<1>3. Steady /\ Leaves(p) => MainReady
  BY DEF MainReady, Inv, CancelLast
<1> QED  BY <1>1, <1>2, <1>3, SteadyHolds, PTL DEF MainDriven, Spec, MainFair, EarlyGoesOn, LeavesGoesOn

\* An error of a supervised function, a signal or a fatal log entry ends the
\* process, or the service's own code blocks before the handler is there, or its
\* Stop panics or blocks, as long as main and the handler can go on: whenever it comes, and whatever the supervised functions,
\* the health server and the requests do.
THEOREM TroubleEnds == FairSpec /\ []NeverStuck => TroubleEndsProcess
<1> DEFINE Driven == MainDriven /\ HandlerDriven
           Leaving == Leaves("wait") \/ Leaves("join") \/ Leaves("joined")
           Stopping == Shuts("server") \/ Shuts("mark") \/ Shuts("cleanup") \/ Shuts("cancel")
<1>1. Driven => (Leaving ~> Over)
  <2>1. MainDriven => LeavesGoesOn("wait")
    BY WaitGoesOn DEF AfterWait
  <2>2. MainDriven => LeavesGoesOn("join")
    BY WaitGoesOn DEF AfterWait
  <2>3. MainDriven => LeavesGoesOn("joined")
    BY WaitGoesOn DEF AfterWait
  <2>4. /\ LeavesNext("wait") => Leaves("join") \/ Over
        /\ LeavesNext("join") => Leaves("joined") \/ Over
        /\ LeavesNext("joined") => Over
    BY DEF LeavesNext, AfterWait, Leaves, Over, Ended
  <2> QED  BY <2>1, <2>2, <2>3, <2>4, PTL DEF LeavesGoesOn
<1>2. Driven => (Shuts("done") ~> Over)
  <2>1. Steady /\ Shuts("done") => Leaving \/ Over
    BY DEF Steady, Inv, HandlerLate, ShapeOK, MainPcs, Shuts, Leaves, Over, Ended
  <2> QED  BY <1>1, <2>1, SteadyHolds, PTL DEF MainDriven
<1>3. Driven => (Shuts("stop") \/ Stopping ~> Over)
  <2>1. HandlerDriven => ShutsGoesOn("stop")
    BY HandlerGoesOn DEF AfterHandler
  <2>2. HandlerDriven => ShutsGoesOn("server")
    BY HandlerGoesOn DEF AfterHandler
  <2>3. HandlerDriven => ShutsGoesOn("mark")
    BY HandlerGoesOn DEF AfterHandler
  <2>4. HandlerDriven => ShutsGoesOn("cleanup")
    BY HandlerGoesOn DEF AfterHandler
  <2>5. HandlerDriven => ShutsGoesOn("cancel")
    BY HandlerGoesOn DEF AfterHandler
  <2>6. /\ ShutsNext("stop") => Shuts("server") \/ Over
        /\ ShutsNext("server") => Shuts("mark") \/ Over
        /\ ShutsNext("mark") => Shuts("cleanup") \/ Over
        /\ ShutsNext("cleanup") => Shuts("cancel") \/ Over
        /\ ShutsNext("cancel") => Shuts("done") \/ Over
    BY DEF ShutsNext, AfterHandler
  <2> QED  BY <1>2, <2>1, <2>2, <2>3, <2>4, <2>5, <2>6, PTL DEF ShutsGoesOn
<1>4. Driven => (Early("wait") ~> Over)
  <2>1. Steady /\ Early("wait") =>
          (Early("wait") /\ handler = "select") \/ Shuts("stop") \/ Stopping \/ Shuts("done") \/ Over
    BY DEF Steady, Inv, HandlerThere, ShapeOK, HandlerPcs, Early, Shuts, Over, Ended
  <2> QED  BY <1>2, <1>3, <2>1, HandlerHears, SteadyHolds, PTL DEF MainDriven
<1>5. Driven => (Early("check") \/ Early("notify") \/ Early("supervise") ~> Over)
  <2>1. MainDriven => EarlyGoesOn("check")
    BY BootstrapGoesOn DEF AfterMain
  <2>2. MainDriven => EarlyGoesOn("notify")
    BY BootstrapGoesOn DEF AfterMain
  <2>3. MainDriven => EarlyGoesOn("supervise")
    BY BootstrapGoesOn DEF AfterMain
  <2>4. /\ EarlyNext("check") => Early("notify") \/ Over
        /\ EarlyNext("notify") => Early("supervise") \/ Over
        /\ EarlyNext("supervise") => Early("wait") \/ Over
    BY DEF EarlyNext, AfterMain
  <2> QED  BY <1>4, <2>1, <2>2, <2>3, <2>4, PTL DEF EarlyGoesOn
<1>6. Driven => (Early("init") \/ Early("register") \/ Early("serve") \/ Early("start") ~> Over)
  <2>1. MainDriven => EarlyGoesOn("init")
    BY BootstrapGoesOn DEF AfterMain
  <2>2. MainDriven => EarlyGoesOn("register")
    BY BootstrapGoesOn DEF AfterMain
  <2>3. MainDriven => EarlyGoesOn("serve")
    BY BootstrapGoesOn DEF AfterMain
  <2>4. MainDriven => EarlyGoesOn("start")
    BY BootstrapGoesOn DEF AfterMain
  <2>5. /\ EarlyNext("init") => Early("register") \/ Over
        /\ EarlyNext("register") => Early("serve") \/ Over
        /\ EarlyNext("serve") => Early("start") \/ Over
        /\ EarlyNext("start") => Early("check") \/ Early("notify") \/ Over
    BY DEF EarlyNext, AfterMain
  <2> QED  BY <1>5, <2>1, <2>2, <2>3, <2>4, <2>5, PTL DEF EarlyGoesOn
<1>7. Steady /\ Trouble =>
        \/ Early("init") \/ Early("register") \/ Early("serve") \/ Early("start")
        \/ Early("check") \/ Early("notify") \/ Early("supervise") \/ Early("wait")
        \/ Leaving \/ Over
  BY DEF Steady, Inv, ShapeOK, MainPcs, MainWaits, CancelLast, Early, Leaves, Over, Ended
<1>8. FairSpec /\ []NeverStuck => Spec /\ Driven
  BY Drives DEF FairSpec
<1> QED
  BY <1>1, <1>4, <1>5, <1>6, <1>7, <1>8, SteadyHolds, PTL DEF TroubleEndsProcess, Over
=============================================================================
