---------------------------- MODULE ServiceRuntime ----------------------------
(***************************************************************************)
(* One service process from Bootstrap to its end: the main goroutine that  *)
(* builds the framework, runs the service and waits; the supervised        *)
(* goroutines (Supervisor.Go and Supervisor.GoLoop); the signal handler    *)
(* goroutine that turns a signal or the first reported error into a        *)
(* shutdown; the health server; and the HTTP requests that observe it.     *)
(*                                                                         *)
(* Time is abstract: the 40s timer of WaitAndShutdown may fire whenever    *)
(* some supervised goroutine is still there.                               *)
(***************************************************************************)
EXTENDS Naturals

CONSTANTS
    Goroutines,   \* what the framework and the service start with Go
    Loops,        \* what they start with GoLoop
    Probes,       \* HTTP requests for the health and readiness routes
    MayHang,      \* whether a supervised function may block for ever
    MainMayHang,  \* whether the service's code on main may block for ever
    StopMayFail,  \* whether the service's Stop may panic or block for ever
    MaxSignals    \* bound on the signals sent

ASSUME SupervisedAssumption == Goroutines \cap Loops = {}
ASSUME FlagAssumption ==
    MayHang \in BOOLEAN /\ MainMayHang \in BOOLEAN /\ StopMayFail \in BOOLEAN

Workers == Goroutines \cup Loops

VARIABLES
    main,      \* where Bootstrap is
    worker,    \* per supervised function: "new", "running", "hung", "panicked"
               \* or "done"
    handler,   \* where the goroutine "signal.handler" is
    server,    \* the goroutine "health_server": "off", "serving" or "done"
    sigs,      \* signals buffered in sigChan (capacity 1)
    sent,      \* signals sent so far
    errs,      \* errors buffered in errChan (capacity 1)
    fatal,     \* the logger's FatalSignal channel (capacity 1) is full
    failed,    \* workers that returned an error to a live supervisor
    ctxDone,   \* the root context of the framework is cancelled
    started, ready, shutdown,   \* the flags of ServiceLifecycle
    stops,     \* calls of the service's Stop so far
    cleaned,   \* CleanupOnShutdown ran with a live context
    doneCh,    \* Supervisor.Done() is closed
    probe,     \* where each HTTP request is
    seen       \* what a request's handler read of the lifecycle flags

threadVars == <<main, worker, handler, server>>
chanVars == <<sigs, sent, errs, fatal, failed>>
flagVars == <<started, ready, shutdown>>
endVars == <<ctxDone, stops, cleaned, doneCh>>
probeVars == <<probe, seen>>
vars == <<threadVars, chanVars, flagVars, endVars, probeVars>>

MainPcs == {"init", "register", "serve", "start", "check", "notify", "supervise", "wait",
            "join", "joined", "exited", "killed", "hung"}
HandlerPcs == {"off", "select", "stop", "server", "mark", "cleanup", "cancel", "done", "panicked",
               "hung"}

Ended == main \in {"exited", "killed"}
Set(f, k, v) == f' = [f EXCEPT ![k] = v]

Init ==
    /\ main = "init"
    /\ worker = [w \in Workers |-> "new"]
    /\ handler = "off" /\ server = "off"
    /\ sigs = 0 /\ sent = 0 /\ errs = 0 /\ fatal = FALSE /\ failed = {}
    /\ ctxDone = FALSE
    /\ started = FALSE /\ ready = FALSE /\ shutdown = FALSE
    /\ stops = 0 /\ cleaned = FALSE /\ doneCh = FALSE
    /\ probe = [p \in Probes |-> "new"]
    /\ seen = [p \in Probes |-> FALSE]

-----------------------------------------------------------------------------
(* Bootstrap, on the main goroutine.                                        *)

MainGoto(from, to) == main = from /\ main' = to

\* Code of the framework or the service is running: while it is built,
\* registered, started and checked by main, in a supervised function, in the
\* service's Stop, and in its HealthCheck on the goroutine of an HTTP request.
CodeRuns ==
    /\ ~Ended
    /\ \/ main \in {"init", "register", "start", "check"}
       \/ \E v \in Workers : worker[v] = "running"
       \/ handler = "stop"
       \/ \E p \in Probes : probe[p] = "health"

\* Logger.Fatal: a send that is dropped when the channel is full.
LogFatal ==
    /\ CodeRuns
    /\ fatal' = TRUE
    /\ UNCHANGED <<threadVars, sigs, sent, errs, failed, flagVars, endVars, probeVars>>

\* Such code starts supervised functions, any RPC request among it.
StartWorker(w) ==
    /\ CodeRuns
    /\ worker[w] = "new"
    /\ Set(worker, w, "running")
    /\ UNCHANGED <<main, handler, server, chanVars, flagVars, endVars, probeVars>>

\* NewFrameworkContext, create and NewServiceStruct succeed, or the process
\* exits (log.Fatalf, os.Exit).
BuildFramework ==
    /\ \E next \in {"register", "killed"} : MainGoto("init", next)
    /\ UNCHANGED <<worker, handler, server, chanVars, flagVars, endVars, probeVars>>

\* Run: autoRegisterFunctions, where a registration that fails is logged as
\* fatal and the others go on, then MarkStarted.
Register ==
    /\ MainGoto("register", "serve")
    /\ fatal' \in {fatal, TRUE}
    /\ started' = TRUE
    /\ UNCHANGED <<worker, handler, server, sigs, sent, errs, failed, ready, shutdown, endVars,
                   probeVars>>

\* Run: the health server, when it is configured.
ServeHealth ==
    /\ MainGoto("serve", "start")
    /\ server' \in {"off", "serving"}
    /\ UNCHANGED <<worker, handler, chanVars, flagVars, endVars, probeVars>>

\* Run: the service's Start.  An error is logged and ends Run, not the process.
StartService ==
    /\ \E next \in {"check", "notify"} : MainGoto("start", next)
    /\ UNCHANGED <<worker, handler, server, chanVars, flagVars, endVars, probeVars>>

\* Run: the service's HealthCheck; only then is the service marked ready.
CheckService ==
    /\ MainGoto("check", "notify")
    /\ ready' \in BOOLEAN
    /\ UNCHANGED <<worker, handler, server, chanVars, started, shutdown, endVars, probeVars>>

\* Service code blocks on the goroutine that has not started the signal handler
\* yet, or panics there, which nothing recovers: its constructor, the methods that
\* the registration calls, Start or HealthCheck.
MainFails ==
    /\ \E from \in {"init", "register", "start", "check"} :
         MainGoto(from, "killed") \/ (MainMayHang /\ MainGoto(from, "hung"))
    /\ UNCHANGED <<worker, handler, server, chanVars, flagVars, endVars, probeVars>>

\* signal.Notify.
NotifySignals ==
    /\ MainGoto("notify", "supervise")
    /\ UNCHANGED <<worker, handler, server, chanVars, flagVars, endVars, probeVars>>

\* Supervisor.Go("signal.handler").
StartHandler ==
    /\ MainGoto("supervise", "wait")
    /\ handler' = "select"
    /\ UNCHANGED <<worker, server, chanVars, flagVars, endVars, probeVars>>

\* WaitAndShutdown: only the context is waited for.
SeeCancelled ==
    /\ MainGoto("wait", "join")
    /\ ctxDone
    /\ UNCHANGED <<worker, handler, server, chanVars, flagVars, endVars, probeVars>>

AllDone ==
    /\ \A w \in Workers : worker[w] \in {"new", "panicked", "done"}
    /\ handler \in {"done", "panicked"}
    /\ server \in {"off", "done"}

\* Mutant: wg.Wait counts the functions started with Go, not the loops.
JoinWithoutLoops ==
    /\ MainGoto("join", "joined")
    /\ \A w \in Goroutines : worker[w] \in {"new", "panicked", "done"}
    /\ handler \in {"done", "panicked"}
    /\ server \in {"off", "done"}
    /\ UNCHANGED <<worker, handler, server, chanVars, flagVars, endVars, probeVars>>

\* wg.Wait returns ...
Join ==
    /\ MainGoto("join", "joined")
    /\ AllDone
    /\ UNCHANGED <<worker, handler, server, chanVars, flagVars, endVars, probeVars>>

\* ... onShutdown runs, Done() is closed and Bootstrap returns.
CloseDone ==
    /\ MainGoto("joined", "exited")
    /\ doneCh' = TRUE
    /\ UNCHANGED <<worker, handler, server, chanVars, flagVars, ctxDone, stops, cleaned, probeVars>>

\* Mutant: wg.Wait is waited for without a timer.
ShutdownTimeoutNever ==
    /\ FALSE
    /\ MainGoto("join", "killed")
    /\ UNCHANGED <<worker, handler, server, chanVars, flagVars, endVars, probeVars>>

\* The timer of WaitAndShutdown: the goroutines left are logged, os.Exit(1).
ShutdownTimeout ==
    /\ MainGoto("join", "killed")
    /\ ~AllDone
    /\ UNCHANGED <<worker, handler, server, chanVars, flagVars, endVars, probeVars>>

\* Mutant: sigChan takes every signal.
SignalCounts ==
    /\ ~Ended /\ sent < MaxSignals
    /\ sent' = sent + 1
    /\ sigs' = sigs + 1
    /\ UNCHANGED <<main, worker, handler, server, errs, fatal, failed, flagVars, endVars, probeVars>>

\* A signal: buffered once signal.Notify was called (and dropped when the
\* buffer is full); before that its default action ends the process.
Signal ==
    /\ ~Ended /\ sent < MaxSignals
    /\ sent' = sent + 1
    /\ IF main \in {"init", "register", "serve", "start", "check", "notify", "hung"}
       THEN main' = "killed" /\ UNCHANGED sigs
       ELSE sigs' = 1 /\ UNCHANGED main
    /\ UNCHANGED <<worker, handler, server, errs, fatal, failed, flagVars, endVars, probeVars>>

-----------------------------------------------------------------------------
(* Supervised goroutines.                                                   *)

\* The function returns nil, or the loop sees its context cancelled.
WorkerReturns(w) ==
    /\ ~Ended /\ worker[w] = "running"
    /\ w \in Loops => ctxDone
    /\ Set(worker, w, "done")
    /\ UNCHANGED <<main, handler, server, chanVars, flagVars, endVars, probeVars>>

\* Mutant: errChan has no buffer, an error nobody is waiting for is dropped.
WorkerFailsUnbuffered(w) ==
    /\ ~Ended /\ worker[w] = "running"
    /\ Set(worker, w, "done")
    /\ errs' = IF handler = "select" THEN 1 ELSE errs
    /\ failed' = IF ctxDone THEN failed ELSE failed \cup {w}
    /\ UNCHANGED <<main, handler, server, sigs, sent, fatal, flagVars, endVars, probeVars>>

\* The function returns an error.  It goes to errChan unless that is full; Go
\* keeps it to itself once the context is cancelled, GoLoop does not.
WorkerFails(w) ==
    /\ ~Ended /\ worker[w] = "running"
    /\ Set(worker, w, "done")
    /\ errs' = IF ctxDone /\ w \in Goroutines THEN errs ELSE 1
    /\ failed' = IF ctxDone THEN failed ELSE failed \cup {w}
    /\ UNCHANGED <<main, handler, server, sigs, sent, fatal, flagVars, endVars, probeVars>>

\* A panic is recovered and logged; errChan hears nothing of it.
WorkerPanics(w) ==
    /\ ~Ended /\ worker[w] = "running"
    /\ Set(worker, w, "panicked")
    /\ UNCHANGED <<main, handler, server, chanVars, flagVars, endVars, probeVars>>

\* The function blocks where no context reaches it.
WorkerHangs(w) ==
    /\ MayHang /\ ~Ended /\ worker[w] = "running"
    /\ Set(worker, w, "hung")
    /\ UNCHANGED <<main, handler, server, chanVars, flagVars, endVars, probeVars>>

\* ListenAndServe fails: reported like any error of Go.
ServerFails ==
    /\ ~Ended /\ server = "serving"
    /\ server' = "done"
    /\ errs' = IF ctxDone THEN errs ELSE 1
    /\ UNCHANGED <<main, worker, handler, sigs, sent, fatal, failed, flagVars, endVars, probeVars>>

-----------------------------------------------------------------------------
(* signal.handler: the select, then ServiceStruct.Shutdown step by step.    *)

HandlerGoto(from, to) == ~Ended /\ handler = from /\ handler' = to

\* A signal, an error of errChan, or a fatal log entry.  The fourth case of the
\* select, a cancelled context, cannot come first: only Cancel cancels it.
HandlerWakes ==
    /\ HandlerGoto("select", "stop")
    /\ stops' = stops + 1
    /\ \/ sigs = 1 /\ sigs' = 0 /\ UNCHANGED <<errs, fatal>>
       \/ errs = 1 /\ errs' = 0 /\ UNCHANGED <<sigs, fatal>>
       \/ fatal /\ fatal' = FALSE /\ UNCHANGED <<sigs, errs>>
    /\ UNCHANGED <<main, worker, server, sent, failed, flagVars, ctxDone, cleaned, doneCh, probeVars>>

\* The service's Stop returns; its error is only logged.
StopReturns ==
    /\ HandlerGoto("stop", "server")
    /\ UNCHANGED <<main, worker, server, chanVars, flagVars, endVars, probeVars>>

\* Stop panics (the supervisor recovers and the goroutine ends) or blocks.
StopFails ==
    /\ StopMayFail
    /\ \E end \in {"panicked", "hung"} : HandlerGoto("stop", end)
    /\ UNCHANGED <<main, worker, server, chanVars, flagVars, endVars, probeVars>>

\* HealthServer.Stop: the listener closes; requests get up to 5s to finish.
StopServer ==
    /\ HandlerGoto("server", "mark")
    /\ server' = IF server = "serving" THEN "done" ELSE server
    /\ UNCHANGED <<main, worker, chanVars, flagVars, endVars, probeVars>>

\* Mutant: the context is cancelled before the streams are cleaned up.
MarkShutdownCancels ==
    /\ HandlerGoto("mark", "cleanup")
    /\ shutdown' = TRUE /\ ctxDone' = TRUE
    /\ UNCHANGED <<main, worker, server, chanVars, started, ready, stops, cleaned, doneCh, probeVars>>

MarkShutdown ==
    /\ HandlerGoto("mark", "cleanup")
    /\ shutdown' = TRUE
    /\ UNCHANGED <<main, worker, server, chanVars, started, ready, endVars, probeVars>>

\* CleanupOnShutdown: skipped when the context is already cancelled.
Cleanup ==
    /\ HandlerGoto("cleanup", "cancel")
    /\ cleaned' = ~ctxDone
    /\ UNCHANGED <<main, worker, server, chanVars, flagVars, ctxDone, stops, doneCh, probeVars>>

\* Supervisor.Shutdown, and the handler is done.
Cancel ==
    /\ HandlerGoto("cancel", "done")
    /\ ctxDone' = TRUE
    /\ UNCHANGED <<main, worker, server, chanVars, flagVars, stops, cleaned, doneCh, probeVars>>

-----------------------------------------------------------------------------
(* HTTP requests.                                                           *)

\* handleHealthz and handleReadyz read the flags first ...
ProbeReads(p) ==
    /\ ~Ended /\ server = "serving" /\ probe[p] = "new"
    /\ \E route \in {"health", "ready"} :
         /\ Set(probe, p, route)
         /\ Set(seen, p, IF route = "health" THEN started /\ ~shutdown ELSE ready)
    /\ UNCHANGED <<threadVars, chanVars, flagVars, endVars>>

\* ... and answer after the health checks: 200 or 503.
ProbeAnswers(p) ==
    /\ ~Ended /\ probe[p] \in {"health", "ready"}
    /\ \/ seen[p] /\ Set(probe, p, IF probe[p] = "health" THEN "healthy" ELSE "isready")
       \/ (~seen[p] \/ probe[p] = "health") /\ Set(probe, p, "unavailable")
    /\ UNCHANGED <<seen, threadVars, chanVars, flagVars, endVars>>

-----------------------------------------------------------------------------
MainStep ==
    \/ BuildFramework \/ Register \/ ServeHealth \/ StartService \/ CheckService
    \/ MainFails \/ NotifySignals \/ StartHandler \/ SeeCancelled \/ Join \/ ShutdownTimeout \/ CloseDone

HandlerStep ==
    HandlerWakes \/ StopReturns \/ StopFails \/ StopServer \/ MarkShutdown \/ Cleanup \/ Cancel

WorkerStep(w) == WorkerReturns(w) \/ WorkerFails(w) \/ WorkerPanics(w) \/ WorkerHangs(w)

Next ==
    \/ MainStep \/ HandlerStep \/ ServerFails \/ Signal \/ LogFatal
    \/ \E w \in Workers : StartWorker(w) \/ WorkerStep(w)
    \/ \E p \in Probes : ProbeReads(p) \/ ProbeAnswers(p)

Spec == Init /\ [][Next]_vars

\* The two goroutines that end the process are scheduled, and the timer of
\* WaitAndShutdown fires; the service's own code returns, but for MainFails and
\* StopFails.  No supervised function has to return.
MainFair == WF_vars(MainStep)
HandlerFair == WF_vars(HandlerStep)
Fairness == MainFair /\ HandlerFair

FairSpec == Spec /\ Fairness
-----------------------------------------------------------------------------
(* Properties.                                                              *)

\* Every variable has its type: the one-place channels hold at most one element.
TypeOK ==
    /\ main \in MainPcs
    /\ worker \in [Workers -> {"new", "running", "hung", "panicked", "done"}]
    /\ handler \in HandlerPcs
    /\ server \in {"off", "serving", "done"}
    /\ sigs \in {0, 1} /\ errs \in {0, 1} /\ sent \in Nat
    /\ fatal \in BOOLEAN /\ failed \subseteq Workers
    /\ started \in BOOLEAN /\ ready \in BOOLEAN /\ shutdown \in BOOLEAN
    /\ ctxDone \in BOOLEAN /\ cleaned \in BOOLEAN /\ doneCh \in BOOLEAN
    /\ stops \in Nat
    /\ probe \in [Probes -> {"new", "health", "ready", "healthy", "isready", "unavailable"}]
    /\ seen \in [Probes -> BOOLEAN]

\* The service's Stop is called once, however signals, errors of several
\* goroutines and fatal log entries come together; and a process that ends by
\* itself has called it and deleted its reply streams, which CleanupOnShutdown
\* skips once the context is cancelled.
GracefulEnd ==
    /\ stops <= 1
    /\ main = "exited" => stops = 1 /\ cleaned

Trouble == failed # {} \/ sigs = 1 \/ fatal

\* Main can always go on, except in service code that blocks and while nothing was
\* cancelled; and the handler can once one of its channels has something for it.
NeverStuck ==
    /\ ~Ended /\ main # "hung" /\ (main = "wait" => ctxDone) => ENABLED <<MainStep>>_vars
    /\ /\ ~Ended
       /\ \/ handler \in {"stop", "server", "mark", "cleanup", "cancel"}
          \/ handler = "select" /\ (sigs = 1 \/ errs = 1 \/ fatal)
       => ENABLED <<HandlerStep>>_vars

\* An error of a supervised function, a signal or a fatal log entry ends the
\* process, also when it comes before the handler is there, when errChan is full,
\* or when goroutines hang.  Only the service's own code can prevent it: what of it
\* runs on main, when it blocks before the handler is there, and Stop, when it
\* panics or blocks on the goroutine that listens for trouble.
TroubleEndsProcess ==
    Trouble ~> (Ended \/ main = "hung" \/ handler \in {"panicked", "hung"})

\* Done() is closed once all supervised goroutines have exited, those that were
\* started during the shutdown included; only a health request, which runs on a
\* goroutine the supervisor does not know, can start one afterwards.
DoneMeansAllDone ==
    doneCh /\ (\E w \in Workers : worker[w] \in {"running", "hung"})
        => \E p \in Probes : probe[p] \in {"health", "healthy", "unavailable"}
=============================================================================
