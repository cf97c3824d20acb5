------------------------------- MODULE Process -------------------------------
(***************************************************************************)
(* The lifecycle controller SWA::Process (src/architecture/swa/src/        *)
(* Process.cc): startup hooks, initialise(), runSchedules() with its       *)
(* schedule files and cooperative shutdown checks, endInitialisation(),    *)
(* endStartup() with its signal handlers, and mainLoop() serving runService*)
(* and pause requests, with forceTerminate() as the path of every fatal    *)
(* exception.  Each guarded scope is a ProcessingThread unit (instanced).  *)
(*                                                                         *)
(* Everything runs on one strand; the only concurrency is the delivery of  *)
(* SIGINT and SIGTERM, which may happen between any two steps.  The order  *)
(* of the phases and the catch around them belong to the generated main    *)
(* program, which is not part of the repository: they follow spec 4.5/7.  *)
(***************************************************************************)
EXTENDS Naturals, Sequences, FiniteSets

CONSTANTS MaxUnits, Listeners, Throwing,  \* of the ProcessingThread units
          ThreadSlots,         \* the thread listener slots connected at startup
          PreInit, PostInit,   \* -preinit / -postinit schedule files, in order
          Contents,            \* what a schedule file may hold: whether it is
                               \* readable, valid, and its number of actions
          ActionsMayThrow,     \* whether a schedule action may throw
          HookThrowing,        \* the process hooks whose slots may throw
          MaxEvents,           \* requests served by the main loop
          MaxSignals,          \* signals delivered to the process
          InitialDisposition   \* dispositions the environment may leave

VARIABLES cur, at, inProgress, raised, monitor, heard, slots

(* The thread listeners are connected before runStartup(), as the domain   *)
(* libraries load; no register*Listener call is made afterwards.           *)
PT == INSTANCE ProcessingThread WITH MaxSlots <- 0

VARIABLES pc,          \* the program point of the single strand
          content,     \* the content of each schedule file (fixed)
          stage,       \* "pre" or "post": which file list runSchedules walks
          file,        \* index of the schedule file being run
          act,         \* index of the next action of the running schedule
          shutdownRequested,
          fired,       \* number of emissions of each process hook
          ran,         \* schedule actions executed
          events,      \* main-loop requests served
          disp,        \* disposition of SIGINT and SIGTERM
          sent,        \* signals delivered
          envDisp,     \* history: the dispositions the environment left
          cleaned      \* history: quitWithCleanup has run

guardVars == <<cur, at, inProgress, raised, monitor, heard, slots>>
schedVars == <<content, stage, file, act>>
countVars == <<fired, ran, events>>
sigVars == <<disp, sent, envDisp, cleaned>>
vars == <<guardVars, pc, schedVars, shutdownRequested, countVars, sigVars>>

Files == {PreInit[i] : i \in DOMAIN PreInit} \cup {PostInit[i] : i \in DOMAIN PostInit}
Hook == {"starting", "initialising", "preSchedules", "preSchedule", "postSchedule",
         "nextSchedulePhase", "postSchedules", "initialised", "started", "shutdown"}
Sig == {"SIGINT", "SIGTERM"}
Disposition == {"Default", "Ignore", "Custom", "quitWithCleanup"}
Dead == {"exited", "killed", "terminated"}

FileContent == [readable : BOOLEAN, valid : BOOLEAN, actions : Nat]

ASSUME /\ Contents \subseteq FileContent
       /\ HookThrowing \subseteq Hook /\ ActionsMayThrow \in BOOLEAN
       /\ InitialDisposition \subseteq Disposition \ {"quitWithCleanup"}

MaxActions == CHOOSE n \in {c.actions : c \in Contents} : \A c \in Contents : c.actions <= n

Schedules(s) == IF s = "pre" THEN PreInit ELSE PostInit
CurFile == Schedules(stage)[file]
Alive == pc \notin Dead /\ at # "crashed"

Emit(h) == fired' = [fired EXCEPT ![h] = @ + 1]

(* Process::requestShutdown (declared in swa/Process.hh, outside src/):    *)
(* sets shutdownRequested; it also lets ioContext.run() return (spec 4.5). *)
RequestShutdown == shutdownRequested' = TRUE
MayThrow(h) == IF h \in HookThrowing THEN BOOLEAN ELSE {FALSE}

(* Emit hook h; a throwing slot sends the strand to forceTerminate(), else *)
(* it goes on at program point next.                                       *)
EmitThen(h, next) ==
  /\ Emit(h)
  /\ \E thrown \in MayThrow(h) : pc' = IF thrown THEN "forceTerminate" ELSE next

(* The end of a guarded scope: an exception that left it goes to           *)
(* forceTerminate(), else the strand continues at next.                    *)
Leave(p, next) ==
  /\ pc = p /\ at = "out"
  /\ pc' = IF raised THEN "forceTerminate" ELSE next

Init ==
  /\ PT!NoUnitYet /\ slots = ThreadSlots
  /\ pc = "runStartup"
  /\ content \in [Files -> Contents]
  /\ stage = "pre" /\ file = 1 /\ act = 1
  /\ shutdownRequested = FALSE
  /\ fired = [h \in Hook |-> 0]
  /\ ran = 0 /\ events = 0
  /\ disp \in [Sig -> InitialDisposition]
  /\ sent = 0
  /\ envDisp = disp /\ cleaned = FALSE

-----------------------------------------------------------------------------
(* runStartup(): starting().                                               *)
RunStartup ==
  /\ pc = "runStartup"
  /\ EmitThen("starting", "initialise")
  /\ UNCHANGED <<guardVars, schedVars, shutdownRequested, ran, events, sigVars>>

(* initialise(): ProcessingThread thread("Initialise Process"); ...        *)
OpenInitialise ==
  /\ pc = "initialise" /\ PT!Construct /\ pc' = "initialiseScope"
  /\ UNCHANGED <<schedVars, shutdownRequested, countVars, sigVars>>

(* ... initialising(); then completing(); complete() (the guard steps).    *)
InitialiseBody ==
  /\ pc = "initialiseScope"
  /\ Emit("initialising")
  /\ \E thrown \in MayThrow("initialising") : PT!EndBody(thrown)
  /\ UNCHANGED <<pc, schedVars, shutdownRequested, ran, events, sigVars>>

LeaveInitialise ==
  /\ Leave("initialiseScope", "preSchedules")
  /\ UNCHANGED <<guardVars, schedVars, shutdownRequested, countVars, sigVars>>

(* runSchedules(): preSchedules(), then each -preinit file.                *)
PreSchedules ==
  /\ pc = "preSchedules"
  /\ EmitThen("preSchedules", "runFile")
  /\ stage' = "pre" /\ file' = 1
  /\ UNCHANGED <<guardVars, content, act, shutdownRequested, ran, events, sigVars>>

(* runScheduleFile(fileName): nothing once shutdown is requested; an       *)
(* unreadable file is reported and ignored, an invalid schedule skipped;   *)
(* a valid one goes to runSchedule(), which begins with preSchedule().     *)
RunScheduleFile ==
  /\ pc = "runFile" /\ file <= Len(Schedules(stage))
  /\ IF ~shutdownRequested /\ content[CurFile].readable /\ content[CurFile].valid
       THEN /\ EmitThen("preSchedule", "schedule")
            /\ act' = 1
            /\ UNCHANGED file
       ELSE /\ file' = file + 1
            /\ UNCHANGED <<pc, fired, act>>
  /\ UNCHANGED <<guardVars, content, stage, shutdownRequested, ran, events, sigVars>>

(* Mutant: a loop that does not stop at the end of the actions.            *)
RunActionPastEnd ==
  /\ pc = "schedule" /\ ~shutdownRequested
  /\ ran' = ran + 1 /\ act' = act + 1
  /\ \/ UNCHANGED <<pc, shutdownRequested>>
     \/ RequestShutdown /\ UNCHANGED pc
     \/ ActionsMayThrow /\ pc' = "forceTerminate" /\ UNCHANGED shutdownRequested
  /\ UNCHANGED <<guardVars, content, stage, file, fired, events, sigVars>>

(* runSchedule(): one iteration of the loop that runs the actions in       *)
(* order while shutdownRequested is false.  An action may return, ask for  *)
(* shutdown (Process::requestShutdown) or throw.                           *)
RunAction ==
  /\ pc = "schedule" /\ act <= content[CurFile].actions /\ ~shutdownRequested
  /\ ran' = ran + 1 /\ act' = act + 1
  /\ \/ UNCHANGED <<pc, shutdownRequested>>
     \/ RequestShutdown /\ UNCHANGED pc
     \/ ActionsMayThrow /\ pc' = "forceTerminate" /\ UNCHANGED shutdownRequested
  /\ UNCHANGED <<guardVars, content, stage, file, fired, events, sigVars>>

(* Mutant: runSchedule returning early, without postSchedule(), when      *)
(* shutdown is requested.                                                  *)
EndScheduleSkipsPost ==
  /\ pc = "schedule" /\ (act > content[CurFile].actions \/ shutdownRequested)
  /\ IF shutdownRequested THEN pc' = "runFile" /\ UNCHANGED fired
     ELSE EmitThen("postSchedule", "runFile")
  /\ file' = file + 1
  /\ UNCHANGED <<guardVars, content, stage, act, shutdownRequested, ran, events, sigVars>>

(* runSchedule(): the loop ends - all actions run or shutdown requested -  *)
(* and postSchedule() is emitted; the for_each moves to the next file.     *)
EndSchedule ==
  /\ pc = "schedule" /\ (act > content[CurFile].actions \/ shutdownRequested)
  /\ EmitThen("postSchedule", "runFile")
  /\ file' = file + 1
  /\ UNCHANGED <<guardVars, content, stage, act, shutdownRequested, ran, events, sigVars>>

(* runSchedules(): after the -preinit files, startNextSchedulePhase();     *)
(* after the -postinit files, postSchedules().                             *)
EndFiles ==
  /\ pc = "runFile" /\ file > Len(Schedules(stage))
  /\ pc' = IF stage = "pre" THEN "nextPhase" ELSE "postSchedules"
  /\ UNCHANGED <<guardVars, schedVars, shutdownRequested, countVars, sigVars>>

(* Mutant: startNextSchedulePhase without its shutdown check.              *)
StartNextSchedulePhaseUnchecked ==
  /\ pc = "nextPhase"
  /\ PT!Construct /\ pc' = "nextPhaseScope"
  /\ UNCHANGED <<content, stage, file, act, shutdownRequested, countVars, sigVars>>

(* startNextSchedulePhase(): unless shutdown is requested, a guarded scope *)
(* "Run NextSchedulePhase" emitting nextSchedulePhase().                   *)
StartNextSchedulePhase ==
  /\ pc = "nextPhase"
  /\ IF shutdownRequested
       THEN /\ pc' = "runFile" /\ stage' = "post" /\ file' = 1
            /\ UNCHANGED guardVars
       ELSE /\ PT!Construct /\ pc' = "nextPhaseScope"
            /\ UNCHANGED <<stage, file>>
  /\ UNCHANGED <<content, act, shutdownRequested, countVars, sigVars>>

NextSchedulePhaseBody ==
  /\ pc = "nextPhaseScope"
  /\ Emit("nextSchedulePhase")
  /\ \E thrown \in MayThrow("nextSchedulePhase") : PT!EndBody(thrown)
  /\ UNCHANGED <<pc, schedVars, shutdownRequested, ran, events, sigVars>>

LeaveNextSchedulePhase ==
  /\ Leave("nextPhaseScope", "runFile")
  /\ stage' = "post" /\ file' = 1
  /\ UNCHANGED <<guardVars, content, act, shutdownRequested, countVars, sigVars>>

(* runSchedules(): postSchedules(); endInitialisation(): initialised().    *)
PostSchedules ==
  /\ pc = "postSchedules"
  /\ EmitThen("postSchedules", "endInitialisation")
  /\ UNCHANGED <<guardVars, schedVars, shutdownRequested, ran, events, sigVars>>

EndInitialisation ==
  /\ pc = "endInitialisation"
  /\ EmitThen("initialised", "endStartup")
  /\ UNCHANGED <<guardVars, schedVars, shutdownRequested, ran, events, sigVars>>

(* endStartup(): started(); a throwing slot goes to forceTerminate().    *)
EndStartup ==
  /\ pc = "endStartup"
  /\ EmitThen("started", "probeSIGINT")
  /\ UNCHANGED <<guardVars, schedVars, shutdownRequested, ran, events, sigVars>>

(* endStartup(), for SIGINT then SIGTERM: signal(sig, SIG_IGN) is one      *)
(* system call and, unless it returned SIG_IGN, signal(sig,                *)
(* quitWithCleanup) is a second one; a signal can arrive in between.       *)
AfterSig(s) == IF s = "SIGINT" THEN "probeSIGTERM" ELSE "mainLoop"

ProbeSignal(s) ==
  /\ pc = "probe" \o s
  /\ disp' = [disp EXCEPT ![s] = "Ignore"]
  /\ pc' = IF disp[s] = "Ignore" THEN AfterSig(s) ELSE "install" \o s
  /\ UNCHANGED <<guardVars, schedVars, shutdownRequested, countVars, sent, envDisp, cleaned>>

InstallSignal(s) ==
  /\ pc = "install" \o s
  /\ disp' = [disp EXCEPT ![s] = "quitWithCleanup"]
  /\ pc' = AfterSig(s)
  /\ UNCHANGED <<guardVars, schedVars, shutdownRequested, countVars, sent, envDisp, cleaned>>

(* mainLoop(): ioContext.run() dispatches a request on the strand: a       *)
(* runService() or a pause(), each a guarded scope.                        *)
ServeRequest ==
  /\ pc = "mainLoop" /\ events < MaxEvents
  /\ PT!Construct
  /\ \E kind \in {"service", "pause"} : pc' = kind
  /\ events' = events + 1
  /\ UNCHANGED <<schedVars, shutdownRequested, fired, ran, sigVars>>

(* runService(): service() returns, asks for shutdown or throws; the       *)
(* console is restored and queued events processed on return.             *)
ServiceBody ==
  /\ pc = "service" /\ at = "body"
  /\ \/ PT!EndBody(FALSE) /\ UNCHANGED shutdownRequested
     \/ PT!EndBody(FALSE) /\ RequestShutdown
     \/ PT!EndBody(TRUE) /\ UNCHANGED shutdownRequested
  /\ UNCHANGED <<pc, schedVars, countVars, sigVars>>

(* pause(): ProcessMonitor::pauseRequested(), then queued events.          *)
PauseBody ==
  /\ pc = "pause" /\ at = "body"
  /\ monitor' = Append(monitor, <<cur, "pauseRequested">>)
  /\ at' = "completing"
  /\ UNCHANGED <<cur, inProgress, raised, heard, slots>>
  /\ UNCHANGED <<pc, schedVars, shutdownRequested, countVars, sigVars>>

LeaveRequest ==
  /\ \E p \in {"service", "pause"} : Leave(p, "mainLoop")
  /\ UNCHANGED <<guardVars, schedVars, shutdownRequested, countVars, sigVars>>

(* Mutant: mainLoop() that returns from run() without shutdown().         *)
MainLoopReturnsSilently ==
  /\ pc = "mainLoop" /\ shutdownRequested
  /\ pc' = "exited"
  /\ UNCHANGED <<guardVars, schedVars, shutdownRequested, countVars, sigVars>>

(* mainLoop(): run() returns once shutdown is requested (spec 4.5:         *)
(* requestShutdown stops the loop); then shutdown().                       *)
MainLoopReturns ==
  /\ pc = "mainLoop" /\ shutdownRequested
  /\ EmitThen("shutdown", "exited")
  /\ UNCHANGED <<guardVars, schedVars, shutdownRequested, ran, events, sigVars>>

(* forceTerminate(): shutdown(); exit(0).  An exception out of the         *)
(* shutdown hooks is reported and rethrown from main's handler.            *)
ForceTerminate ==
  /\ pc = "forceTerminate"
  /\ Emit("shutdown")
  /\ \E thrown \in MayThrow("shutdown") : pc' = IF thrown THEN "terminated" ELSE "exited"
  /\ UNCHANGED <<guardVars, schedVars, shutdownRequested, ran, events, sigVars>>

(* The guard's own steps inside any of the scopes above.                   *)
GuardStep ==
  /\ Alive
  /\ PT!Completing \/ PT!Complete \/ PT!Destroy
  /\ UNCHANGED <<pc, schedVars, shutdownRequested, countVars, sigVars>>

(* Delivery of a signal: SIG_DFL kills the process where it stands;        *)
(* quitWithCleanup resets both signals to SIG_DFL and requests shutdown.   *)
Deliver(s) ==
  /\ Alive /\ sent < MaxSignals
  /\ sent' = sent + 1
  /\ CASE disp[s] = "Default" -> pc' = "killed" /\ UNCHANGED <<disp, shutdownRequested, cleaned>>
       [] disp[s] = "quitWithCleanup" ->
            /\ disp' = [x \in Sig |-> "Default"]
            /\ RequestShutdown
            /\ cleaned' = TRUE
            /\ UNCHANGED pc
       [] OTHER -> UNCHANGED <<pc, disp, shutdownRequested, cleaned>>
  /\ UNCHANGED <<guardVars, schedVars, countVars, envDisp>>

-----------------------------------------------------------------------------
(* The strand's steps: what the program does by itself.                    *)
ProgramStep ==
  \/ RunStartup \/ OpenInitialise \/ InitialiseBody \/ LeaveInitialise
  \/ PreSchedules \/ RunScheduleFile \/ RunAction \/ EndSchedule \/ EndFiles
  \/ StartNextSchedulePhase \/ NextSchedulePhaseBody \/ LeaveNextSchedulePhase
  \/ PostSchedules \/ EndInitialisation \/ EndStartup
  \/ \E s \in Sig : ProbeSignal(s) \/ InstallSignal(s)
  \/ ServiceBody \/ PauseBody \/ LeaveRequest \/ MainLoopReturns
  \/ ForceTerminate \/ GuardStep

(* The process is gone, or its loop waits for requests that never come.    *)
Quiescent ==
  \/ ~Alive
  \/ pc = "mainLoop" /\ ~shutdownRequested /\ events = MaxEvents

Next ==
  \/ ProgramStep
  \/ ServeRequest
  \/ \E s \in Sig : Deliver(s)
  \/ Quiescent /\ UNCHANGED vars

(* The strand runs each handler to completion (spec 5); requests and       *)
(* signals come from outside and are not assumed to happen.                *)
Spec == Init /\ [][Next]_vars /\ WF_vars(ProgramStep)

-----------------------------------------------------------------------------
TypeOK ==
  /\ PT!TypeOK
  /\ content \in [Files -> Contents]
  /\ stage \in {"pre", "post"}
  /\ file \in 1..(Len(Schedules(stage)) + 1)
  /\ shutdownRequested \in BOOLEAN
  /\ fired \in [Hook -> Nat]
  /\ act \in 1..(MaxActions + 1)
  /\ ran \in Nat /\ events \in 0..MaxEvents
  /\ disp \in [Sig -> Disposition]
  /\ sent \in 0..MaxSignals
  /\ envDisp \in [Sig -> InitialDisposition] /\ cleaned \in BOOLEAN

(* Every preSchedule() is matched by a postSchedule() (spec 4.4, 5):       *)
(* outside runSchedule the two hooks have fired equally often, whether the *)
(* schedule ran to its end or was cut short by a shutdown request.  (A     *)
(* SIG_DFL kill may of course stop the strand inside runSchedule.)          *)
ScheduleHooksPaired ==
  pc \notin {"schedule", "killed"} => fired["preSchedule"] = fired["postSchedule"]

(* Cooperative cancellation (spec 4.4, 8): once shutdown is requested no   *)
(* schedule is begun, no schedule action runs and no next schedule phase   *)
(* is entered - the checks of runScheduleFile, of the loop of runSchedule  *)
(* and of startNextSchedulePhase together.                                 *)
NoScheduleWorkAfterShutdown ==
  [][shutdownRequested =>
       /\ ran' = ran
       /\ fired'["preSchedule"] = fired["preSchedule"]
       /\ fired'["nextSchedulePhase"] = fired["nextSchedulePhase"]]_vars

(* A shutdown request - from a schedule action, a service or a signal -    *)
(* leads to the shutdown hooks, through the remaining startup and the main *)
(* loop or through forceTerminate, unless the process is killed or dies in *)
(* std::terminate.                                                         *)
ShutdownHooksRun ==
  shutdownRequested ~> (fired["shutdown"] > 0 \/ pc = "killed" \/ at = "crashed")

(* The disposition rule of endStartup() and quitWithCleanup (spec 4.5,   *)
(* 6): once the main loop runs, a signal the environment had given a      *)
(* handler of its own or SIG_IGN still has it (or SIG_DFL, after a        *)
(* graceful signal reset both); a signal it had left at SIG_DFL is caught *)
(* by quitWithCleanup until a first signal has been handled, and is back  *)
(* at SIG_DFL after that, so that a second signal kills.  Both the probe  *)
(* that overwrites a custom handler and a SIGINT handled between          *)
(* SIGTERM's probe and its install (which re-arms SIGTERM) break it.      *)
Expected(s) ==
  IF envDisp[s] = "Default"
    THEN {IF cleaned THEN "Default" ELSE "quitWithCleanup"}
    ELSE {envDisp[s]} \cup (IF cleaned THEN {"Default"} ELSE {})

DispositionsAsSpecified ==
  \A s \in Sig : pc = "mainLoop" => disp[s] \in Expected(s)

(* quitWithCleanup is installed so that SIGINT and SIGTERM stop the       *)
(* process (spec 4.5, 6): where the environment left both signals at     *)
(* SIG_DFL, every signal delivered either kills the process or requests  *)
(* shutdown.  endStartup's probe puts SIG_IGN in place before it installs *)
(* quitWithCleanup, and a signal that arrives in between is discarded.   *)
SignalTakesEffect ==
  [][(sent' = sent + 1 /\ \A s \in Sig : envDisp[s] = "Default")
       => (shutdownRequested' \/ pc' = "killed")]_vars

(* mainLoop fires the shutdown listeners exactly once (spec 4.5): a        *)
(* shutdown slot that throws out of mainLoop() reaches main's handler,     *)
(* whose forceTerminate() fires shutdown() a second time.                  *)
ShutdownHooksOnce == fired["shutdown"] <= 1

=============================================================================
