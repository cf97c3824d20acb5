-------------------------- MODULE ProcessingThread --------------------------
(***************************************************************************)
(* The unit-of-work guard SWA::Process::ProcessingThread                   *)
(* (src/architecture/swa/src/Process.cc, lines 308-342).                   *)
(*                                                                         *)
(* A guard is a stack object: its constructor tells the ProcessMonitor and *)
(* the threadStarted listeners that a unit of work began; completing(),    *)
(* complete() and abort() notify listeners first and the monitor second;   *)
(* the destructor aborts the unit if it is still in progress.  Listener    *)
(* slots are boost::signals2 slots, so a slot that throws stops the signal *)
(* and the exception leaves the member function before the monitor is     *)
(* told.  A throw out of the destructor (which is noexcept) ends the       *)
(* process through std::terminate.                                         *)
(*                                                                         *)
(* Units are opened one after another (a guard is a local of one          *)
(* function on the single strand); unit u is the u-th guard constructed.   *)
(* The generic scope body (EndBody, Abort) stands for any client of the    *)
(* guard; Process.tla supplies the scope bodies of Process.cc.            *)
(***************************************************************************)
EXTENDS Naturals, Sequences, FiniteSets, SequencesExt

CONSTANTS MaxUnits,   \* how many guarded scopes are opened in a behaviour
          Listeners,  \* the functions that may be registered as slots
          Throwing,   \* the <<signal, listener>> slots that may throw
          MaxSlots    \* how many register*Listener calls are made

Signal == {"threadStarted", "threadCompleting", "threadCompleted", "threadAborted"}
Outcome == {"threadCompleted", "threadAborted"}
MonitorCall == Signal \cup {"pauseRequested"}  \* pause() also tells the monitor

ASSUME MaxUnits \in Nat /\ MaxSlots \in Nat /\ Throwing \subseteq Signal \X Listeners

VARIABLES cur,         \* the last unit whose guard was constructed (0: none)
          at,          \* control point inside the scope of unit cur
          inProgress,  \* ProcessingThread::inProgress of unit cur
          raised,      \* the scope of unit cur was left by an exception
          monitor,     \* ProcessMonitor calls, in order: <<unit, signal>>
          heard,       \* slot calls, in order: <<unit, signal, listener>>
          slots        \* the connected slots of each signal, in order

ptVars == <<cur, at, inProgress, raised, monitor, heard, slots>>

Units == 1..MaxUnits
Point == {"out", "body", "completing", "complete", "exit", "unwind", "crashed"}

(* How an emission of sig can end (boost::signals2: the slots are called   *)
(* in connection order and a throwing slot stops the signal): all slots    *)
(* called, or the ones up to a slot that may throw, which throws.          *)
Emission(sig) ==
  {[upto |-> Len(slots[sig]), thrown |-> FALSE]}
  \cup {[upto |-> i, thrown |-> TRUE] :
        i \in {j \in 1..Len(slots[sig]) : <<sig, slots[sig][j]>> \in Throwing}}

(* The slots called by emission e of sig for unit u.                       *)
Emit(u, sig, e) == heard' = heard \o [i \in 1..e.upto |-> <<u, sig, slots[sig][i]>>]
Tell(sig) == monitor' = Append(monitor, <<cur, sig>>)

(* Units whose scope has been left, normally or by an exception.           *)
Closed == IF at = "out" THEN 1..cur ELSE 1..(cur - 1)

(* No guard has been constructed yet.                                      *)
NoUnitYet ==
  /\ cur = 0
  /\ at = "out"
  /\ inProgress = FALSE
  /\ raised = FALSE
  /\ monitor = <<>>
  /\ heard = <<>>

PTInit == NoUnitYet /\ slots = [s \in Signal |-> <<>>]

SlotCount == FoldFunction(LAMBDA q, n : Len(q) + n, 0, slots)

(* register{ThreadStarted,ThreadCompleting,ThreadCompleted,ThreadAborted}  *)
(* Listener(f): sig.connect(f) appends a slot; the same function may be    *)
(* connected twice.  Registration happens at startup (spec 5), before the  *)
(* first unit of work.                                                     *)
RegisterListener(sig, l) ==
  /\ cur = 0 /\ SlotCount < MaxSlots
  /\ slots' = [slots EXCEPT ![sig] = Append(@, l)]
  /\ UNCHANGED <<cur, at, inProgress, raised, monitor, heard>>

(* ProcessingThread(name): inProgress(true); monitor.threadStarted();      *)
(* threadStarted(name).  A throwing slot aborts the construction, so no    *)
(* destructor runs for this unit.                                          *)
Construct ==
  /\ at = "out"
  /\ cur < MaxUnits
  /\ cur' = cur + 1
  /\ inProgress' = TRUE
  /\ monitor' = Append(monitor, <<cur + 1, "threadStarted">>)
  /\ \E e \in Emission("threadStarted") :
       /\ Emit(cur + 1, "threadStarted", e)
       /\ at' = IF e.thrown THEN "out" ELSE "body"
       /\ raised' = e.thrown
  /\ UNCHANGED slots

(* The end of the scope's own work: return normally or throw.              *)
EndBody(thrown) ==
  /\ at = "body"
  /\ at' = IF thrown THEN "unwind" ELSE "completing"
  /\ UNCHANGED <<cur, inProgress, raised, monitor, heard, slots>>

(* completing(): if inProgress, threadCompleting() then the monitor.       *)
Completing ==
  /\ at = "completing"
  /\ IF inProgress
       THEN \E e \in Emission("threadCompleting") :
              /\ Emit(cur, "threadCompleting", e)
              /\ IF e.thrown THEN at' = "unwind" /\ UNCHANGED monitor
                 ELSE at' = "complete" /\ Tell("threadCompleting")
       ELSE at' = "complete" /\ UNCHANGED <<monitor, heard>>
  /\ UNCHANGED <<cur, inProgress, raised, slots>>

(* The body shared by complete() (sig threadCompleted, normal end "exit")  *)
(* and abort() (threadAborted): if inProgress, the listeners, then the     *)
(* monitor, then inProgress = false; a throwing slot leaves inProgress set *)
(* and the monitor untold.                                                 *)
Finish(sig) ==
  /\ IF inProgress
       THEN \E e \in Emission(sig) :
              /\ Emit(cur, sig, e)
              /\ IF e.thrown THEN at' = "unwind" /\ UNCHANGED <<monitor, inProgress>>
                 ELSE at' = "exit" /\ Tell(sig) /\ inProgress' = FALSE
       ELSE at' = "exit" /\ UNCHANGED <<monitor, heard, inProgress>>
  /\ UNCHANGED <<cur, raised, slots>>

(* Mutant: complete() that forgets inProgress = false.                    *)
CompleteKeepsInProgress ==
  /\ at = "complete"
  /\ IF inProgress
       THEN \E e \in Emission("threadCompleted") :
              /\ Emit(cur, "threadCompleted", e)
              /\ IF e.thrown THEN at' = "unwind" /\ UNCHANGED monitor
                 ELSE at' = "exit" /\ Tell("threadCompleted")
       ELSE at' = "exit" /\ UNCHANGED <<monitor, heard>>
  /\ UNCHANGED <<cur, raised, slots, inProgress>>

(* complete().                                                             *)
Complete == at = "complete" /\ Finish("threadCompleted")

(* abort(), called by the scope's own work.                                *)
Abort == at = "body" /\ Finish("threadAborted")

(* Mutant: a destructor that tells only the monitor.                      *)
DestroyMonitorOnly ==
  /\ at \in {"exit", "unwind"}
  /\ at' = "out"
  /\ raised' = (at = "unwind")
  /\ IF inProgress THEN Tell("threadAborted") ELSE UNCHANGED monitor
  /\ inProgress' = FALSE
  /\ UNCHANGED <<cur, heard, slots>>

(* Mutant: a destructor that tells the listeners only.                    *)
DestroyListenersOnly ==
  /\ at \in {"exit", "unwind"}
  /\ IF inProgress
       THEN \E e \in Emission("threadAborted") :
              /\ Emit(cur, "threadAborted", e)
              /\ IF e.thrown THEN at' = "crashed" /\ UNCHANGED <<inProgress, raised>>
                 ELSE at' = "out" /\ inProgress' = FALSE /\ raised' = (at = "unwind")
       ELSE /\ at' = "out"
            /\ raised' = (at = "unwind")
            /\ UNCHANGED <<heard, inProgress>>
  /\ UNCHANGED <<cur, slots, monitor>>

(* ~ProcessingThread(): if inProgress, threadAborted() then the monitor.   *)
(* It runs at the normal end of the scope and while an exception unwinds   *)
(* it; a slot throwing out of the destructor calls std::terminate.         *)
Destroy ==
  /\ at \in {"exit", "unwind"}
  /\ IF inProgress
       THEN \E e \in Emission("threadAborted") :
              /\ Emit(cur, "threadAborted", e)
              /\ IF e.thrown THEN at' = "crashed" /\ UNCHANGED <<monitor, inProgress, raised>>
                 ELSE /\ at' = "out"
                      /\ Tell("threadAborted")
                      /\ inProgress' = FALSE
                      /\ raised' = (at = "unwind")
       ELSE /\ at' = "out"
            /\ raised' = (at = "unwind")
            /\ UNCHANGED <<monitor, heard, inProgress>>
  /\ UNCHANGED <<cur, slots>>

-----------------------------------------------------------------------------
(* Registration at startup, then client scopes: construct a guard, do the  *)
(* work (which may throw or call abort()), then completing(); complete();  *)
(* and leave the scope.                                                    *)

Done == (at = "out" /\ cur = MaxUnits) \/ at = "crashed"

PTNext ==
  \/ \E sig \in Signal, l \in Listeners : RegisterListener(sig, l)
  \/ Construct
  \/ \E thrown \in BOOLEAN : EndBody(thrown)
  \/ Abort
  \/ Completing
  \/ Complete
  \/ Destroy
  \/ Done /\ UNCHANGED ptVars

PTSpec == PTInit /\ [][PTNext]_ptVars /\ WF_ptVars(PTNext)

-----------------------------------------------------------------------------
TypeOK ==
  /\ cur \in 0..MaxUnits
  /\ at \in Point
  /\ inProgress \in BOOLEAN
  /\ raised \in BOOLEAN
  /\ monitor \in Seq(Units \X MonitorCall)
  /\ heard \in Seq(Units \X Signal \X Listeners)
  /\ slots \in [Signal -> Seq(Listeners)]

(* The positions of a log at which unit u got one of the signals S, and    *)
(* those of them at which listener l was called.                           *)
Hits(log, u, S) == {i \in DOMAIN log : log[i][1] = u /\ log[i][2] \in S}
HeardBy(l, u, S) == {i \in Hits(heard, u, S) : heard[i][3] = l}

(* Exactly-once (spec 4.2, 8): the monitor never hears two outcomes for a  *)
(* unit, and every unit whose scope has been left - by return, by abort()  *)
(* or by an exception out of the body, completing() or complete() - got    *)
(* exactly one threadCompleted or threadAborted.                           *)
MonitorOutcomeOnce ==
  \A u \in 1..cur :
    /\ Cardinality(Hits(monitor, u, Outcome)) <= 1
    /\ u \in Closed => Cardinality(Hits(monitor, u, Outcome)) = 1

(* Each listener connected to threadAborted ends up agreeing with the      *)
(* monitor: the last outcome it heard for a closed unit is the monitor's   *)
(* outcome.  When a threadCompleted slot throws after some slots heard     *)
(* "completed", the destructor's threadAborted reaches every aborted slot  *)
(* and then the monitor.                                                   *)
ListenersAgreeWithMonitor ==
  \A u \in Closed, l \in Range(slots["threadAborted"]) :
    \A i \in Hits(monitor, u, Outcome) :
      HeardBy(l, u, Outcome) # {} =>
        heard[Max(HeardBy(l, u, Outcome))][2] = monitor[i][2]

(* Each unit ends one way for its listeners, as the spec says of complete() *)
(* and abort() (4.2): no listener function hears both threadCompleted and  *)
(* threadAborted for one unit.  A function connected twice hears the same  *)
(* outcome twice (spec 3: no de-duplication), which is not two outcomes.   *)
OutcomesHeard(l, u) == {heard[i][2] : i \in HeardBy(l, u, Outcome)}

ListenerOutcomeOnce ==
  \A u \in 1..cur, l \in Listeners : Cardinality(OutcomesHeard(l, u)) <= 1

(* The guard keeps the ProcessMonitor's protocol (MonitorProtocol): it is  *)
(* told of one unit at a time, each unit's outcome comes once and last,    *)
(* and every unit started - whether its scope returns, calls abort() or is *)
(* left by an exception from its body, completing() or complete() - ends. *)
MP == INSTANCE MonitorProtocol
MonitorProtocolRefined == MP!MPSpec
=============================================================================
