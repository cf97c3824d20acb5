------------------------------ MODULE MCProcess ------------------------------
(* Model-checking instance of Process: one -preinit and one -postinit      *)
(* schedule file, each missing, invalid or holding up to two actions; one  *)
(* main-loop request and two signals (a graceful one and a second one).    *)
EXTENDS Process

CONSTANTS f1, f2,  \* schedule file names (model values)
          lp       \* a listener function connected to every thread signal

MCPreInit == <<f1>>
MCPostInit == <<f2>>
MCContents ==
  {[readable |-> FALSE, valid |-> FALSE, actions |-> 0],
   [readable |-> TRUE, valid |-> FALSE, actions |-> 0]}
  \cup [readable : {TRUE}, valid : {TRUE}, actions : 0..2]

(* initialise, the next schedule phase and one request are guarded scopes. *)
MCMaxUnits == 3
MCMaxEvents == 1
MCMaxSignals == 2

MCListeners == {lp}
MCThreadSlots == [s \in {"threadStarted", "threadCompleting", "threadCompleted",
                         "threadAborted"} |-> <<lp>>]

(* Slots at completion, of initialising and of nextSchedulePhase may       *)
(* throw, as may services; preSchedule and threadStarted slots do not.     *)
MCThrowing == {<<"threadCompleting", lp>>, <<"threadCompleted", lp>>}
MCHookThrowing == {"initialising", "nextSchedulePhase", "shutdown"}

MCDispositions == {"Default", "Ignore"}
MCDispositionsCustom == {"Default", "Custom"}
MCDispositionsDefault == {"Default"}
=============================================================================
