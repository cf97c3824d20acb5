--------------------------- MODULE MonitorProtocol ---------------------------
(***************************************************************************)
(* What the ProcessMonitor is promised about units of work (spec 4.2, 8),  *)
(* as the sequence of calls it receives: units are numbered in the order   *)
(* they start, at most one unit is open at a time, an open unit may report *)
(* progress (threadCompleting, pauseRequested), and it ends with exactly   *)
(* one outcome, after which nothing more is said about it.  Under weak     *)
(* fairness every unit that starts ends.                                   *)
(***************************************************************************)
EXTENDS Naturals, Sequences, FiniteSets

VARIABLES monitor   \* the calls received, in order: <<unit, call>>

Outcome == {"threadCompleted", "threadAborted"}
Progress == {"threadCompleting", "pauseRequested"}

Started == {i \in DOMAIN monitor : monitor[i][2] = "threadStarted"}
Ended(u) == \E i \in DOMAIN monitor : monitor[i][1] = u /\ monitor[i][2] \in Outcome

(* The units started and not yet ended.                                    *)
Open == {monitor[i][1] : i \in Started} \ {u \in Nat : Ended(u)}

MPInit == monitor = <<>>

StartUnit ==
  /\ Open = {}
  /\ monitor' = Append(monitor, <<Cardinality(Started) + 1, "threadStarted">>)

ReportProgress == \E u \in Open, c \in Progress : monitor' = Append(monitor, <<u, c>>)

EndUnit == \E u \in Open, o \in Outcome : monitor' = Append(monitor, <<u, o>>)

MPNext == StartUnit \/ ReportProgress \/ EndUnit

MPSpec == MPInit /\ [][MPNext]_monitor /\ WF_monitor(EndUnit)
=============================================================================
