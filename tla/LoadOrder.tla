------------------------------ MODULE LoadOrder ------------------------------
(***************************************************************************)
(* What the module loader promises (spec 4.3): once the set of domain     *)
(* libraries to load is fixed, with the files that exist and what each    *)
(* library needs, they are loaded one at a time, a library only once      *)
(* every library it needs is loaded, and loading stops as failed only     *)
(* when no remaining library can be loaded.  Under weak fairness it       *)
(* always ends, loaded or failed.                                          *)
(***************************************************************************)
EXTENDS FiniteSets

CONSTANTS Libs                 \* the library files there may be
VARIABLES needs,               \* the libraries each library needs
          present,             \* the libraries whose file exists
          todo,                \* the libraries still to load
          loaded,              \* the libraries loaded so far
          failed               \* loading gave up

absVars == <<needs, present, todo, loaded, failed>>

(* A library dlopen can load now: its file exists and all it needs is in. *)
CanLoad(l) == l \in present /\ needs[l] \subseteq loaded

AbsInit ==
  /\ needs = [l \in Libs |-> {}]
  /\ present = {}
  /\ todo = {} /\ loaded = {}
  /\ failed = FALSE

(* Loading starts: the libraries to load, and the files and dependencies *)
(* it will meet, are fixed.                                                *)
Begin(S) ==
  /\ ~failed /\ todo = {} /\ loaded = {}
  /\ needs' \in [Libs -> SUBSET Libs] /\ \A l \in Libs : l \notin needs'[l]
  /\ present' \in SUBSET Libs
  /\ todo' = S
  /\ UNCHANGED <<loaded, failed>>

Load(l) ==
  /\ ~failed /\ l \in todo /\ CanLoad(l)
  /\ loaded' = loaded \cup {l}
  /\ todo' = todo \ {l}
  /\ UNCHANGED <<needs, present, failed>>

GiveUp ==
  /\ ~failed /\ todo # {}
  /\ \A l \in todo : ~CanLoad(l)
  /\ failed' = TRUE
  /\ UNCHANGED <<needs, present, todo, loaded>>

LoadStep == (\E l \in Libs : Load(l)) \/ GiveUp

AbsNext == (\E S \in SUBSET Libs : Begin(S)) \/ LoadStep

AbsSpec == AbsInit /\ [][AbsNext]_absVars /\ WF_absVars(LoadStep)
=============================================================================
