----------------------------- MODULE ModuleLoader -----------------------------
(***************************************************************************)
(* Process::loadDynamicLibraries and Process::loadDynamicProjectLibrary    *)
(* (src/architecture/swa/src/Process.cc, lines 344-414).                   *)
(*                                                                         *)
(* The domain libraries are kept in a std::set<std::string>, walked in     *)
(* its (sorted) order; a library is a number, so the set's order is <.    *)
(* dlopen(RTLD_NOW | RTLD_GLOBAL) of a library succeeds when its file      *)
(* exists and every library it needs symbols from is already loaded; a     *)
(* loaded library stays loaded.  An error message is abstracted to the     *)
(* name of the library it is about.                                        *)
(***************************************************************************)
EXTENDS Naturals, Sequences, FiniteSetsExt

CONSTANTS Libs         \* the library files a domain may ask for

ASSUME Libs \subseteq (Nat \ {0})

End == 0               \* requiredDomainLibs.end()

VARIABLES needs,       \* the libraries each library needs (fixed)
          present,     \* the library files that exist (fixed)
          project,     \* loadProjectLib && projectName.size() (fixed)
          projectFound,\* the process library file exists (fixed)
          pc,          \* "start", "loop", "after", "done" or "failed"
          loaded,      \* the domain libraries dlopen has loaded
          projectLoaded,
          required,    \* requiredDomainLibs: those not loaded yet
          it,          \* domainLibIt: a member of required, or End
          errorText,   \* the libraries named in errorText, in order
          errors,
          prevErrors

vars == <<needs, present, project, projectFound, pc, loaded, projectLoaded,
          required, it, errorText, errors, prevErrors>>

(* dlopen(lib, RTLD_NOW | RTLD_GLOBAL) succeeds.                           *)
Opens(l) == l \in present /\ needs[l] \subseteq loaded

(* The libraries requiredDomainLibs was built from: each leaves required *)
(* only by being loaded.                                                   *)
Built == loaded \cup required

(* The member of S after x in the set's order, or End.                     *)
After(S, x) == LET later == {y \in S : y > x} IN IF later = {} THEN End ELSE Min(later)
Begin(S) == After(S, 0)

(* The files on disk and what each library needs are fixed; they are      *)
(* chosen when loadDynamicLibraries first looks at them, in BuildRequired. *)
Init ==
  /\ needs = [l \in Libs |-> {}] /\ present = {}
  /\ project = FALSE /\ projectFound = FALSE
  /\ pc = "start"
  /\ loaded = {} /\ projectLoaded = FALSE
  /\ required = {} /\ it = End
  /\ errorText = <<>> /\ errors = 0 /\ prevErrors = 0

(* loadDynamicLibraries: the set of the library names of the domains S,   *)
(* then the iterator at its beginning (lines 348-362).                     *)
BuildRequiredFrom(S) ==
  /\ pc = "start"
  /\ needs' \in [Libs -> SUBSET Libs] /\ \A l \in Libs : l \notin needs'[l]
  /\ present' \in SUBSET Libs
  /\ project' \in BOOLEAN /\ projectFound' \in BOOLEAN
  /\ required' = S
  /\ it' = Begin(S)
  /\ pc' = IF Begin(S) = End THEN "after" ELSE "loop"
  /\ UNCHANGED <<loaded, projectLoaded, errorText, errors, prevErrors>>

(* Mutants of one loop iteration: a restart that keeps the error count,   *)
(* one that keeps the error text, a test "fewer errors than last pass"     *)
(* (false after the first pass, whose prevErrors is 0), and a restart     *)
(* without the convergence test.                                           *)
AttemptWith(keepErrors, keepText, fewer, converge) ==
  /\ pc = "loop"
  /\ LET ok    == Opens(it)
         req1  == IF ok THEN required \ {it} ELSE required
         it1   == After(required, it)
         err1  == IF ok THEN errors ELSE errors + 1
         text1 == IF ok THEN errorText ELSE Append(errorText, it)
         again == /\ it1 = End /\ err1 > 0
                  /\ IF fewer THEN err1 < prevErrors ELSE converge => err1 # prevErrors
     IN /\ loaded' = IF ok THEN loaded \cup {it} ELSE loaded
        /\ required' = req1
        /\ it' = IF again THEN Begin(req1) ELSE it1
        /\ errors' = IF again /\ ~keepErrors THEN 0 ELSE err1
        /\ prevErrors' = IF again THEN err1 ELSE prevErrors
        /\ errorText' = IF again /\ ~keepText THEN <<>> ELSE text1
        /\ pc' = IF it1 = End /\ ~again THEN "after" ELSE "loop"
  /\ UNCHANGED <<needs, present, project, projectFound, projectLoaded>>

AttemptKeepsErrors == AttemptWith(TRUE, FALSE, FALSE, TRUE)
AttemptKeepsText == AttemptWith(FALSE, TRUE, FALSE, TRUE)
AttemptWhileFewer == AttemptWith(FALSE, FALSE, TRUE, TRUE)
AttemptWithoutConvergence == AttemptWith(FALSE, FALSE, FALSE, FALSE)

(* One iteration of the while loop (lines 364-384): try the library at the *)
(* iterator; on failure record its error and step past it, on success      *)
(* erase it; at the end of a pass that had errors, and a different number *)
(* of them than the pass before, start another pass.                      *)
Attempt ==
  /\ pc = "loop"
  /\ LET ok    == Opens(it)
         req1  == IF ok THEN required \ {it} ELSE required
         it1   == After(required, it)
         err1  == IF ok THEN errors ELSE errors + 1
         text1 == IF ok THEN errorText ELSE Append(errorText, it)
         again == it1 = End /\ err1 > 0 /\ err1 # prevErrors
     IN /\ loaded' = IF ok THEN loaded \cup {it} ELSE loaded
        /\ required' = req1
        /\ it' = IF again THEN Begin(req1) ELSE it1
        /\ errors' = IF again THEN 0 ELSE err1
        /\ prevErrors' = IF again THEN err1 ELSE prevErrors
        /\ errorText' = IF again THEN <<>> ELSE text1
        /\ pc' = IF it1 = End /\ ~again THEN "after" ELSE "loop"
  /\ UNCHANGED <<needs, present, project, projectFound, projectLoaded>>

(* After the loop (lines 386-403): a library left over raises the error;   *)
(* otherwise the process library, when asked for, is loaded last.          *)
AfterLoop ==
  /\ pc = "after"
  /\ IF required # {} THEN pc' = "failed" /\ UNCHANGED projectLoaded
     ELSE IF project
       THEN /\ pc' = IF projectFound THEN "done" ELSE "failed"
            /\ projectLoaded' = projectFound
       ELSE pc' = "done" /\ UNCHANGED projectLoaded
  /\ UNCHANGED <<needs, present, project, projectFound, loaded, required, it,
                 errorText, errors, prevErrors>>

(* loadDynamicProjectLibrary (lines 406-414): dlopen of the process       *)
(* library; a failure throws.  The code does not check that the domain    *)
(* libraries are loaded: the guard pc = "done" is the caller's order      *)
(* (spec 4.3 step 4), and the caller is not under src/.  A second dlopen  *)
(* after loadProjectLib only counts the reference.                        *)
LoadDynamicProjectLibrary ==
  /\ pc = "done"
  /\ pc' = IF projectFound THEN "done" ELSE "failed"
  /\ projectLoaded' = projectFound
  /\ UNCHANGED <<needs, present, project, projectFound, loaded, required, it,
                 errorText, errors, prevErrors>>

Finished == pc \in {"failed", "done"} /\ UNCHANGED vars

Next == (\E S \in SUBSET Libs : BuildRequiredFrom(S)) \/ Attempt \/ AfterLoop \/ LoadDynamicProjectLibrary \/ Finished

(* loadDynamicLibraries runs on the strand to completion: weak fairness;  *)
(* whether loadDynamicProjectLibrary is called later is the caller's.     *)
Spec == Init /\ [][Next]_vars
          /\ WF_vars((\E S \in SUBSET Libs : BuildRequiredFrom(S)) \/ Attempt \/ AfterLoop)

-----------------------------------------------------------------------------
TypeOK ==
  /\ needs \in [Libs -> SUBSET Libs] /\ present \subseteq Libs
  /\ project \in BOOLEAN /\ projectFound \in BOOLEAN /\ projectLoaded \in BOOLEAN
  /\ pc \in {"start", "loop", "after", "done", "failed"}
  /\ loaded \subseteq Libs /\ required \subseteq Libs
  /\ it \in required \cup {End}
  /\ errorText \in Seq(Libs)
  /\ errors \in 0..Cardinality(Libs) /\ prevErrors \in 0..Cardinality(Libs)

(* Reference: the libraries of B that can be loaded in some order - the    *)
(* least set closed under "in B, its file exists and all it needs is in   *)
(* the set".                                                               *)
RECURSIVE Loadable(_, _)
Loadable(B, S) ==
  LET more == S \cup {l \in B \cap present : needs[l] \subseteq S}
  IN  IF more = S THEN S ELSE Loadable(B, more)

(* The fixed point is exact (spec 4.3, 8): when the passes end, every      *)
(* library that can be loaded in some order is loaded, whatever the set's *)
(* order, and exactly the others - those on a cycle, missing, or needing  *)
(* one of those - are left over.                                          *)
LoadResultExact ==
  pc = "after" => loaded = Loadable(Built, {}) /\ required = Built \ Loadable(Built, {})

(* The error raised names every library left over, each once: the text of *)
(* earlier passes, whose libraries may have loaded since, is discarded.   *)
ErrorTextNamesRemaining ==
  pc = "after" /\ required # {} =>
    /\ {errorText[i] : i \in DOMAIN errorText} = required
    /\ Len(errorText) = Cardinality(required)

(* The loader implements LoadOrder: "failed" is the end of the passes with *)
(* libraries left over; the process library is not part of it.            *)
LO == INSTANCE LoadOrder WITH todo <- required,
                              failed <- (pc \in {"after", "done", "failed"} /\ required # {})
LoadOrderRefined == LO!AbsSpec
=============================================================================
