---------------------------- MODULE DomainLoading ----------------------------
(***************************************************************************)
(* The domain registry and the module loader together, as startup uses    *)
(* them (spec 2, 4.3): domains are registered and looked up, then         *)
(* loadDynamicLibraries builds its set of library files from the          *)
(* registered domains (src/architecture/swa/src/Process.cc, 348-362) and  *)
(* loads them.  DomainRegistry and ModuleLoader are instanced on the      *)
(* shared variables.  Registration and lookups happen before the loader   *)
(* starts: the registry is filled at startup (spec 5).                    *)
(***************************************************************************)
EXTENDS Naturals, Sequences

CONSTANTS Names, Ids,   \* as in DomainRegistry
          Libs,         \* as in ModuleLoader
          LibFile       \* the library of each domain name, as a place in
                        \* the order of the set of file names

ASSUME /\ LibFile \in [Names -> Libs]
       /\ \A m, n \in Names : m # n => LibFile[m] # LibFile[n]

VARIABLES domains, domainLookup, last,
          needs, present, project, projectFound, pc, loaded, projectLoaded,
          required, it, errorText, errors, prevErrors

R == INSTANCE DomainRegistry
L == INSTANCE ModuleLoader

regVars == <<domains, domainLookup, last>>
loadVars == <<needs, present, project, projectFound, pc, loaded, projectLoaded,
              required, it, errorText, errors, prevErrors>>
vars == <<regVars, loadVars>>

Init == R!Init /\ L!Init

(* registerDomain, getDomain(name) and getDomain(id) during startup.       *)
RegistryCall ==
  /\ pc = "start"
  /\ R!Next
  /\ UNCHANGED loadVars

(* The loop over domains: libfile(name + (isInterface ? interfaceSuffix   *)
(* : "") + "_" + libName); registerDomain makes every domain an interface *)
(* domain, so each name gives the one file LibFile[name].                  *)
DomainLibs == {LibFile[domains[i].name] : i \in 1..Len(domains)}

(* loadDynamicLibraries(libName, interfaceSuffix, loadProjectLib): the    *)
(* library set from the registered domains; the call returns nothing.     *)
BuildRequired ==
  /\ L!BuildRequiredFrom(DomainLibs)
  /\ last' = [op |-> "load", arg |-> "none", res |-> R!NoResult]
  /\ UNCHANGED <<domains, domainLookup>>

Loading == (L!Attempt \/ L!AfterLoop) /\ UNCHANGED regVars

ProjectLoading == L!LoadDynamicProjectLibrary /\ UNCHANGED regVars

Next ==
  \/ RegistryCall \/ BuildRequired \/ Loading \/ ProjectLoading
  \/ pc \in {"failed", "done"} /\ UNCHANGED vars

(* Startup goes on to load the libraries, and runs the loader to its end. *)
Spec == Init /\ [][Next]_vars /\ WF_vars(BuildRequired \/ Loading)

-----------------------------------------------------------------------------
TypeOK == R!TypeOK /\ L!TypeOK

(* Ids are dense from 0 and the name index agrees with the vector.        *)
RegistryConsistent == R!RegistryConsistent

(* The passes load exactly the libraries of the registered domains that   *)
(* can be loaded in some order, and leave the others.                     *)
LoadResultExact == L!LoadResultExact

(* The error raised names every library left over, each once.             *)
ErrorTextNamesRemaining == L!ErrorTextNamesRemaining

(* The loader implements LoadOrder for the registered domains' libraries. *)
LoadOrderRefined == L!LoadOrderRefined
=============================================================================
