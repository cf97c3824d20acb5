---------------------------- MODULE DomainRegistry ----------------------------
(***************************************************************************)
(* The domain registry of SWA::Process: registerDomain, getDomain(name)    *)
(* and getDomain(id) (src/architecture/swa/src/Process.cc, lines 64-70,    *)
(* 148-174).  `domains` is the std::vector<Domain> (index = id), and       *)
(* `domainLookup` is the std::map from name to id.  A Domain is            *)
(* abstracted to its id and name; isInterface is always true at            *)
(* registration.  `last` is the call just made and what it returned.       *)
(***************************************************************************)
EXTENDS Integers, Sequences, TLC

CONSTANTS Names,      \* the domain names the process registers
          Ids         \* the int arguments getDomain(id) is called with

ASSUME Ids \subseteq Int

VARIABLES domains,       \* Seq([id, name]): position i holds id i - 1
          domainLookup,  \* name -> id, DOMAIN = the registered names
          last           \* [op, arg, res] of the latest call

vars == <<domains, domainLookup, last>>

(* What a call hands back: a registered domain's id, the ProgramError      *)
(* "Invalid Domain Name", or - for domains[id] out of range, undefined     *)
(* behaviour - whatever memory holds (Garbage) or a crash.  The outcomes   *)
(* that are not a domain are negative so that they compare with ids.       *)
UnknownDomain == -1
Garbage == -2
Crash == -3
NoResult == -4
Result == Nat \cup {UnknownDomain, Garbage, Crash, NoResult}

Init ==
  /\ domains = <<>>
  /\ domainLookup = [n \in {} |-> 0]
  /\ last = [op |-> "none", arg |-> "none", res |-> NoResult]

(* Mutant: the id read after push_back - one past the new index.           *)
RegisterDomainIdAfterPush(name) ==
  IF name \notin DOMAIN domainLookup
    THEN LET id == Len(domains) + 1
         IN  /\ domains' = Append(domains, [id |-> id, name |-> name])
             /\ domainLookup' = domainLookup @@ (name :> id)
             /\ last' = [op |-> "register", arg |-> name, res |-> id]
    ELSE /\ last' = [op |-> "register", arg |-> name, res |-> domainLookup[name]]
         /\ UNCHANGED <<domains, domainLookup>>

(* registerDomain(name): a new name gets id = domains.size(), is appended  *)
(* and indexed; a registered name returns the existing domain.             *)
RegisterDomain(name) ==
  IF name \notin DOMAIN domainLookup
    THEN LET id == Len(domains)
         IN  /\ domains' = Append(domains, [id |-> id, name |-> name])
             /\ domainLookup' = domainLookup @@ (name :> id)
             /\ last' = [op |-> "register", arg |-> name, res |-> id]
    ELSE /\ last' = [op |-> "register", arg |-> name, res |-> domainLookup[name]]
         /\ UNCHANGED <<domains, domainLookup>>

(* getDomain(name): ProgramError for an unknown name, else domains[id].   *)
GetDomainByName(name) ==
  /\ last' = [op |-> "getByName", arg |-> name,
              res |-> IF name \in DOMAIN domainLookup
                        THEN domains[domainLookup[name] + 1].id
                        ELSE UnknownDomain]
  /\ UNCHANGED <<domains, domainLookup>>

(* getDomain(id): domains[id], with no range check.                        *)
GetDomainById(id) ==
  /\ \/ id \in 0..(Len(domains) - 1)
        /\ last' = [op |-> "getById", arg |-> id, res |-> domains[id + 1].id]
     \/ id \notin 0..(Len(domains) - 1)
        /\ \E res \in {Garbage, Crash} :
             last' = [op |-> "getById", arg |-> id, res |-> res]
  /\ UNCHANGED <<domains, domainLookup>>

Next ==
  \/ \E n \in Names : RegisterDomain(n)
  \/ \E n \in Names : GetDomainByName(n)
  \/ \E i \in Ids : GetDomainById(i)

Spec == Init /\ [][Next]_vars

-----------------------------------------------------------------------------
TypeOK ==
  /\ domains \in Seq([id : Nat, name : Names])
  /\ DOMAIN domainLookup \subseteq Names
  /\ domainLookup \in [DOMAIN domainLookup -> Nat]
  /\ last.res \in Result

(* Ids are dense from 0 in first-registration order (spec 3, 8), and the  *)
(* name index and the vector agree: each registered name is at the        *)
(* position of its id, once.                                               *)
RegistryConsistent ==
  /\ \A i \in 1..Len(domains) : domains[i].id = i - 1
  /\ DOMAIN domainLookup = {domains[i].name : i \in 1..Len(domains)}
  /\ \A n \in DOMAIN domainLookup : domains[domainLookup[n] + 1].name = n

=============================================================================
