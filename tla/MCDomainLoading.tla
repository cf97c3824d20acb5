--------------------------- MODULE MCDomainLoading ---------------------------
EXTENDS DomainLoading, Integers, TLC

CONSTANTS Billing, Ledger, Audit

(* Three names: a repeated registration among new ones, in any order.     *)
MCNames == {Billing, Ledger, Audit}

(* getDomain(id) with the ids in range and one on either side.            *)
MCIds == -1..3

(* Three library files, every dependency graph among them and every set   *)
(* of missing files; the file names sort as the domain names do.          *)
MCLibs == {1, 2, 3}
MCLibFile == (Audit :> 1) @@ (Billing :> 2) @@ (Ledger :> 3)
=============================================================================
