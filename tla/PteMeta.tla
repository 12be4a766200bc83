------------------------------ MODULE PteMeta ------------------------------
(***************************************************************************)
(* The kernel's side of the four PTE metadata calls, as the programs of    *)
(* the repository rely on it: enable and disable work on the page table    *)
(* that holds the page, set and get on the page.  Any call can be refused  *)
(* for want of a capability or of memory.                                  *)
(***************************************************************************)
EXTENDS Integers, Sequences, FiniteSets

CONSTANTS NumPages,   \* pages of the address space
          TablePages  \* pages of one page table, 512 on x86-64

ASSUME PteAssumption == NumPages \in Nat \ {0} /\ TablePages \in Nat \ {0}

VARIABLES
  expanded,  \* page tables with room for metadata
  meta,      \* the metadata of each page
  refused    \* a call has been refused

pteVars == <<expanded, meta, refused>>

Pages == 0..NumPages - 1
Table(p) == p \div TablePages
Unset == 0

PteInit == expanded = {} /\ meta = [p \in Pages |-> Unset] /\ refused = FALSE

Refused(r) == r = "refused" /\ refused' = TRUE /\ UNCHANGED <<expanded, meta>>

\* A table is expanded once
Enable(p, r) ==
  \/ /\ Table(p) \notin expanded /\ r = "ok"
     /\ expanded' = expanded \cup {Table(p)} /\ UNCHANGED <<meta, refused>>
  \/ Table(p) \in expanded /\ r = "EEXIST" /\ UNCHANGED pteVars
  \/ Refused(r)

\* Collapsing a table discards the metadata of all its pages
Disable(p, r) ==
  \/ /\ Table(p) \in expanded /\ r = "ok"
     /\ expanded' = expanded \ {Table(p)}
     /\ meta' = [q \in Pages |-> IF Table(q) = Table(p) THEN Unset ELSE meta[q]]
     /\ UNCHANGED refused
  \/ Table(p) \notin expanded /\ r = "EINVAL" /\ UNCHANGED pteVars
  \/ Refused(r)

\* Setting expands the table if need be
(* Mutant: it does not. *)
SetWithoutExpanding(p, v, r) ==
  \/ /\ Table(p) \in expanded /\ r = "ok"
     /\ meta' = [meta EXCEPT ![p] = v]
     /\ UNCHANGED <<expanded, refused>>
  \/ Table(p) \notin expanded /\ r = "ENODATA" /\ UNCHANGED pteVars
  \/ Refused(r)

Set(p, v, r) ==
  \/ /\ r = "ok"
     /\ expanded' = expanded \cup {Table(p)} /\ meta' = [meta EXCEPT ![p] = v]
     /\ UNCHANGED refused
  \/ Refused(r)

\* What a page without metadata answers is left open
Get(p, v, r) ==
  \/ Table(p) \notin expanded /\ v = Unset /\ r = "ENODATA" /\ UNCHANGED pteVars
  \/ /\ Table(p) \in expanded /\ v = meta[p]
     /\ r \in {"ok"} \cup (IF v = Unset THEN {"ENODATA"} ELSE {})
     /\ UNCHANGED pteVars
  \/ Refused(r) /\ v = Unset

=============================================================================
