------------------------------ MODULE Sharing -------------------------------
(***************************************************************************)
(* What the handoff service promises about the packages of a lineage       *)
(* (docs/s17.2-handoff-package-domain-spec.md, section 6): a package is    *)
(* opened to its recipient once, at most one package of a lineage is open, *)
(* the one that opens closes its predecessor in the same step, and what    *)
(* was closed stays closed.                                                *)
(***************************************************************************)
CONSTANTS Packages, None

VARIABLES
  lineage,   \* the lineage of each package, None before it exists
  access     \* what its recipient may do: "never", "open" or "closed"

Init ==
  /\ lineage = [p \in Packages |-> None]
  /\ access = [p \in Packages |-> "never"]

Created(p) ==
  /\ lineage[p] = None
  /\ \E l \in Packages : lineage' = [lineage EXCEPT ![p] = l]
  /\ UNCHANGED access

Opened(p) ==
  /\ lineage[p] # None
  /\ access[p] = "never"
  /\ access' = [q \in Packages |->
        IF q = p THEN "open"
        ELSE IF lineage[q] = lineage[p] /\ access[q] = "open" THEN "closed"
        ELSE access[q]]
  /\ UNCHANGED lineage

Closed(p) ==
  /\ access[p] = "open"
  /\ access' = [access EXCEPT ![p] = "closed"]
  /\ UNCHANGED lineage

Next == \E p \in Packages : Created(p) \/ Opened(p) \/ Closed(p)

Spec == Init /\ [][Next]_<<lineage, access>>
=============================================================================
