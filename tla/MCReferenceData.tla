--------------------------- MODULE MCReferenceData ---------------------------
(***************************************************************************)
(* Small instances of ReferenceData: a row or two in every table, the      *)
(* sample employee and another one.                                        *)
(***************************************************************************)
EXTENDS ReferenceData, TLC

CONSTANTS NotActive, OnLeave, Engineering, Engineer, Chicago, US, Illinois,
          sample, other

MCKind ==
  NotActive :> "statuses" @@ OnLeave :> "statuses" @@ Chicago :> "locations"
  @@ Engineering :> "departments" @@ Engineer :> "titles"
  @@ US :> "countries" @@ Illinois :> "states"

MCParent ==
  [n \in Names |-> CASE n = Engineer -> Engineering
                     [] n = Illinois -> US
                     [] OTHER -> None]

(* OnLeave is the administrator's own. *)
MCDefaults == Names \ {OnLeave}
MCSystem == {NotActive}

MCSamples == sample :> {NotActive, Engineering, Engineer, US}

MCBodies == {{NotActive, US, Chicago}, {OnLeave, Engineering, US, Illinois}}

MCChoices == {{"employees", "departments", "audit"}, {"locations", "audit"},
              {"employees", "statuses", "states", "countries"}}

Symmetry == Permutations(Workers)
=============================================================================
