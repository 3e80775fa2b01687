----------------------------- MODULE MCDeltaCI -----------------------------
(***************************************************************************)
(* Instances of DeltaCI.  The plans are the shapes the planners produce:   *)
(* one job; a build and a test that waits for it; the plan for a Go        *)
(* project, where test and the optional lint both wait for build; and a    *)
(* fan-in, two roots that release a third job together, which no planner   *)
(* emits but the plan format allows.                                       *)
(***************************************************************************)
EXTENDS DeltaCI, TLC

CONSTANTS build, test, lint

SoloOrder == <<build>>
SoloDeps  == build :> {}

ChainOrder == <<build, test>>
ChainDeps  == (build :> {}) @@ (test :> {build})

GoOrder == <<build, test, lint>>
GoDeps  == (build :> {}) @@ (test :> {build}) @@ (lint :> {build})

FanInOrder == <<build, lint, test>>
FanInDeps  == (build :> {}) @@ (lint :> {}) @@ (test :> {build, lint})

Symmetry == Permutations(Leases)
=============================================================================
