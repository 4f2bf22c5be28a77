---------------------- MODULE MCApproximateStringMatch ----------------------
(* Costs and thresholds for the runs.                                      *)
EXTENDS ApproximateStringMatch

(* The costs of comparing symbols. *)
UnitCosts      == {0, 1}
UnitThresholds == {1, 2}

(* With Unit 3, symbols may differ by less than an insertion costs. *)
FractionCosts      == {0, 2}
FractionThresholds == {4, 9}

Unassigned == -7
=============================================================================
