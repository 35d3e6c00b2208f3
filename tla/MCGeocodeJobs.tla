---------------------------- MODULE MCGeocodeJobs ----------------------------
(* Instances of GeocodeJobs for the model checker.                         *)
EXTENDS GeocodeJobs, TLC

\* Reuse of exactly equal coordinates only (a radius of 0 metres), and points
\* on a line whose neighbours lie within the radius of each other.
EqualOnly == {<<c, c>> : c \in Coordinates}
OnALine   == {p \in Coordinates \X Coordinates : p[1] <= p[2] + 1 /\ p[2] <= p[1] + 1}

WorkerSymmetry == Permutations(Workers)
=============================================================================
