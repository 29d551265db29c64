-------------------------- MODULE MCGpuCoordinator --------------------------
\* Two natives that share one GPU; a few telling reports of two incarnations.
EXTENDS GpuCoordinator, TLC

CONSTANTS g1, n1, n2, i1, i2, t1, t2, t3

MCGroupOf == [p \in {n1, n2} |-> g1]

Report(i, r, residency) ==
  [inst |-> i, rev |-> r, busy |-> FALSE, ready |-> TRUE, residency |-> residency, mature |-> TRUE]

MCReports == {Report(i1, 0, "cpu"), Report(i1, 0, "gpu"),
              [Report(i1, 1, "cpu") EXCEPT !.busy = TRUE],
              Report(i2, 0, "cpu")}

Symmetry == Permutations({t1, t2, t3}) \cup Permutations({n1, n2})
=============================================================================
