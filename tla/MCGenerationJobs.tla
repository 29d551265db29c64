-------------------------- MODULE MCGenerationJobs --------------------------
(***************************************************************************)
(* Instances of GenerationJobs.                                            *)
(***************************************************************************)
EXTENDS GenerationJobs, TLC

CONSTANTS j1, j2, a, b, c, d, l1, l2, g1, g2

\* Tasks a, b and c speak line l1, a and b for job j1, c for j2; d, on line l2,
\* cannot be routed.
MCJobOf  == [t \in Tasks |-> IF t \in {a, b} THEN j1 ELSE j2]
MCLineOf == [t \in Tasks |-> IF t = d THEN l2 ELSE l1]
Planned(jobs) == [w \in Threads |-> IF w \in DOMAIN jobs THEN jobs[w] ELSE <<>>]

\* j1 works with one service beside j2, or with two, in two groups, without j2.
Together == Planned(<<j1, g1>> :> <<<<a, b>>>> @@ <<j2, g1>> :> <<<<c>>>>)
Apart    == Planned(<<j1, g1>> :> <<<<a>>>> @@ <<j1, g2>> :> <<<<b>>>> @@ <<j2, g2>> :> <<<<c>>>>)
TogetherOrApart == {Together, Apart}

\* Version 1 of l1 was deleted.
GapHistory   == [l \in Lines |-> IF l = l1 THEN <<2>> ELSE <<>>]

OnePerGroup == [g \in Groups |-> 1]

\* At most one job is cancelled and one version of a line deleted; j2 is not
\* submitted beside two threads of j1.
Bounded ==
  /\ Cardinality(asked) <= 1
  /\ g2 \in Groups => (th[<<j2, g2>>].rest # <<>> => run[j2] = "new")
  /\ \A l \in Lines : Len(store[l]) + 1 >= Len(History[l]) + Cardinality(ever[l])
=============================================================================
