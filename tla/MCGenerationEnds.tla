-------------------------- MODULE MCGenerationEnds --------------------------
(***************************************************************************)
(* An instance of GenerationJobs for its liveness, and its operators on    *)
(* histories against what the code's loops compute.                        *)
(***************************************************************************)
EXTENDS MCGenerationJobs

Single == {Planned(<<j1, g1>> :> <<<<a>>>> @@ <<j2, g1>> :> <<<<c>>>>)}
EmptyHistory == [l \in Lines |-> <<>>]

\* Jobs whose manifest nobody else changes.
EndsSpec == Init /\ [][ManagerNext]_vars /\ Fairness

\* The definitions that are proved about compute what the code's loops do, for
\* all short histories and what is appended to or removed from them: append_version
\* for one version after the other, and a comprehension.
Numbers == UNION {[1..n -> 1..4] : n \in 0..3}
Numbered(s) == [i \in DOMAIN s |-> Version(s[i], Older, "completed")]

ASSUME LoopsAgree ==
  \A s \in Numbers :
    /\ \A r \in Numbers :
         AppendedAll(Numbered(s), Numbered(r))
           = FoldLeft(LAMBDA h, v : Appended(h, v.id, v.task, v.status), Numbered(s), Numbered(r))
    /\ \A n \in 1..4 : Dropped(Numbered(s), n) = SelectSeq(Numbered(s), LAMBDA v : v.id # n)
=============================================================================
