------------------------ MODULE GenerationJobsProofs ------------------------
(***************************************************************************)
(* Theorems about GenerationJobs: what a job's threads, cancellations and  *)
(* merges leave in the histories of the lines, for any number of jobs,     *)
(* tasks and threads.                                                      *)
(***************************************************************************)
EXTENDS GenerationJobs, FiniteSetTheorems, SequenceTheorems, WellFoundedInduction, TLAPS

-----------------------------------------------------------------------------
(***************************************************************************)
(* Sequences.                                                              *)
(***************************************************************************)
LEMMA UpTo == \A m \in Nat : IsFiniteSet(1..m) /\ Cardinality(1..m) = m
<1> TAKE m \in Nat
<1>1. 1 \in Int /\ m \in Int
  OBVIOUS
<1>2. IsFiniteSet(1..m) /\ Cardinality(1..m) = IF 1 > m THEN 0 ELSE m - 1 + 1
  BY <1>1, FS_Interval
<1> QED
  BY <1>2

\* pos lists the positions P of s in their order.
Selects(pos, s, P) ==
  /\ pos \in [1..Cardinality(P) -> P]
  /\ \A k \in 1..Cardinality(P) : Kept(s, P)[k] = s[pos[k]]
  /\ \A i, k \in 1..Cardinality(P) : i < k => pos[i] < pos[k]
  /\ \A p \in P : \E k \in 1..Cardinality(P) : pos[k] = p
  /\ \A b \in Nat : 1..b \subseteq P => b <= Cardinality(P) /\ \A k \in 1..b : pos[k] = k

\* What Kept leaves: the elements at the positions P, in their order.
LEMMA KeptFacts ==
  ASSUME NEW S, NEW s \in Seq(S), NEW P \in SUBSET DOMAIN s
  PROVE  /\ Cardinality(P) \in Nat /\ Cardinality(P) <= Len(s)
         /\ Kept(s, P) \in Seq(S) /\ Len(Kept(s, P)) = Cardinality(P)
         /\ \E pos : Selects(pos, s, P)
<1> DEFINE n == Cardinality(P)
           Below(p) == {q \in P : q <= p}
           rank == [p \in P |-> Cardinality(Below(p))]
           pos == [k \in 1..n |-> CHOOSE p \in P : rank[p] = k]
<1>1. IsFiniteSet(P) /\ n \in Nat /\ n <= Len(s) /\ P \subseteq Nat \ {0}
  <2>1. Len(s) \in Nat /\ P \subseteq 1..Len(s)
    OBVIOUS
  <2>2. IsFiniteSet(1..Len(s)) /\ Cardinality(1..Len(s)) = Len(s)
    BY <2>1, UpTo
  <2>3. IsFiniteSet(P) /\ n \in Nat /\ n <= Len(s)
    BY <2>1, <2>2, FS_Subset, FS_CardinalityType
  <2> QED
    BY <2>1, <2>3
<1>a. n = Cardinality(P) /\ rank = [p \in P |-> Cardinality(Below(p))]
  OBVIOUS
<1>b. pos = [k \in 1..n |-> CHOOSE p \in P : rank[p] = k]
  OBVIOUS
<1> HIDE DEF rank, n, pos
<1>2. \A p \in P : rank[p] = Cardinality(Below(p)) /\ rank[p] \in 1..n /\ IsFiniteSet(Below(p))
  <2> TAKE p \in P
  <2>1. Below(p) \in SUBSET P /\ p \in Below(p)
    BY <1>1
  <2>2. IsFiniteSet(Below(p)) /\ Cardinality(Below(p)) <= n /\ Cardinality(Below(p)) \in Nat
    BY <1>1, <1>a, <2>1, FS_Subset, FS_CardinalityType
  <2>3. Cardinality(Below(p)) # 0
    BY <2>1, <2>2, FS_EmptySet
  <2> QED
    BY <1>1, <1>a, <2>2, <2>3
<1>3. \A p, q \in P : p < q => rank[p] < rank[q]
  <2> SUFFICES ASSUME NEW p \in P, NEW q \in P, p < q PROVE rank[p] < rank[q]
    OBVIOUS
  <2>1. Below(p) \in SUBSET Below(q) /\ q \notin Below(p) /\ q \in Below(q)
    BY <1>1
  <2>2. Cardinality(Below(p)) <= Cardinality(Below(q)) /\ Cardinality(Below(q)) # Cardinality(Below(p))
    BY <1>2, <2>1, FS_Subset
  <2>3. rank[p] \in Nat /\ rank[q] \in Nat /\ rank[p] <= rank[q] /\ rank[q] # rank[p]
    BY <1>1, <1>2, <2>2
  <2> QED
    BY <2>3
<1>c. \A p, q \in P : rank[p] = rank[q] => p = q
  <2> TAKE p \in P, q \in P
  <2>1. p \in Nat /\ q \in Nat
    BY <1>1
  <2>2. rank[p] \in 1..n /\ rank[q] \in 1..n
    BY <1>2
  <2> QED
    BY <1>1, <1>3, <2>1, <2>2
<1>4. \A k \in 1..n : \E p \in P : rank[p] = k
  <2>1. rank \in [P -> 1..n]
    BY <1>a, <1>2
  <2>2. rank \in Injection(P, 1..n)
    BY <1>c, <2>1 DEF Injection, IsInjective
  <2>3. IsFiniteSet(1..n) /\ Cardinality(1..n) = Cardinality(P)
    BY <1>1, <1>a, UpTo
  <2>4. rank \in Surjection(P, 1..n)
    BY <2>2, <2>3, FS_Injection
  <2> QED
    BY <2>4 DEF Surjection
<1>5. \A k \in 1..n : pos[k] \in P /\ rank[pos[k]] = k
  BY <1>4, <1>b
<1>6. Kept(s, P) = [k \in 1..n |-> s[pos[k]]]
  <2>1. \A k \in 1..n : (CHOOSE p \in P : Cardinality({q \in P : q <= p}) = k) = pos[k]
    BY <1>2, <1>b
  <2>2. Kept(s, P) = [k \in 1..n |-> s[CHOOSE p \in P : Cardinality({q \in P : q <= p}) = k]]
    BY <1>a DEF Kept
  <2>3. \A k \in 1..n : s[CHOOSE p \in P : Cardinality({q \in P : q <= p}) = k] = s[pos[k]]
    BY <2>1
  <2> QED
    BY <2>2, <2>3
<1>7. pos \in [1..n -> P]
  BY <1>5, <1>b
<1>8. \A k \in 1..n : s[pos[k]] \in S
  BY <1>5
<1>9. Kept(s, P) \in Seq(S) /\ Len(Kept(s, P)) = n
  BY <1>1, <1>6, <1>8
<1>10. \A i, k \in 1..n : i < k => pos[i] < pos[k]
  <2> SUFFICES ASSUME NEW i \in 1..n, NEW k \in 1..n, i < k PROVE pos[i] < pos[k]
    OBVIOUS
  <2>1. pos[i] \in P /\ pos[k] \in P /\ rank[pos[i]] = i /\ rank[pos[k]] = k
    BY <1>5
  <2>2. pos[i] \in Nat /\ pos[k] \in Nat /\ ~(pos[k] < pos[i]) /\ pos[i] # pos[k]
    BY <1>1, <1>3, <2>1
  <2> QED
    BY <2>2
<1>11. \A p \in P : \E k \in 1..n : pos[k] = p
  <2> TAKE p \in P
  <2>1. rank[p] \in 1..n /\ pos[rank[p]] \in P /\ rank[pos[rank[p]]] = rank[p]
    BY <1>2, <1>5
  <2> QED
    BY <1>c, <2>1
<1>12. ASSUME NEW b \in Nat, 1..b \subseteq P PROVE b <= n /\ \A k \in 1..b : pos[k] = k
  <2>1. \A k \in 1..b : rank[k] = k /\ k \in 1..n
    <3> TAKE k \in 1..b
    <3>1. Below(k) = 1..k /\ k \in P /\ k \in Nat
      BY <1>1, <1>12
    <3> QED
      BY <1>2, <3>1, UpTo
  <2>2. \A k \in 1..b : pos[k] = k
    <3> TAKE k \in 1..b
    <3>1. k \in P /\ pos[k] \in P /\ rank[pos[k]] = k
      BY <1>5, <1>12, <2>1
    <3> QED
      BY <1>c, <2>1, <3>1
  <2>3. b <= n
    BY <1>1, <2>1
  <2> QED
    BY <2>2, <2>3
<1> QED
  <2>1. \A k \in 1..n : Kept(s, P)[k] = s[pos[k]]
    BY <1>6
  <2>2. \A b \in Nat : 1..b \subseteq P => b <= n /\ \A k \in 1..b : pos[k] = k
    BY <1>12
  <2>3. Selects(pos, s, P)
    BY <1>7, <1>10, <1>11, <2>1, <2>2, <1>a DEF Selects
  <2> QED
    BY <1>1, <1>9, <2>3, Zenon DEF n

-----------------------------------------------------------------------------
(***************************************************************************)
(* Histories: their numbers grow.                                          *)
(***************************************************************************)
Histories == Seq(Versions)
Growing(h) == \A i, k \in DOMAIN h : i < k => h[i].id < h[k].id

\* The versions of h after the first b.
Beyond(h, b) == {h[i] : i \in (b + 1)..Len(h)}

LEMMA HistoryTypes ==
  ASSUME NEW h \in Histories
  PROVE  /\ Len(h) \in Nat /\ DOMAIN h = 1..Len(h)
         /\ \A i \in DOMAIN h : /\ h[i] \in Versions /\ h[i].id \in Nat \ {0} /\ h[i].status \in Terminal
                                /\ h[i] = Version(h[i].id, h[i].task, h[i].status)
<1>1. Len(h) \in Nat /\ DOMAIN h = 1..Len(h) /\ \A i \in DOMAIN h : h[i] \in Versions
  BY DEF Histories
<1>2. \A v \in Versions : v.id \in Nat \ {0} /\ v.status \in Terminal /\ v = Version(v.id, v.task, v.status)
  BY DEF Versions, Version
<1> QED
  BY <1>1, <1>2

LEMMA MaxIs ==
  ASSUME NEW S \in SUBSET Nat, NEW m \in S, \A y \in S : m >= y
  PROVE  Max(S) = m
<1>1. Max(S) \in S /\ \A y \in S : Max(S) >= y
  BY DEF Max
<1>2. Max(S) \in Nat /\ m \in Nat /\ Max(S) >= m /\ m >= Max(S)
  BY <1>1
<1> QED
  BY <1>2

LEMMA MaxIdFacts ==
  ASSUME NEW h \in Histories, Growing(h)
  PROVE  /\ MaxId(h) \in Nat
         /\ \A i \in DOMAIN h : h[i].id <= MaxId(h)
<1> DEFINE ids == {0} \cup {h[i].id : i \in DOMAIN h}
<1>1. \A i \in DOMAIN h : h[i].id \in Nat /\ i \in Nat /\ i <= Len(h)
  BY HistoryTypes
<1>2. CASE h = <<>>
  <2>1. ids = {0}
    BY <1>2
  <2>2. {0} \in SUBSET Nat /\ 0 \in {0} /\ \A y \in {0} : 0 >= y
    OBVIOUS
  <2>3. Max({0}) = 0
    BY <2>2, MaxIs
  <2>4. Max(ids) = 0
    BY <2>1, <2>3
  <2> QED
    BY <1>2, <2>4 DEF MaxId
<1>3. CASE h # <<>>
  <2>1. Len(h) \in DOMAIN h
    BY <1>3 DEF Histories
  <2>2. \A i \in DOMAIN h : h[i].id <= h[Len(h)].id
    BY <1>1, <2>1 DEF Growing
  <2>3. ids \in SUBSET Nat /\ h[Len(h)].id \in ids /\ \A y \in ids : h[Len(h)].id >= y
    BY <1>1, <2>1, <2>2
  <2>4. Max(ids) = h[Len(h)].id
    <3> HIDE DEF ids
    <3> QED
      BY <2>3, MaxIs
  <2> QED
    BY <1>1, <2>1, <2>2, <2>4 DEF MaxId
<1> QED
  BY <1>2, <1>3

\* A version gets a number of its own, the greatest of the history.
LEMMA NextIdFacts ==
  ASSUME NEW h \in Histories, Growing(h), NEW want \in Nat
  PROVE  /\ NextId(h, want) \in Nat \ {0}
         /\ \A i \in DOMAIN h : h[i].id < NextId(h, want)
<1>1. MaxId(h) \in Nat /\ \A i \in DOMAIN h : h[i].id \in Nat /\ h[i].id <= MaxId(h)
  BY MaxIdFacts, HistoryTypes
<1> QED
  BY <1>1 DEF NextId

\* append_version keeps what there is and adds one version.
LEMMA AppendedFacts ==
  ASSUME NEW h \in Histories, Growing(h), NEW want \in Nat, NEW t \in Tasks, NEW st \in Terminal,
         NEW b \in 0..Len(h), NEW new, new = Appended(h, want, t, st)
  PROVE  /\ new \in Histories /\ Growing(new) /\ Len(new) = Len(h) + 1
         /\ \A i \in DOMAIN h : new[i] = h[i]
         /\ Beyond(new, b) = Beyond(h, b) \cup {Version(Last1(new), t, st)}
         /\ Last1(new) \in Nat \ {0}
<1> DEFINE n == NextId(h, want)
           v == Version(n, t, st)
<1>1. n \in Nat \ {0} /\ \A i \in DOMAIN h : h[i].id < n
  BY NextIdFacts
<1> HIDE DEF n
<1>2. v \in Versions /\ v.id = n
  BY <1>1 DEF Version, Versions
<1>3. new = Append(h, v)
  BY DEF Appended, n
<1> HIDE DEF v
<1>4. /\ new \in Histories /\ Len(new) = Len(h) + 1 /\ new[Len(h) + 1] = v
      /\ \A i \in DOMAIN h : new[i] = h[i]
  BY <1>2, <1>3 DEF Histories
<1>5. Last1(new) = n
  BY <1>2, <1>4 DEF Last1
<1>6. Growing(new)
  <2> SUFFICES ASSUME NEW i \in DOMAIN new, NEW k \in DOMAIN new, i < k PROVE new[i].id < new[k].id
    BY DEF Growing
  <2>1. i \in DOMAIN h /\ (k \in DOMAIN h \/ k = Len(h) + 1)
    BY <1>4 DEF Histories
  <2> QED
    BY <1>1, <1>2, <1>4, <2>1 DEF Growing
<1>7. Beyond(new, b) = Beyond(h, b) \cup {v}
  BY <1>4 DEF Beyond, Histories
<1> QED
  BY <1>1, <1>4, <1>5, <1>6, <1>7 DEF v

\* What is in h is the beginning of the history new.
Extends(new, h) == \A i \in DOMAIN h : new[i] = h[i]

\* The versions d are in h after its first b, whatever their numbers there.
Carries(h, b, d) == \A k \in DOMAIN d : h[b + k].task = d[k].task /\ h[b + k].status = d[k].status

\* A version of d that asks for the next free number in the history h gets it.
Fills(new, h, d) == \A k \in DOMAIN d : d[k].id = MaxId(h) + k => new[Len(h) + k].id = MaxId(h) + k

\* persist_manifest_delta appends the versions of a job one after the other: what
\* there is stays, and theirs follow in their order with numbers of their own.
LEMMA AppendedAllFacts ==
  ASSUME NEW h \in Histories, Growing(h), NEW d \in Histories, Growing(d),
         NEW new, new = AppendedAll(h, d)
  PROVE  /\ new \in Histories /\ Growing(new) /\ Len(new) = Len(h) + Len(d)
         /\ Extends(new, h) /\ Carries(new, Len(h), d) /\ Fills(new, h, d)
<1> DEFINE M == MaxId(h)
           n(k) == IF d[k].id > M + k THEN d[k].id ELSE M + k
           ids(k) == {M + k} \cup {d[i].id + (k - i) : i \in 1..k}
           tail == [k \in DOMAIN d |-> [d[k] EXCEPT !.id = Max(ids(k))]]
<1>1. M \in Nat /\ \A i \in DOMAIN h : h[i].id <= M
  BY MaxIdFacts
<1>2. /\ Len(h) \in Nat /\ DOMAIN h = 1..Len(h) /\ \A i \in DOMAIN h : h[i].id \in Nat
      /\ Len(d) \in Nat /\ DOMAIN d = 1..Len(d) /\ \A k \in DOMAIN d : d[k].id \in Nat /\ d[k] \in Versions
  BY HistoryTypes
<1> HIDE DEF M
<1>3. \A i, k \in DOMAIN d : i <= k => d[i].id + (k - i) <= d[k].id
  <2> SUFFICES ASSUME NEW i \in DOMAIN d, NEW k \in DOMAIN d, i <= k PROVE d[i].id + (k - i) <= d[k].id
    OBVIOUS
  <2> DEFINE Bad == {m \in Nat : i + m \in DOMAIN d /\ d[i].id + m > d[i + m].id}
  <2>1. CASE Bad = {}
    <3>1. k - i \in Nat /\ i + (k - i) = k /\ k - i \notin Bad
      BY <1>2, <2>1
    <3>2. ~(d[i].id + (k - i) > d[k].id)
      BY <3>1
    <3>3. d[i].id \in Nat /\ d[k].id \in Nat
      BY <1>2
    <3> QED
      BY <3>1, <3>2, <3>3
  <2>2. CASE Bad # {}
    <3>1. PICK m \in Bad : \A m2 \in Bad : ~(m2 < m)
      <4>1. IsWellFoundedOn(OpToRel(<, Nat), Nat)
        BY NatLessThanWellFounded
      <4>2. PICK m \in Bad : \A m2 \in Bad : ~(<<m2, m>> \in OpToRel(<, Nat))
        BY <2>2, <4>1, WFMin
      <4>3. \A m2 \in Bad : m2 < m => <<m2, m>> \in OpToRel(<, Nat)
        BY DEF OpToRel
      <4> QED
        BY <4>2, <4>3
    <3>2. m \in Nat /\ i \in Nat /\ i + m \in DOMAIN d /\ d[i].id + m > d[i + m].id /\ d[i].id \in Nat
      BY <1>2
    <3>3. m # 0
      BY <3>2
    <3>4. m - 1 \in Nat /\ i + (m - 1) \in DOMAIN d /\ m - 1 < m
      BY <1>2, <3>2, <3>3
    <3>5. ~(d[i].id + (m - 1) > d[i + (m - 1)].id)
      BY <3>1, <3>4
    <3>6. d[i + (m - 1)].id < d[i + m].id
      BY <3>2, <3>4 DEF Growing
    <3>7. d[i + (m - 1)].id \in Nat /\ d[i + m].id \in Nat /\ m \in Nat
      BY <1>2, <3>2, <3>4
    <3> HIDE DEF Bad
    <3> QED
      BY <3>2, <3>5, <3>6, <3>7
  <2> QED
    BY <2>1, <2>2
<1>4. \A k \in DOMAIN d : Max(ids(k)) = n(k) /\ n(k) \in Nat \ {0} /\ n(k) > M
  <2> TAKE k \in DOMAIN d
  <2>1. k \in Nat \ {0} /\ 1..k \subseteq DOMAIN d
    BY <1>2
  <2>2. \A i \in 1..k : d[i].id + (k - i) \in Nat /\ d[i].id + (k - i) <= d[k].id
    <3> TAKE i \in 1..k
    <3>1. i \in DOMAIN d /\ i \in Nat /\ i <= k
      BY <1>2, <2>1
    <3>2. d[i].id \in Nat /\ k - i \in Nat
      BY <1>2, <2>1, <3>1
    <3>3. d[i].id + (k - i) <= d[k].id
      BY <1>3, <3>1
    <3> QED
      BY <3>2, <3>3
  <2>3. n(k) \in Nat \ {0} /\ n(k) > M /\ n(k) >= M + k /\ n(k) >= d[k].id /\ n(k) \in {M + k, d[k].id}
    BY <1>1, <1>2, <2>1
  <2>4. d[k].id = d[k].id + (k - k) /\ k \in 1..k
    BY <1>2, <2>1
  <2>5. n(k) \in ids(k)
    BY <2>3, <2>4
  <2>6. \A y \in ids(k) : y \in Nat /\ n(k) >= y
    <3> TAKE y \in ids(k)
    <3> HIDE DEF n
    <3>1. CASE y = M + k
      BY <1>1, <2>1, <2>3, <3>1
    <3>2. ASSUME NEW i \in 1..k, y = d[i].id + (k - i) PROVE y \in Nat /\ n(k) >= y
      <4>1. y \in Nat /\ y <= d[k].id
        BY <2>2, <3>2
      <4>2. d[k].id \in Nat
        BY <1>2
      <4> QED
        BY <2>3, <4>1, <4>2
    <3> QED
      BY <3>1, <3>2
  <2>7. Max(ids(k)) = n(k)
    <3> HIDE DEF ids, n
    <3> QED
      BY <2>5, <2>6, MaxIs
  <2> QED
    BY <2>3, <2>7
<1>5. \A i, k \in DOMAIN d : i < k => n(i) < n(k)
  <2> TAKE i \in DOMAIN d, k \in DOMAIN d
  <2>1. i \in Nat /\ k \in Nat /\ d[i].id \in Nat /\ d[k].id \in Nat /\ (i < k => d[i].id < d[k].id)
    BY <1>2 DEF Growing
  <2> QED
    BY <1>1, <2>1
<1>6. new = h \o tail
  BY DEF AppendedAll, M
<1> HIDE DEF n, ids
<1>7. /\ DOMAIN tail = 1..Len(d)
      /\ \A k \in DOMAIN d : /\ tail[k] \in Versions /\ tail[k].id = n(k)
                             /\ tail[k].task = d[k].task /\ tail[k].status = d[k].status
  <2>1. DOMAIN tail = 1..Len(d)
    BY <1>2
  <2>2. ASSUME NEW k \in DOMAIN d
        PROVE  /\ tail[k] \in Versions /\ tail[k].id = n(k)
               /\ tail[k].task = d[k].task /\ tail[k].status = d[k].status
    <3>1. tail[k] = [d[k] EXCEPT !.id = n(k)]
      BY <1>4
    <3>2. d[k] \in Versions /\ n(k) \in Nat \ {0}
      BY <1>2, <1>4
    <3> QED
      BY <3>1, <3>2 DEF Versions
  <2> QED
    BY <2>1, <2>2
<1>a. tail \in [1..Len(d) -> Versions]
  BY <1>2, <1>7
<1> HIDE DEF tail
<1>8. tail \in Histories /\ Len(tail) = Len(d)
  BY <1>2, <1>a DEF Histories
<1>9. /\ new \in Histories /\ Len(new) = Len(h) + Len(d)
      /\ \A i \in DOMAIN h : new[i] = h[i]
      /\ \A k \in DOMAIN d : new[Len(h) + k] = tail[k]
  <2> DEFINE V == Versions
  <2>1. h \in Seq(V) /\ tail \in Seq(V)
    BY <1>8 DEF Histories
  <2> HIDE DEF V
  <2>2. new \in Seq(V) /\ Len(new) = Len(h) + Len(d)
    <3>1. h \o tail \in Seq(V) /\ Len(h \o tail) = Len(h) + Len(tail)
      BY <2>1
    <3> QED
      BY <1>6, <1>8, <3>1
  <2>3. \A i \in DOMAIN h : new[i] = h[i]
    BY <1>2, <1>6, <1>8, <2>1
  <2>4. \A k \in DOMAIN d : new[Len(h) + k] = tail[k]
    BY <1>2, <1>6, <1>8, <2>1
  <2> QED
    BY <2>2, <2>3, <2>4 DEF Histories, V
<1>10. Growing(new)
  <2> SUFFICES ASSUME NEW i \in DOMAIN new, NEW k \in DOMAIN new, i < k PROVE new[i].id < new[k].id
    BY DEF Growing
  <2>1. DOMAIN new = 1..(Len(h) + Len(d))
    BY <1>9, HistoryTypes
  <2>2. CASE k \in DOMAIN h
    <3>1. i \in DOMAIN h
      BY <1>2, <2>1, <2>2
    <3> QED
      BY <1>9, <2>2, <3>1 DEF Growing
  <2>3. CASE k \notin DOMAIN h /\ i \in DOMAIN h
    <3>1. k - Len(h) \in DOMAIN d /\ Len(h) + (k - Len(h)) = k
      BY <1>2, <2>1, <2>3
    <3>2. new[k].id = n(k - Len(h)) /\ n(k - Len(h)) > M /\ n(k - Len(h)) \in Nat
      BY <1>4, <1>7, <1>9, <3>1
    <3>3. new[i].id <= M /\ new[i].id \in Nat
      BY <1>1, <1>2, <1>9, <2>3
    <3> QED
      BY <1>1, <3>2, <3>3
  <2>4. CASE i \notin DOMAIN h
    <3>1. /\ k - Len(h) \in DOMAIN d /\ Len(h) + (k - Len(h)) = k
          /\ i - Len(h) \in DOMAIN d /\ Len(h) + (i - Len(h)) = i
          /\ i - Len(h) < k - Len(h)
      BY <1>2, <2>1, <2>4
    <3>2. new[k].id = n(k - Len(h)) /\ new[i].id = n(i - Len(h))
      BY <1>7, <1>9, <3>1
    <3> QED
      BY <1>5, <3>1, <3>2
  <2> QED
    BY <1>2, <2>1, <2>2, <2>3, <2>4
<1>11. Fills(new, h, d)
  <2>1. ASSUME NEW k \in DOMAIN d, d[k].id = M + k PROVE new[Len(h) + k].id = M + k
    <3>1. new[Len(h) + k].id = n(k)
      BY <1>7, <1>9
    <3>2. M + k \in Nat
      BY <1>1, <1>2
    <3>3. n(k) = M + k
      BY <2>1, <3>2 DEF n
    <3> QED
      BY <3>1, <3>3
  <2> QED
    BY <2>1 DEF Fills, M
<1> QED
  BY <1>7, <1>9, <1>10, <1>11 DEF Carries, Extends

\* _remove_manifest_version takes out one number behind the first b versions.
LEMMA DroppedFacts ==
  ASSUME NEW h \in Histories, Growing(h), NEW id, NEW b \in 0..Len(h), \A i \in 1..b : h[i].id # id
  PROVE  LET new == Dropped(h, id)
         IN /\ new \in Histories /\ Growing(new) /\ b <= Len(new)
            /\ \A i \in 1..b : new[i] = h[i]
            /\ Beyond(new, b) = {v \in Beyond(h, b) : v.id # id}
<1> DEFINE P == {i \in DOMAIN h : h[i].id # id}
           n == Cardinality(P)
           new == Dropped(h, id)
<1>1. Len(h) \in Nat /\ DOMAIN h = 1..Len(h) /\ \A i \in DOMAIN h : h[i].id \in Nat
  BY HistoryTypes
<1>2. PICK pos \in [1..n -> P] :
         /\ n \in Nat /\ new \in Histories /\ Len(new) = n
         /\ \A k \in 1..n : new[k] = h[pos[k]]
         /\ \A i, k \in 1..n : i < k => pos[i] < pos[k]
         /\ \A p \in P : \E k \in 1..n : pos[k] = p
         /\ \A c \in Nat : 1..c \subseteq P => c <= n /\ \A k \in 1..c : pos[k] = k
  <2>1. P \in SUBSET DOMAIN h /\ h \in Seq(Versions) /\ new = Kept(h, P)
    BY DEF Histories, Dropped
  <2> HIDE DEF P, new
  <2>2. n \in Nat /\ Kept(h, P) \in Seq(Versions) /\ Len(Kept(h, P)) = n /\ \E pos : Selects(pos, h, P)
    BY <2>1, KeptFacts
  <2>3. PICK pos : Selects(pos, h, P)
    BY <2>2
  <2>4. /\ pos \in [1..n -> P]
        /\ \A k \in 1..n : Kept(h, P)[k] = h[pos[k]]
        /\ \A i, k \in 1..n : i < k => pos[i] < pos[k]
        /\ \A p \in P : \E k \in 1..n : pos[k] = p
        /\ \A c \in Nat : 1..c \subseteq P => c <= n /\ \A k \in 1..c : pos[k] = k
    BY <2>3 DEF Selects
  <2> QED
    BY <2>1, <2>2, <2>4 DEF Histories
<1>3. P \subseteq 1..Len(h) /\ \A p \in P : h[p].id # id
  BY <1>1
<1>a. \A p \in 1..Len(h) : h[p].id # id => p \in P
  BY <1>1
<1> HIDE DEF P, n, new
<1>4. DOMAIN new = 1..n
  BY <1>2, HistoryTypes
<1>5. Growing(new)
  <2> SUFFICES ASSUME NEW i \in 1..n, NEW k \in 1..n, i < k PROVE new[i].id < new[k].id
    BY <1>4 DEF Growing
  <2>1. pos[i] \in DOMAIN h /\ pos[k] \in DOMAIN h /\ pos[i] < pos[k]
    BY <1>1, <1>2, <1>3
  <2> QED
    BY <1>2, <2>1 DEF Growing
<1>6. b \in Nat /\ 1..b \subseteq P
  BY <1>1, <1>a
<1>7. b <= n /\ \A k \in 1..b : pos[k] = k /\ k \in 1..n
  <2>1. b <= n /\ \A k \in 1..b : pos[k] = k
    BY <1>2, <1>6
  <2> QED
    BY <1>2, <1>6, <2>1
<1>8. \A i \in 1..b : new[i] = h[i]
  BY <1>2, <1>7
<1>9. ASSUME NEW v \in Beyond(new, b) PROVE v \in Beyond(h, b) /\ v.id # id
  <2>1. PICK k \in (b + 1)..n : new[k] = v
    BY <1>2, <1>9 DEF Beyond
  <2>2. k \in 1..n /\ k > b /\ k \in Nat
    BY <1>2, <1>6, <2>1
  <2>a. pos[k] \in P /\ new[k] = h[pos[k]]
    BY <1>2, <2>2
  <2>3. pos[k] \in 1..Len(h) /\ v = h[pos[k]] /\ v.id # id
    BY <1>3, <2>1, <2>a
  <2>4. pos[k] > b
    <3>1. CASE b = 0
      BY <1>1, <2>3, <3>1
    <3>2. CASE b # 0
      <4>1. b \in 1..b /\ b < k
        BY <1>6, <2>2, <3>2
      <4>2. pos[b] = b /\ pos[b] < pos[k]
        BY <1>2, <1>7, <2>2, <4>1
      <4> QED
        BY <1>1, <1>6, <2>3, <4>2
    <3> QED
      BY <3>1, <3>2
  <2> QED
    BY <1>1, <1>6, <2>3, <2>4 DEF Beyond
<1>10. ASSUME NEW v \in Beyond(h, b), v.id # id PROVE v \in Beyond(new, b)
  <2>1. PICK i \in (b + 1)..Len(h) : h[i] = v
    BY <1>10 DEF Beyond
  <2>2. i \in P /\ i \in Nat /\ i > b
    BY <1>1, <1>6, <1>10, <1>a, <2>1
  <2>3. PICK k \in 1..n : pos[k] = i
    BY <1>2, <2>2
  <2>4. ~(k <= b)
    <3> SUFFICES ASSUME k <= b PROVE FALSE
      OBVIOUS
    <3>1. k \in 1..b
      BY <1>2, <1>6, <2>3
    <3> QED
      BY <1>6, <1>7, <2>2, <2>3, <3>1
  <2>5. k \in (b + 1)..n /\ new[k] = v
    BY <1>2, <1>6, <2>1, <2>3, <2>4
  <2> QED
    BY <1>2, <2>5 DEF Beyond
<1> QED
  BY <1>2, <1>5, <1>7, <1>8, <1>9, <1>10 DEF new

\* The versions of a history behind the first b are a history.
\* Each of S is in the sequence d.
Lists(d, S) == \A v \in S : \E k \in DOMAIN d : d[k] = v

LEMMA DeltaFacts ==
  ASSUME NEW h \in Histories, Growing(h), NEW b \in 0..Len(h),
         NEW d, d = SubSeq(h, b + 1, Len(h))
  PROVE  /\ d \in Histories /\ Growing(d)
         /\ \A k \in DOMAIN d : d[k] \in Beyond(h, b)
         /\ Lists(d, Beyond(h, b))
<1> DEFINE V == Versions
<1>1. Len(h) \in Nat /\ b \in Nat /\ b <= Len(h) /\ DOMAIN h = 1..Len(h)
  BY HistoryTypes
<1>2. h \in Seq(V)
  BY DEF Histories
<1> HIDE DEF V
<1>3. d \in Seq(V) /\ Len(d) = Len(h) - b /\ \A k \in 1..(Len(h) - b) : d[k] = h[b + k]
  <2>1. b + 1 \in Int /\ Len(h) \in Int /\ \A i \in (b + 1)..Len(h) : h[i] \in V
    BY <1>1, <1>2
  <2>2. /\ d \in Seq(V) /\ Len(d) = IF b + 1 <= Len(h) THEN Len(h) - (b + 1) + 1 ELSE 0
        /\ \A k \in 1..(Len(h) - (b + 1) + 1) : d[k] = h[b + 1 + k - 1]
    BY <2>1, SubSeqProperties
  <2>3. Len(d) = Len(h) - b /\ Len(h) - (b + 1) + 1 = Len(h) - b
    <3> DEFINE m == Len(h)
    <3>1. m \in Nat /\ b \in Nat /\ b <= m
      BY <1>1
    <3>2. Len(d) = IF b + 1 <= m THEN m - (b + 1) + 1 ELSE 0
      BY <2>2
    <3> HIDE DEF m
    <3>3. Len(d) = m - b /\ m - (b + 1) + 1 = m - b
      BY <3>1, <3>2
    <3> QED
      BY <3>3 DEF m
  <2>4. \A k \in 1..(Len(h) - b) : b + 1 + k - 1 = b + k
    BY <1>1
  <2> QED
    BY <2>2, <2>3, <2>4
<1>4. DOMAIN d = 1..(Len(h) - b)
  BY <1>3
<1>5. d \in Histories
  BY <1>3 DEF Histories, V
<1>6. Growing(d)
  <2> SUFFICES ASSUME NEW i \in DOMAIN d, NEW k \in DOMAIN d, i < k PROVE d[i].id < d[k].id
    BY DEF Growing
  <2>1. b + i \in DOMAIN h /\ b + k \in DOMAIN h /\ b + i < b + k
    BY <1>1, <1>4
  <2> QED
    BY <1>3, <1>4, <2>1 DEF Growing
<1>7. \A k \in DOMAIN d : d[k] = h[b + k] /\ d[k] \in Beyond(h, b)
  <2> TAKE k \in DOMAIN d
  <2> DEFINE m == Len(h)
  <2>0. k \in 1..(m - b) /\ m \in Nat /\ b \in Nat
    BY <1>1, <1>4
  <2> HIDE DEF m
  <2>1. d[k] = h[b + k]
    BY <1>3, <2>0 DEF m
  <2>2. b + k \in (b + 1)..m
    BY <2>0
  <2> QED
    BY <2>1, <2>2, Zenon DEF Beyond, m
<1>8. ASSUME NEW v \in Beyond(h, b) PROVE \E k \in DOMAIN d : d[k] = v
  <2>1. PICK i \in (b + 1)..Len(h) : h[i] = v
    BY DEF Beyond
  <2>2. i - b \in DOMAIN d /\ b + (i - b) = i
    BY <1>1, <1>4, <2>1
  <2> QED
    BY <1>3, <1>4, <2>1, <2>2
<1> QED
  <2>1. Lists(d, Beyond(h, b))
    BY <1>8, Zenon DEF Lists
  <2> QED
    BY <1>5, <1>6, <1>7, <2>1

-----------------------------------------------------------------------------
(***************************************************************************)
(* The invariant.  A job's part of it speaks of the state of that job only: *)
(* its threads, its items and its own copy of the manifest.                *)
(***************************************************************************)
Labels == {"done", "raised", "gate", "sem", "open", "sweep", "line", "load", "attempt",
           "start", "synth", "made", "final", "commit", "settle"}
Serving == Labels \ {"done", "raised", "gate"}
ThreadStates == [pc : Labels, rest : Seq(Seq(Tasks)), cur : Seq(Tasks), want : Nat]
ThreadsOf(j) == {x \in Threads : x[1] = j}

\* Where the run of a job is: before its threads start, and while it runs.
Early  == {"new", "pending", "loading", "loaded"}
Midway == {"loading", "loaded", "working", "persist", "finish"}
Phases == Early \cup Midway \cup {"refused", "done"}

\* Where a thread in state s has task t.
InCur(s, t)  == \E k \in DOMAIN s.cur : s.cur[k] = t
InRest(s, t) == \E i \in DOMAIN s.rest : \E k \in DOMAIN s.rest[i] : s.rest[i][k] = t
Has(s, t)    == InCur(s, t) \/ InRest(s, t)
OnHand(s, t) == s.cur # <<>> /\ s.cur[1] = t

\* A task the thread has not decided yet; at these labels the one on hand is.
Decided(s)  == s.pc \in {"settle", "raised"}
Waits(s, t) == Has(s, t) /\ ~(Decided(s) /\ OnHand(s, t))

\* It has no task twice.
Once(s) ==
  /\ \A i, k \in DOMAIN s.cur : s.cur[i] = s.cur[k] => i = k
  /\ \A i, m \in DOMAIN s.rest : \A k \in DOMAIN s.rest[i], n \in DOMAIN s.rest[m] :
       s.rest[i][k] = s.rest[m][n] => i = m /\ k = n
  /\ \A t \in Tasks : ~(InCur(s, t) /\ InRest(s, t))

Fits(s, j) ==
  /\ s \in ThreadStates
  /\ \A t \in Tasks : Has(s, t) => JobOf[t] = j /\ t \notin Unroutable
  /\ Once(s)
  /\ s.pc \in Serving => s.cur # <<>>
  /\ s.pc \in {"done", "gate"} => s.cur = <<>>
  /\ s.pc # "done" => \A i \in DOMAIN s.rest : s.rest[i] # <<>>

\* The versions job j made on line l, and those of one task.
Own(j, l) == Beyond(priv[j][l], Len(base[j][l]))
MadeOf(t)   == {v \in Own(JobOf[t], LineOf[t]) : v.task = t}

FailedItem(j)  == \E t \in TasksOf(j) : istat[t] = "failed"
At(x, t, labels) == th[x].pc \in labels /\ OnHand(th[x], t)

Types ==
  /\ known \subseteq Jobs
  /\ jstat \in [Jobs -> {"new", "queued", "running", "cancelling"} \cup Terminal]
  /\ run \in [Jobs -> Phases]
  /\ broken \subseteq Jobs /\ lost \subseteq Jobs /\ asked \subseteq Jobs
  /\ istat \in [Tasks -> {"queued", "active", "cancelling"} \cup Terminal]
  /\ iver \in [Tasks -> Nat]
  /\ store \in [Lines -> Histories]
  /\ base \in [Jobs -> [Lines -> Histories]]
  /\ priv \in [Jobs -> [Lines -> Histories]]
  /\ given \in [Jobs -> [Lines -> Seq([from : Nat, to : Nat])]]
  /\ ever \in [Lines -> SUBSET Versions]
  /\ th \in [Threads -> ThreadStates]

StoreGrows == \A l \in Lines : Growing(store[l])

\* Job j's own copy is the manifest it loaded and its own versions.
CopyKept(j) == \A l \in Lines :
  /\ Growing(base[j][l]) /\ Growing(priv[j][l])
  /\ Len(base[j][l]) <= Len(priv[j][l])
  /\ \A i \in 1..Len(base[j][l]) : priv[j][l][i] = base[j][l][i]
  /\ \A v \in Own(j, l) : v.task \in Tasks /\ JobOf[v.task] = j /\ LineOf[v.task] = l

\* What its status says of where it is.
StatusKept(j) ==
  /\ run[j] = "new" => j \notin known /\ \A t \in TasksOf(j) : istat[t] = "queued"
  /\ run[j] = "pending" => jstat[j] # "running" /\ (jstat[j] = "queued" => j \in known)
  /\ run[j] = "pending" /\ j \notin asked => j \in known /\ jstat[j] = "queued"
  /\ run[j] \in Midway /\ j \notin asked => jstat[j] = "running" /\ j \in known
  /\ run[j] \in Midway /\ j \notin known => jstat[j] \in Terminal
  /\ run[j] = "done" => jstat[j] \notin {"queued", "running"}
  /\ run[j] # "finish" /\ j \notin asked => \A l \in Lines : given[j][l] = <<>>
  /\ run[j] # "done" /\ jstat[j] = "cancelled" => \A t \in TasksOf(j) : istat[t] \in {"completed", "cancelled"}
  /\ run[j] \in Early => \A t \in TasksOf(j) \ Unroutable : istat[t] # "failed"

\* Its threads share no task, and work while it runs.
ThreadsKept(j) ==
  /\ \A x \in ThreadsOf(j) :
       /\ Fits(th[x], j)
       /\ th[x].pc \notin {"done", "raised"} => run[j] = "working"
       /\ run[j] \in Early => th[x].pc = "done"
       /\ th[x].pc = "done" /\ run[j] = "working" /\ j \notin asked => th[x].rest = <<>>
  /\ \A x, y \in ThreadsOf(j) : x # y => \A t \in Tasks : ~(Has(th[x], t) /\ Has(th[y], t))
  /\ run[j] \in Early =>
       \A t \in TasksOf(j) \ Unroutable : \E x \in ThreadsOf(j) : InRest(th[x], t)

\* A task has at most one version, and none while it waits.
VersionOnce(t) ==
  /\ \A v, w \in MadeOf(t) : v = w
  /\ \A x \in ThreadsOf(JobOf[t]) : Waits(th[x], t) => MadeOf(t) = {}
  /\ \A x \in ThreadsOf(JobOf[t]) : At(x, t, {"settle"}) => MadeOf(t) = {Version(iver[t], t, "completed")}
  /\ run[JobOf[t]] \in Early \cup {"refused"} => MadeOf(t) = {} /\ iver[t] = 0

\* It has one in the end, unless the user or an exception stops the job.
VersionMade(t) ==
  LET j == JobOf[t]
  IN /\ run[j] = "working" /\ j \notin asked =>
          MadeOf(t) # {} \/ \E x \in ThreadsOf(j) : Waits(th[x], t) \/ th[x].pc = "raised"
     /\ run[j] \in {"persist", "finish", "done"} /\ j \notin asked \cup broken => MadeOf(t) # {}

\* A completed version and an item that does not say so.
SilenceKept(t) ==
  LET j == JobOf[t]
  IN /\ \A v \in MadeOf(t) : v.status = "completed" =>
          \/ istat[t] = "completed" \/ FailedItem(j)
          \/ Cancelled(j) /\ \E x \in ThreadsOf(j) : At(x, t, {"settle"})
     /\ run[j] # "done" /\ istat[t] \in {"cancelling", "cancelled"} => Cancelled(j) \/ FailedItem(j)
     /\ run[j] = "done" /\ jstat[j] = "cancelled" /\ istat[t] = "cancelled" =>
          \A v \in MadeOf(t) : v.status # "completed"

\* The item of a job nobody cancelled names the version until it is persisted.
ItemKept(t) ==
  LET j == JobOf[t]
  IN j \notin asked =>
       /\ run[j] \in Early \ {"new"} /\ t \in Unroutable => istat[t] = "failed"
       /\ t \notin Unroutable /\ run[j] # "done" /\ MadeOf(t) = {} => istat[t] \in {"queued", "active"}
       /\ \A v \in MadeOf(t) : istat[t] = v.status
       /\ run[j] \notin {"finish", "done"} =>
            /\ Named(t) => \A v \in MadeOf(t) : iver[t] = v.id
            /\ MadeOf(t) = {} /\ iver[t] # 0 => \E x \in ThreadsOf(j) : At(x, t, {"final", "commit"})

\* What is persisted of a task is what was made of it.
OutcomeKept(t) ==
  LET j == JobOf[t]
  IN /\ run[j] \in Phases \ {"finish", "done"} => Outcomes(t) = {}
     /\ \A v, w \in Outcomes(t) : v = w
     /\ \A v \in Outcomes(t) : \E w \in MadeOf(t) : v.status = w.status
     /\ run[j] \in {"finish", "done"} /\ j \notin lost /\ MadeOf(t) # {} => Outcomes(t) # {}

\* Then the item is told the number it has there.
NumberKept(t) ==
  LET j == JobOf[t]
      left == given[j][LineOf[t]]
  IN run[j] \in {"finish", "done"} /\ j \notin lost \cup asked /\ Alone(t) /\ Named(t) =>
       \/ iver[t] = 0 /\ left = <<>>
       \/ \E v \in Outcomes(t) : /\ v.status = istat[t]
                                 /\ \/ left = <<>> /\ iver[t] = v.id
                                    \/ left = <<[from |-> iver[t], to |-> v.id]>>

TaskKept(t) == /\ VersionOnce(t) /\ VersionMade(t) /\ SilenceKept(t)
               /\ ItemKept(t) /\ OutcomeKept(t) /\ NumberKept(t)

JobKept(j) == /\ CopyKept(j) /\ StatusKept(j) /\ ThreadsKept(j)
              /\ \A t \in TasksOf(j) : TaskKept(t)

IInv == Types /\ StoreGrows /\ \A j \in Jobs : JobKept(j)

-----------------------------------------------------------------------------
(***************************************************************************)
(* What the states of a thread have to do with its tasks.                  *)
(***************************************************************************)
LEMMA ThreadTypes ==
  ASSUME NEW s \in ThreadStates
  PROVE  /\ s.pc \in Labels /\ s.want \in Nat
         /\ s.cur \in Seq(Tasks) /\ s.rest \in Seq(Seq(Tasks))
         /\ Len(s.cur) \in Nat /\ DOMAIN s.cur = 1..Len(s.cur)
         /\ \A k \in DOMAIN s.cur : s.cur[k] \in Tasks
         /\ s.cur # <<>> => 1 \in DOMAIN s.cur /\ s.cur[1] \in Tasks /\ Head(s.cur) = s.cur[1]
BY DEF ThreadStates

\* A thread takes the next cluster.
LEMMA TakeFits ==
  ASSUME NEW j \in Jobs, NEW s, Fits(s, j), s.pc = "gate", s.rest # <<>>,
         NEW n, n = [s EXCEPT !.pc = "sem", !.cur = Head(s.rest), !.rest = Tail(s.rest)]
  PROVE  /\ Fits(n, j)
         /\ \A t \in Tasks : (Has(n, t) <=> Has(s, t)) /\ (Waits(n, t) <=> Waits(s, t))
<1>1. s \in ThreadStates /\ s.cur = <<>> /\ s.rest \in Seq(Seq(Tasks)) /\ \A i \in DOMAIN s.rest : s.rest[i] # <<>>
  BY DEF Fits, ThreadStates
<1>2. /\ Head(s.rest) = s.rest[1] /\ 1 \in DOMAIN s.rest /\ s.rest[1] \in Seq(Tasks) /\ s.rest[1] # <<>>
      /\ Tail(s.rest) \in Seq(Seq(Tasks)) /\ DOMAIN Tail(s.rest) = 1..(Len(s.rest) - 1)
      /\ DOMAIN s.rest = 1..Len(s.rest) /\ Len(s.rest) \in Nat
      /\ \A i \in 1..(Len(s.rest) - 1) : Tail(s.rest)[i] = s.rest[i + 1]
  BY <1>1
<1>3. /\ n \in ThreadStates /\ n.pc = "sem" /\ n.cur = s.rest[1] /\ DOMAIN n.rest = 1..(Len(s.rest) - 1)
      /\ \A i \in DOMAIN n.rest : n.rest[i] = s.rest[i + 1] /\ i + 1 \in DOMAIN s.rest /\ i + 1 # 1
  <2>1. n.pc = "sem" /\ n.cur = Head(s.rest) /\ n.rest = Tail(s.rest) /\ n.want = s.want
    BY <1>1 DEF ThreadStates
  <2>2. n = [pc |-> "sem", rest |-> Tail(s.rest), cur |-> Head(s.rest), want |-> s.want]
    BY <1>1 DEF ThreadStates
  <2>3. n \in ThreadStates
    BY <1>1, <1>2, <2>2 DEF ThreadStates, Labels
  <2> QED
    BY <1>2, <2>1, <2>3
<1>4. \A t : InRest(s, t) <=> InCur(n, t) \/ InRest(n, t)
  <2> TAKE t
  <2>1. ASSUME NEW i \in DOMAIN s.rest, NEW k \in DOMAIN s.rest[i], s.rest[i][k] = t PROVE InCur(n, t) \/ InRest(n, t)
    <3>1. CASE i = 1
      BY <1>3, <2>1, <3>1 DEF InCur
    <3>2. CASE i # 1
      <4>1. i \in Nat /\ i - 1 \in 1..(Len(s.rest) - 1) /\ (i - 1) + 1 = i
        BY <1>2, <3>2
      <4>2. i - 1 \in DOMAIN n.rest /\ n.rest[i - 1] = s.rest[i]
        BY <1>3, <4>1
      <4> QED
        BY <2>1, <4>2 DEF InRest
    <3> QED
      BY <3>1, <3>2
  <2>2. InCur(n, t) => InRest(s, t)
    BY <1>2, <1>3 DEF InCur, InRest
  <2>3. InRest(n, t) => InRest(s, t)
    BY <1>3 DEF InRest
  <2> QED
    BY <2>1, <2>2, <2>3 DEF InRest
<1>5. \A t : ~InCur(s, t)
  BY <1>1 DEF InCur
<1>6. \A t \in Tasks : (Has(n, t) <=> Has(s, t)) /\ (Waits(n, t) <=> Waits(s, t))
  BY <1>1, <1>3, <1>4, <1>5 DEF Has, Waits, Decided, InCur
<1>7. Once(n)
  <2>a. \A i, m \in DOMAIN s.rest : \A k \in DOMAIN s.rest[i], q \in DOMAIN s.rest[m] :
          s.rest[i][k] = s.rest[m][q] => i = m /\ k = q
    BY DEF Fits, Once
  <2>b. 1 \in DOMAIN s.rest /\ n.cur = s.rest[1]
    BY <1>2, <1>3
  <2>c. \A k \in DOMAIN s.rest[1] : \A m \in DOMAIN s.rest : \A q \in DOMAIN s.rest[m] :
          s.rest[1][k] = s.rest[m][q] => 1 = m /\ k = q
    BY <2>a, <2>b
  <2>1. \A i, k \in DOMAIN n.cur : n.cur[i] = n.cur[k] => i = k
    BY <2>b, <2>c
  <2>2. ASSUME NEW i \in DOMAIN n.rest, NEW m \in DOMAIN n.rest, NEW k \in DOMAIN n.rest[i], NEW q \in DOMAIN n.rest[m],
               n.rest[i][k] = n.rest[m][q]
        PROVE  i = m /\ k = q
    <3>1. i + 1 = m + 1 /\ k = q
      BY <1>3, <2>2 DEF Fits, Once
    <3> QED
      BY <1>3, <3>1
  <2>3. ASSUME NEW t \in Tasks, InCur(n, t), InRest(n, t) PROVE FALSE
    <3>1. PICK k \in DOMAIN s.rest[1] : s.rest[1][k] = t
      BY <1>3, <2>3 DEF InCur
    <3>2. PICK i \in DOMAIN n.rest : \E q \in DOMAIN n.rest[i] : n.rest[i][q] = t
      BY <2>3 DEF InRest
    <3>3. PICK q \in DOMAIN n.rest[i] : n.rest[i][q] = t
      BY <3>2
    <3>4. i + 1 \in DOMAIN s.rest /\ i + 1 # 1 /\ q \in DOMAIN s.rest[i + 1] /\ s.rest[i + 1][q] = t
      BY <1>3, <3>3
    <3> QED
      BY <2>c, <3>1, <3>4
  <2> QED
    BY <2>1, <2>2, <2>3 DEF Once
<1>8. \A t \in Tasks : Has(n, t) => JobOf[t] = j /\ t \notin Unroutable
  BY <1>6 DEF Fits
<1>9. n.cur # <<>> /\ \A i \in DOMAIN n.rest : n.rest[i] # <<>>
  BY <1>1, <1>2, <1>3
<1> QED
  BY <1>3, <1>6, <1>7, <1>8, <1>9 DEF Fits

\* A thread keeps what it has, or gives up what it has at hand.
LEMMA GotoFits ==
  ASSUME NEW j \in Jobs, NEW s, Fits(s, j), s.pc # "done", NEW n \in ThreadStates, n.rest = s.rest,
         n.cur = s.cur \/ n.cur = <<>>,
         n.pc \in Serving => n.cur # <<>>, n.pc \in {"done", "gate"} => n.cur = <<>>
  PROVE  /\ Fits(n, j)
         /\ \A t \in Tasks : Has(n, t) => Has(s, t)
         /\ n.cur = s.cur => \A t \in Tasks : (Has(s, t) => Has(n, t)) /\ (OnHand(n, t) <=> OnHand(s, t))
<1>1. \A t : InRest(n, t) <=> InRest(s, t)
  BY DEF InRest
<1>2. \A t : InCur(n, t) => InCur(s, t)
  BY DEF InCur
<1>3. Once(n)
  <2>1. \A i, k \in DOMAIN n.cur : n.cur[i] = n.cur[k] => i = k
    BY DEF Fits, Once
  <2> QED
    BY <1>1, <1>2, <2>1 DEF Fits, Once
<1>4. n.cur = s.cur => \A t \in Tasks : (Has(s, t) => Has(n, t)) /\ (OnHand(n, t) <=> OnHand(s, t))
  BY <1>1 DEF Has, InCur, OnHand
<1> QED
  BY <1>1, <1>2, <1>3, <1>4 DEF Fits, Has

\* A thread leaves the task at hand.
LEMMA PopFits ==
  ASSUME NEW j \in Jobs, NEW s, Fits(s, j), s.pc # "done", s.cur # <<>>,
         NEW n \in ThreadStates, n.rest = s.rest, n.cur = Tail(s.cur),
         n.pc \in Serving => n.cur # <<>>, n.pc \in {"done", "gate"} => n.cur = <<>>
  PROVE  /\ Fits(n, j)
         /\ \A t \in Tasks : Has(n, t) <=> Has(s, t) /\ ~OnHand(s, t)
<1>1. \A t : InRest(n, t) <=> InRest(s, t)
  BY DEF InRest
<1>2. /\ Len(s.cur) \in Nat /\ DOMAIN s.cur = 1..Len(s.cur) /\ 1 \in DOMAIN s.cur
      /\ DOMAIN n.cur = 1..(Len(s.cur) - 1) /\ s.cur[1] \in Tasks
      /\ \A k \in DOMAIN n.cur : n.cur[k] = s.cur[k + 1] /\ k + 1 \in DOMAIN s.cur /\ k + 1 # 1 /\ k \in Nat
  <2>1. s.cur \in Seq(Tasks)
    BY DEF Fits, ThreadStates
  <2> QED
    BY <2>1
<1>3. \A i, k \in DOMAIN s.cur : s.cur[i] = s.cur[k] => i = k
  BY DEF Fits, Once
<1>4. ASSUME NEW t \in Tasks PROVE InCur(n, t) <=> InCur(s, t) /\ ~OnHand(s, t)
  <2>1. ASSUME NEW k \in DOMAIN n.cur, n.cur[k] = t PROVE InCur(s, t) /\ ~OnHand(s, t)
    BY <1>2, <1>3, <2>1 DEF InCur, OnHand
  <2>2. ASSUME NEW k \in DOMAIN s.cur, s.cur[k] = t, ~OnHand(s, t) PROVE InCur(n, t)
    <3>1. k # 1
      BY <2>2 DEF OnHand
    <3>2. k - 1 \in DOMAIN n.cur /\ (k - 1) + 1 = k
      BY <1>2, <3>1
    <3>3. n.cur[k - 1] = t
      BY <1>2, <2>2, <3>2
    <3> QED
      BY <3>2, <3>3 DEF InCur
  <2> QED
    BY <2>1, <2>2 DEF InCur
<1>5. \A t \in Tasks : OnHand(s, t) => InCur(s, t) /\ ~InRest(s, t)
  BY <1>2 DEF OnHand, InCur, Fits, Once
<1>6. \A t \in Tasks : Has(n, t) <=> Has(s, t) /\ ~OnHand(s, t)
  BY <1>1, <1>4, <1>5 DEF Has
<1>7. Once(n)
  <2>1. \A i, k \in DOMAIN n.cur : n.cur[i] = n.cur[k] => i = k
    <3> SUFFICES ASSUME NEW i \in DOMAIN n.cur, NEW k \in DOMAIN n.cur, n.cur[i] = n.cur[k] PROVE i = k
      OBVIOUS
    <3>1. i + 1 = k + 1 /\ i \in Nat /\ k \in Nat
      BY <1>2, <1>3
    <3> QED
      BY <3>1
  <2>2. \A t \in Tasks : ~(InCur(n, t) /\ InRest(n, t))
    BY <1>1, <1>4 DEF Fits, Once
  <2> QED
    BY <2>1, <2>2 DEF Fits, Once
<1> QED
  BY <1>6, <1>7 DEF Fits

-----------------------------------------------------------------------------
(***************************************************************************)
(* A job's own copy of the manifest.                                       *)
(***************************************************************************)
LEMMA CopyTypes ==
  ASSUME Types, NEW j \in Jobs, NEW l \in Lines, CopyKept(j)
  PROVE  LET b == Len(base[j][l])
             h == priv[j][l]
         IN /\ h \in Histories /\ Growing(h) /\ base[j][l] \in Histories /\ Growing(base[j][l])
            /\ b \in 0..Len(h) /\ \A i \in 1..b : h[i] = base[j][l][i]
            /\ Own(j, l) = Beyond(h, b)
<1>1. base[j][l] \in Histories /\ priv[j][l] \in Histories
  BY DEF Types
<1>2. Len(base[j][l]) \in Nat /\ Len(priv[j][l]) \in Nat
  BY <1>1, HistoryTypes
<1> QED
  BY <1>1, <1>2 DEF CopyKept, Own

\* The versions of a copy are told apart by their numbers.
LEMMA OwnIds ==
  ASSUME Types, NEW j \in Jobs, NEW l \in Lines, CopyKept(j)
  PROVE  /\ \A v, w \in Own(j, l) : v.id = w.id => v = w
         /\ \A v \in Own(j, l) : /\ v.id \in Nat \ {0} /\ v.status \in Terminal /\ v \in Versions
                                 /\ v = Version(v.id, v.task, v.status)
                                 /\ \A i \in 1..Len(base[j][l]) : priv[j][l][i].id # v.id
<1> DEFINE h == priv[j][l]
           b == Len(base[j][l])
<1>1. h \in Histories /\ Growing(h) /\ b \in 0..Len(h) /\ Own(j, l) = Beyond(h, b)
  BY CopyTypes
<1> HIDE DEF h, b
<1>2. /\ Len(h) \in Nat /\ DOMAIN h = 1..Len(h) /\ b \in Nat /\ b <= Len(h)
      /\ \A i \in DOMAIN h : /\ h[i] \in Versions /\ h[i].id \in Nat \ {0} /\ h[i].status \in Terminal
                             /\ h[i] = Version(h[i].id, h[i].task, h[i].status)
  BY <1>1, HistoryTypes
<1>3. \A i, k \in DOMAIN h : h[i].id = h[k].id => i = k
  <2> SUFFICES ASSUME NEW i \in DOMAIN h, NEW k \in DOMAIN h, i # k PROVE h[i].id # h[k].id
    OBVIOUS
  <2>1. i < k \/ k < i
    BY <1>2
  <2>2. h[i].id < h[k].id \/ h[k].id < h[i].id
    BY <1>1, <2>1 DEF Growing
  <2> QED
    BY <1>2, <2>2
<1>4. ASSUME NEW v \in Beyond(h, b)
      PROVE  \E i \in DOMAIN h : i > b /\ h[i] = v
  BY <1>2 DEF Beyond
<1>5. \A v, w \in Beyond(h, b) : v.id = w.id => v = w
  BY <1>3, <1>4
<1>6. ASSUME NEW v \in Beyond(h, b)
      PROVE  /\ v.id \in Nat \ {0} /\ v.status \in Terminal /\ v \in Versions
             /\ v = Version(v.id, v.task, v.status)
             /\ \A i \in 1..b : h[i].id # v.id
  <2>1. PICK k \in DOMAIN h : k > b /\ h[k] = v
    BY <1>4
  <2>2. \A i \in 1..b : h[i].id # v.id
    <3> TAKE i \in 1..b
    <3>1. i \in DOMAIN h /\ i # k
      BY <1>2, <2>1
    <3> QED
      BY <1>3, <2>1, <3>1
  <2> QED
    BY <1>2, <2>1, <2>2
<1> QED
  BY <1>1, <1>5, <1>6 DEF h, b

\* What Record does with a history that starts with what the job loaded.
LEMMA RecordKeeps ==
  ASSUME Types, NEW t \in Tasks, CopyKept(JobOf[t]), base' = base,
         NEW h \in Histories, Growing(h), NEW want \in Nat, NEW st \in Terminal,
         Len(base[JobOf[t]][LineOf[t]]) <= Len(h),
         \A i \in 1..Len(base[JobOf[t]][LineOf[t]]) : h[i] = base[JobOf[t]][LineOf[t]][i],
         Beyond(h, Len(base[JobOf[t]][LineOf[t]])) \subseteq Own(JobOf[t], LineOf[t]),
         Record(JobOf[t], t, h, want, st)
  PROVE  /\ CopyKept(JobOf[t])' /\ priv' \in [Jobs -> [Lines -> Histories]]
         /\ istat' = [istat EXCEPT ![t] = Told(@, st)]
         /\ iver' = [iver EXCEPT ![t] = iver'[t]] /\ iver'[t] \in Nat \ {0}
         /\ Own(JobOf[t], LineOf[t])' = Beyond(h, Len(base[JobOf[t]][LineOf[t]])) \cup {Version(iver'[t], t, st)}
         /\ \A m \in Lines \ {LineOf[t]} : Own(JobOf[t], m)' = Own(JobOf[t], m)
         /\ \A k \in Jobs \ {JobOf[t]} : priv'[k] = priv[k]
<1> DEFINE j == JobOf[t]
           l == LineOf[t]
           b == Len(base[j][l])
           new == Appended(h, want, t, st)
<1>1. j \in Jobs /\ l \in Lines
  BY TaskAssumption
<1>2. b \in 0..Len(h)
  <2>1. base[j][l] \in Histories
    BY <1>1 DEF Types
  <2>2. b \in Nat /\ Len(h) \in Nat
    BY <2>1, HistoryTypes
  <2> QED
    BY <2>2
<1>3. /\ priv' = [priv EXCEPT ![j][l] = new] /\ istat' = [istat EXCEPT ![t] = Told(@, st)]
      /\ iver' = [iver EXCEPT ![t] = Last1(new)]
  BY DEF Record
<1>4. iver'[t] = Last1(new) /\ iver' = [iver EXCEPT ![t] = iver'[t]]
  BY <1>3 DEF Types
<1>5. /\ new \in Histories /\ Growing(new) /\ Len(new) = Len(h) + 1
      /\ \A i \in DOMAIN h : new[i] = h[i]
      /\ Beyond(new, b) = Beyond(h, b) \cup {Version(iver'[t], t, st)}
      /\ iver'[t] \in Nat \ {0}
  <2>1. /\ new \in Histories /\ Growing(new) /\ Len(new) = Len(h) + 1
        /\ \A i \in DOMAIN h : new[i] = h[i]
        /\ Beyond(new, b) = Beyond(h, b) \cup {Version(Last1(new), t, st)}
        /\ Last1(new) \in Nat \ {0}
    <3> DEFINE c == b
    <3>1. c \in 0..Len(h)
      BY <1>2
    <3>a. new = Appended(h, want, t, st)
      OBVIOUS
    <3> HIDE DEF c, new
    <3>2. new \in Histories /\ Growing(new) /\ Len(new) = Len(h) + 1
      BY <3>1, <3>a, AppendedFacts
    <3>3. \A i \in DOMAIN h : new[i] = h[i]
      BY <3>1, <3>a, AppendedFacts
    <3>4. Beyond(new, c) = Beyond(h, c) \cup {Version(Last1(new), t, st)}
      BY <3>1, <3>a, AppendedFacts
    <3>5. Last1(new) \in Nat \ {0}
      BY <3>1, <3>a, AppendedFacts
    <3> QED
      BY <3>2, <3>3, <3>4, <3>5 DEF c
  <2> HIDE DEF new
  <2> QED
    BY <1>4, <2>1
<1> HIDE DEF new
<1>6. /\ priv'[j][l] = new
      /\ \A m \in Lines \ {l} : priv'[j][m] = priv[j][m]
      /\ \A k \in Jobs \ {j} : priv'[k] = priv[k]
      /\ priv' \in [Jobs -> [Lines -> Histories]]
  BY <1>1, <1>3, <1>5 DEF Types
<1>7. Own(j, l)' = Beyond(h, b) \cup {Version(iver'[t], t, st)}
  BY <1>5, <1>6 DEF Own
<1>8. \A m \in Lines \ {l} : Own(j, m)' = Own(j, m)
  BY <1>6 DEF Own
<1>9. ASSUME NEW m \in Lines
      PROVE  /\ Growing(base'[j][m]) /\ Growing(priv'[j][m])
             /\ Len(base'[j][m]) <= Len(priv'[j][m])
             /\ \A i \in 1..Len(base'[j][m]) : priv'[j][m][i] = base'[j][m][i]
             /\ \A v \in Own(j, m)' : v.task \in Tasks /\ JobOf[v.task] = j /\ LineOf[v.task] = m
  <2>1. CASE m # l
    BY <1>6, <1>8, <2>1 DEF CopyKept
  <2>2. CASE m = l
    <3>1. Len(h) \in Nat /\ DOMAIN h = 1..Len(h)
      BY HistoryTypes
    <3>2. b <= Len(new) /\ \A i \in 1..b : new[i] = base[j][l][i]
      BY <1>2, <1>5, <3>1
    <3>3. \A v \in Own(j, l)' : v.task \in Tasks /\ JobOf[v.task] = j /\ LineOf[v.task] = l
      BY <1>1, <1>7 DEF CopyKept, Version
    <3>4. Growing(base[j][l])
      BY <1>1 DEF CopyKept
    <3> QED
      BY <1>5, <1>6, <2>2, <3>2, <3>3, <3>4
  <2> QED
    BY <2>1, <2>2
<1>10. CopyKept(j)'
  BY <1>9 DEF CopyKept
<1> QED
  BY <1>3, <1>4, <1>5, <1>6, <1>7, <1>8, <1>10

\* The versions of the job's tasks after one of its task t got outcome st.
Recorded(t, st) ==
  /\ MadeOf(t)' = {Version(iver'[t], t, st)}
  /\ \A u \in TasksOf(JobOf[t]) \ {t} : MadeOf(u)' = MadeOf(u)
  /\ CopyKept(JobOf[t])' /\ priv' \in [Jobs -> [Lines -> Histories]]
  /\ istat' = [istat EXCEPT ![t] = Told(@, st)]
  /\ iver' = [iver EXCEPT ![t] = iver'[t]] /\ iver'[t] \in Nat \ {0}
  /\ \A k \in Jobs \ {JobOf[t]} : priv'[k] = priv[k]

\* A task that has no version yet gets one.
LEMMA OutcomeRecorded ==
  ASSUME Types, NEW t \in Tasks, CopyKept(JobOf[t]), base' = base, MadeOf(t) = {},
         NEW want \in Nat, NEW st \in Terminal,
         Record(JobOf[t], t, priv[JobOf[t]][LineOf[t]], want, st)
  PROVE  Recorded(t, st)
<1> DEFINE j == JobOf[t]
           l == LineOf[t]
<1>1. j \in Jobs /\ l \in Lines
  BY TaskAssumption
<1>2. /\ priv[j][l] \in Histories /\ Growing(priv[j][l]) /\ Len(base[j][l]) \in 0..Len(priv[j][l])
      /\ \A i \in 1..Len(base[j][l]) : priv[j][l][i] = base[j][l][i]
      /\ Own(j, l) = Beyond(priv[j][l], Len(base[j][l]))
  BY <1>1, CopyTypes
<1>3. /\ CopyKept(j)' /\ priv' \in [Jobs -> [Lines -> Histories]]
      /\ istat' = [istat EXCEPT ![t] = Told(@, st)]
      /\ iver' = [iver EXCEPT ![t] = iver'[t]] /\ iver'[t] \in Nat \ {0}
      /\ Own(j, l)' = Own(j, l) \cup {Version(iver'[t], t, st)}
      /\ \A m \in Lines \ {l} : Own(j, m)' = Own(j, m)
      /\ \A k \in Jobs \ {j} : priv'[k] = priv[k]
  <2> DEFINE h == priv[j][l]
             b == Len(base[j][l])
  <2>1. /\ b <= Len(h) /\ Beyond(h, b) \subseteq Own(j, l) /\ h \in Histories /\ Growing(h)
        /\ \A i \in 1..b : h[i] = base[j][l][i]
        /\ Record(j, t, h, want, st)
    BY <1>2
  <2>2. Own(j, l) = Beyond(h, b)
    BY <1>2
  <2> HIDE DEF h
  <2>3. /\ CopyKept(j)' /\ priv' \in [Jobs -> [Lines -> Histories]]
        /\ istat' = [istat EXCEPT ![t] = Told(@, st)]
        /\ iver' = [iver EXCEPT ![t] = iver'[t]] /\ iver'[t] \in Nat \ {0}
        /\ Own(j, l)' = Beyond(h, b) \cup {Version(iver'[t], t, st)}
        /\ \A m \in Lines \ {l} : Own(j, m)' = Own(j, m)
        /\ \A k \in Jobs \ {j} : priv'[k] = priv[k]
    BY <2>1, RecordKeeps
  <2> QED
    BY <2>2, <2>3
<1>4. Version(iver'[t], t, st).task = t
  BY DEF Version
<1>5. ASSUME NEW u \in TasksOf(j), u # t PROVE MadeOf(u)' = MadeOf(u)
  <2>1. JobOf[u] = j /\ LineOf[u] \in Lines
    BY TaskAssumption DEF TasksOf
  <2>2. {v \in Own(j, LineOf[u])' : v.task = u} = {v \in Own(j, LineOf[u]) : v.task = u}
    BY <1>3, <1>4, <1>5, <2>1
  <2> QED
    BY <2>1, <2>2 DEF MadeOf
<1>6. MadeOf(t)' = {Version(iver'[t], t, st)}
  BY <1>3, <1>4 DEF MadeOf
<1> QED
  BY <1>3, <1>5, <1>6 DEF Recorded

\* A committed version is taken back for another outcome.
LEMMA OutcomeReplaced ==
  ASSUME Types, NEW t \in Tasks, CopyKept(JobOf[t]), base' = base,
         MadeOf(t) = {Version(iver[t], t, "completed")},
         NEW want \in Nat, NEW st \in Terminal,
         Record(JobOf[t], t, Dropped(priv[JobOf[t]][LineOf[t]], iver[t]), want, st)
  PROVE  Recorded(t, st)
<1> DEFINE j == JobOf[t]
           l == LineOf[t]
           b == Len(base[j][l])
           h == Dropped(priv[j][l], iver[t])
<1>1. j \in Jobs /\ l \in Lines
  BY TaskAssumption
<1>2. /\ priv[j][l] \in Histories /\ Growing(priv[j][l]) /\ b \in 0..Len(priv[j][l])
      /\ \A i \in 1..b : priv[j][l][i] = base[j][l][i]
      /\ Own(j, l) = Beyond(priv[j][l], b)
  BY <1>1, CopyTypes
<1>3. Version(iver[t], t, "completed") \in Own(j, l)
  BY DEF MadeOf
<1>4. \A i \in 1..b : priv[j][l][i].id # iver[t]
  BY <1>1, <1>3, OwnIds DEF Version
<1>5. /\ h \in Histories /\ Growing(h) /\ b <= Len(h)
      /\ \A i \in 1..b : h[i] = priv[j][l][i]
      /\ Beyond(h, b) = {v \in Own(j, l) : v.id # iver[t]}
  <2> DEFINE g == priv[j][l]
             c == b
             id == iver[t]
  <2>1. g \in Histories /\ Growing(g) /\ c \in 0..Len(g) /\ \A i \in 1..c : g[i].id # id
    BY <1>2, <1>4
  <2>2. h = Dropped(g, id) /\ Own(j, l) = Beyond(g, c)
    BY <1>2
  <2> HIDE DEF g, c, id, h
  <2>3. /\ h \in Histories /\ Growing(h) /\ c <= Len(h)
        /\ \A i \in 1..c : h[i] = g[i]
        /\ Beyond(h, c) = {v \in Beyond(g, c) : v.id # id}
    BY <2>1, <2>2, DroppedFacts
  <2> QED
    BY <2>2, <2>3 DEF g, c, id
<1> HIDE DEF h
<1>6. /\ CopyKept(j)' /\ priv' \in [Jobs -> [Lines -> Histories]]
      /\ istat' = [istat EXCEPT ![t] = Told(@, st)]
      /\ iver' = [iver EXCEPT ![t] = iver'[t]] /\ iver'[t] \in Nat \ {0}
      /\ Own(j, l)' = Beyond(h, b) \cup {Version(iver'[t], t, st)}
      /\ \A m \in Lines \ {l} : Own(j, m)' = Own(j, m)
      /\ \A k \in Jobs \ {j} : priv'[k] = priv[k]
  <2>1. \A i \in 1..b : h[i] = base[j][l][i]
    BY <1>2, <1>5
  <2>2. Beyond(h, b) \subseteq Own(j, l) /\ Record(j, t, h, want, st)
    BY <1>5 DEF h
  <2> QED
    BY <1>5, <2>1, <2>2, RecordKeeps
<1>7. Version(iver'[t], t, st).task = t /\ Version(iver[t], t, "completed").task = t
      /\ Version(iver[t], t, "completed").id = iver[t]
  BY DEF Version
<1>8. \A v \in Own(j, l) : v.task # t => v.id # iver[t]
  BY <1>1, <1>3, <1>7, OwnIds
<1>9. ASSUME NEW u \in TasksOf(j), u # t PROVE MadeOf(u)' = MadeOf(u)
  <2>1. JobOf[u] = j /\ LineOf[u] \in Lines
    BY TaskAssumption DEF TasksOf
  <2>2. {v \in Own(j, LineOf[u])' : v.task = u} = {v \in Own(j, LineOf[u]) : v.task = u}
    <3>1. CASE LineOf[u] # l
      BY <1>6, <2>1, <3>1
    <3>2. CASE LineOf[u] = l
      BY <1>5, <1>6, <1>7, <1>8, <1>9, <3>2
    <3> QED
      BY <3>1, <3>2
  <2> QED
    BY <2>1, <2>2 DEF MadeOf
<1>10. MadeOf(t)' = {Version(iver'[t], t, st)}
  <2>1. \A v \in Beyond(h, b) : v.task # t
    <3> SUFFICES ASSUME NEW v \in Own(j, l), v.id # iver[t], v.task = t PROVE FALSE
      BY <1>5
    <3>1. v \in MadeOf(t)
      BY DEF MadeOf
    <3> QED
      BY <1>7, <3>1
  <2> QED
    BY <1>6, <1>7, <2>1 DEF MadeOf
<1> QED
  BY <1>6, <1>9, <1>10 DEF Recorded

-----------------------------------------------------------------------------
(***************************************************************************)
(* A step that leaves a job alone keeps its part of the invariant.         *)
(***************************************************************************)
Untouched(j) ==
  /\ (j \in known' <=> j \in known) /\ (j \in asked' <=> j \in asked)
  /\ (j \in broken' <=> j \in broken) /\ (j \in lost' <=> j \in lost)
  /\ jstat'[j] = jstat[j] /\ run'[j] = run[j]
  /\ base'[j] = base[j] /\ priv'[j] = priv[j] /\ given'[j] = given[j]
  /\ \A t \in TasksOf(j) : istat'[t] = istat[t] /\ iver'[t] = iver[t] /\ Outcomes(t)' = Outcomes(t)
  /\ \A x \in ThreadsOf(j) : th'[x] = th[x]

LEMMA UntouchedKept ==
  ASSUME NEW j \in Jobs, JobKept(j), Untouched(j)
  PROVE  JobKept(j)'
<1>1. \A l \in Lines : Own(j, l)' = Own(j, l)
  BY DEF Untouched, Own
<1>2. \A t \in TasksOf(j) : MadeOf(t)' = MadeOf(t) /\ JobOf[t] = j /\ LineOf[t] \in Lines
  <2> TAKE t \in TasksOf(j)
  <2>1. JobOf[t] = j /\ LineOf[t] \in Lines
    BY TaskAssumption DEF TasksOf
  <2> QED
    BY <1>1, <2>1 DEF MadeOf
<1>3. (FailedItem(j)' <=> FailedItem(j)) /\ (Cancelled(j)' <=> Cancelled(j))
  BY DEF Untouched, FailedItem, Cancelled
<1>4. CopyKept(j)'
  BY <1>1 DEF Untouched, JobKept, CopyKept
<1>5. StatusKept(j)'
  BY DEF Untouched, JobKept, StatusKept
<1>6. ThreadsKept(j)'
  BY DEF Untouched, JobKept, ThreadsKept
<1>7. ASSUME NEW t \in TasksOf(j) PROVE TaskKept(t)'
  <2>1. TaskKept(t) /\ JobOf[t] = j
    BY <1>2 DEF JobKept
  <2>2. \A x \in ThreadsOf(j) : /\ (At(x, t, {"settle"})' <=> At(x, t, {"settle"}))
                                 /\ (At(x, t, {"final", "commit"})' <=> At(x, t, {"final", "commit"}))
    BY DEF Untouched, At
  <2>3. VersionOnce(t)'
    BY <1>2, <2>1, <2>2 DEF Untouched, TaskKept, VersionOnce
  <2>4. VersionMade(t)'
    BY <1>2, <2>1 DEF Untouched, TaskKept, VersionMade
  <2>5. SilenceKept(t)'
    BY <1>2, <1>3, <2>1, <2>2 DEF Untouched, TaskKept, SilenceKept
  <2>6. ItemKept(t)'
    BY <1>2, <2>1, <2>2 DEF Untouched, TaskKept, ItemKept, Early, Named
  <2>7. OutcomeKept(t)'
    BY <1>2, <2>1 DEF Untouched, TaskKept, OutcomeKept
  <2>8. NumberKept(t)'
    BY <2>1 DEF Untouched, TaskKept, NumberKept, Named
  <2> QED
    BY <2>3, <2>4, <2>5, <2>6, <2>7, <2>8 DEF TaskKept
<1> QED
  BY <1>4, <1>5, <1>6, <1>7 DEF JobKept

-----------------------------------------------------------------------------
(***************************************************************************)
(* A step of a thread that records no version.                             *)
(***************************************************************************)
Acts(x, n) == /\ th' = [th EXCEPT ![x] = n]
              /\ UNCHANGED <<known, jstat, run, broken, lost, store, base, given, asked, ever>>

Steady(t) == istat'[t] = istat[t] /\ iver'[t] = iver[t]

\* The item of the task at hand is told the progress.
Moving(x, n, t) ==
  /\ OnHand(th[x], t) /\ Waits(th[x], t)
  /\ istat'[t] \in {Told(istat[t], "active"), Told(istat[t], "queued")}
  /\ iver'[t] = iver[t] \/ (n.pc = "final" /\ OnHand(n, t))

LEMMA ToldFacts ==
  /\ \A w : \A s \in Terminal : Told(s, w) = s
  /\ \A w : Told("cancelling", w) = IF w \in {"cancelled", "failed"} THEN w ELSE "cancelling"
  /\ \A w : \A s \in {"queued", "active"} : Told(s, w) = w
BY DEF Told, Terminal

LEMMA ActsFacts ==
  ASSUME Types, NEW j \in Jobs, NEW x \in ThreadsOf(j), JobKept(j), NEW n, Acts(x, n),
         th[x].pc \notin {"done", "raised"}
  PROVE  /\ run[j] = "working" /\ th'[x] = n /\ \A y \in Threads \ {x} : th'[y] = th[y]
         /\ x \in Threads /\ x[1] = j
         /\ \A t : Outcomes(t)' = Outcomes(t)
         /\ Fits(th[x], j)
<1>1. x \in Threads /\ x[1] = j
  BY DEF ThreadsOf
<1> QED
  BY <1>1 DEF Types, Acts, JobKept, ThreadsKept, Outcomes

LEMMA MoveKept ==
  ASSUME Types, NEW j \in Jobs, NEW x \in ThreadsOf(j), JobKept(j), NEW n, Acts(x, n),
         th[x].pc \notin {"done", "raised"}, priv' = priv,
         Fits(n, j), n.pc \notin {"settle", "raised"},
         \A t \in Tasks : Has(n, t) => Has(th[x], t),
         \A t \in Tasks : Waits(n, t) => Waits(th[x], t),
         j \notin asked => \A t \in Tasks : /\ Waits(th[x], t) => Waits(n, t)
                                            /\ At(x, t, {"final", "commit"}) =>
                                                 n.pc \in {"final", "commit"} /\ OnHand(n, t),
         j \notin asked /\ n.pc = "done" => n.rest = <<>>,
         th[x].pc = "settle" => ~Cancelled(j),
         \A t \in Tasks : Steady(t) \/ Moving(x, n, t)
  PROVE  /\ JobKept(j)'
         /\ \A k \in Jobs \ {j} : Untouched(k)
<1>1. /\ run[j] = "working" /\ th'[x] = n /\ \A y \in Threads \ {x} : th'[y] = th[y]
      /\ x \in Threads /\ x[1] = j
      /\ \A t : Outcomes(t)' = Outcomes(t)
      /\ Fits(th[x], j)
  BY ActsFacts
<1>2. /\ jstat' = jstat /\ run' = run /\ asked' = asked /\ known' = known /\ broken' = broken /\ lost' = lost
      /\ base' = base /\ given' = given
  BY DEF Acts
<1>3. \A t : MadeOf(t)' = MadeOf(t)
  BY <1>2 DEF MadeOf, Own
<1>4. \A t \in TasksOf(j) : t \in Tasks /\ JobOf[t] = j /\ TaskKept(t)
  BY DEF TasksOf, JobKept
<1>5. \A t \in TasksOf(j) : Moving(x, n, t) => MadeOf(t) = {}
  BY <1>4 DEF Moving, TaskKept, VersionOnce
<1>6. \A t \in Tasks : Moving(x, n, t) => JobOf[t] = j
  BY <1>1 DEF Moving, Waits, Fits
<1>7. \A t \in Tasks : /\ istat[t] \in Terminal \cup {"cancelling"} => istat'[t] = istat[t]
                       /\ istat[t] \in {"queued", "active"} => istat'[t] \in {"queued", "active"}
  <2> TAKE t \in Tasks
  <2>1. CASE Steady(t)
    BY <2>1 DEF Steady
  <2>2. CASE istat'[t] \in {Told(istat[t], "active"), Told(istat[t], "queued")}
    BY <2>2, ToldFacts
  <2> QED
    BY <2>1, <2>2 DEF Moving
<1>8. istat \in [Tasks -> {"queued", "active", "cancelling"} \cup Terminal]
  BY DEF Types
<1>9. (FailedItem(j) => FailedItem(j)') /\ (Cancelled(j)' <=> Cancelled(j))
  BY <1>2, <1>4, <1>7 DEF FailedItem, Cancelled, Terminal
<1>10. CopyKept(j)'
  BY <1>2 DEF JobKept, CopyKept, Own
<1>11. StatusKept(j)'
  <2>1. \A t \in TasksOf(j) : istat[t] \in {"completed", "cancelled"} => istat'[t] = istat[t]
    BY <1>4, <1>7 DEF Terminal
  <2> QED
    BY <1>1, <1>2, <2>1 DEF JobKept, StatusKept, Early
<1>12. ThreadsKept(j)'
  <2>1. ASSUME NEW y \in ThreadsOf(j)
        PROVE  /\ Fits(th'[y], j)
               /\ th'[y].pc \notin {"done", "raised"} => run'[j] = "working"
               /\ run'[j] \in Early => th'[y].pc = "done"
               /\ th'[y].pc = "done" /\ run'[j] = "working" /\ j \notin asked' => th'[y].rest = <<>>
               /\ \A t \in Tasks : Has(th'[y], t) => Has(th[y], t)
    BY <1>1, <1>2 DEF JobKept, ThreadsKept, ThreadsOf
  <2> QED
    BY <1>1, <1>2, <2>1 DEF JobKept, ThreadsKept
<1>13. ASSUME NEW t \in TasksOf(j) PROVE TaskKept(t)'
  <2> USE <1>4
  <2>1. VersionOnce(t)'
    <3>1. ASSUME NEW y \in ThreadsOf(j), Waits(th'[y], t) PROVE MadeOf(t) = {}
      <4>1. Waits(th[y], t)
        BY <1>1, <3>1 DEF ThreadsOf
      <4> QED
        BY <4>1 DEF TaskKept, VersionOnce
    <3>2. ASSUME NEW y \in ThreadsOf(j), At(y, t, {"settle"})' PROVE MadeOf(t) = {Version(iver'[t], t, "completed")}
      <4>1. y # x /\ At(y, t, {"settle"})
        BY <1>1, <3>2 DEF At, ThreadsOf
      <4>2. MadeOf(t) = {Version(iver[t], t, "completed")}
        BY <4>1 DEF TaskKept, VersionOnce
      <4>3. iver'[t] = iver[t]
        BY <1>5, <4>2 DEF Steady
      <4> QED
        BY <4>2, <4>3
    <3> QED
      BY <1>1, <1>2, <1>3, <3>1, <3>2 DEF TaskKept, VersionOnce, Early
  <2>2. VersionMade(t)'
    <3>1. ASSUME j \notin asked, MadeOf(t) = {} PROVE \E y \in ThreadsOf(j) : Waits(th'[y], t) \/ th'[y].pc = "raised"
      <4>1. PICK y \in ThreadsOf(j) : Waits(th[y], t) \/ th[y].pc = "raised"
        BY <1>1, <3>1 DEF TaskKept, VersionMade
      <4>2. Waits(th'[y], t) \/ th'[y].pc = "raised"
        BY <1>1, <3>1, <4>1 DEF ThreadsOf
      <4> QED
        BY <4>2
    <3> QED
      BY <1>1, <1>2, <1>3, <3>1 DEF VersionMade
  <2>3. SilenceKept(t)'
    <3>1. ASSUME NEW v \in MadeOf(t), v.status = "completed"
          PROVE  \/ istat'[t] = "completed" \/ FailedItem(j)'
                 \/ Cancelled(j)' /\ \E y \in ThreadsOf(j) : At(y, t, {"settle"})'
      <4>1. CASE istat[t] = "completed" \/ FailedItem(j)
        BY <1>7, <1>9, <4>1 DEF Terminal
      <4>2. CASE Cancelled(j) /\ \E y \in ThreadsOf(j) : At(y, t, {"settle"})
        <5>1. PICK y \in ThreadsOf(j) : At(y, t, {"settle"})
          BY <4>2
        <5>2. y # x
          BY <4>2, <5>1 DEF At
        <5>3. At(y, t, {"settle"})'
          BY <1>1, <5>1, <5>2 DEF At, ThreadsOf
        <5> QED
          BY <1>9, <4>2, <5>3
      <4> QED
        BY <3>1, <4>1, <4>2 DEF TaskKept, SilenceKept
    <3>2. istat'[t] \in {"cancelling", "cancelled"} => Cancelled(j)' \/ FailedItem(j)'
      <4>1. istat'[t] \in {"cancelling", "cancelled"} => istat[t] \in {"cancelling", "cancelled"}
        BY <1>7, <1>8 DEF Terminal
      <4> QED
        BY <1>1, <1>9, <4>1 DEF TaskKept, SilenceKept
    <3> QED
      BY <1>1, <1>2, <1>3, <3>1, <3>2 DEF SilenceKept
  <2>4. ItemKept(t)'
    <3> SUFFICES ASSUME j \notin asked
                 PROVE  /\ t \notin Unroutable /\ MadeOf(t) = {} => istat'[t] \in {"queued", "active"}
                        /\ \A v \in MadeOf(t) : istat'[t] = v.status /\ (Named(t) => iver'[t] = v.id)
                        /\ MadeOf(t) = {} /\ iver'[t] # 0 => \E y \in ThreadsOf(j) : At(y, t, {"final", "commit"})'
      BY <1>1, <1>2, <1>3 DEF ItemKept, Early, Named
    <3>1. ItemKept(t)
      BY DEF TaskKept
    <3>2. t \notin Unroutable /\ MadeOf(t) = {} => istat'[t] \in {"queued", "active"}
      BY <1>1, <1>7, <3>1 DEF ItemKept
    <3>3. \A v \in MadeOf(t) : istat'[t] = v.status /\ (Named(t) => iver'[t] = v.id)
      BY <1>1, <1>5, <3>1 DEF ItemKept, Steady
    <3>4. ASSUME MadeOf(t) = {}, iver'[t] # 0 PROVE \E y \in ThreadsOf(j) : At(y, t, {"final", "commit"})'
      <4>1. CASE n.pc = "final" /\ OnHand(n, t)
        BY <1>1, <4>1 DEF At
      <4>2. CASE iver'[t] = iver[t]
        <5>1. PICK y \in ThreadsOf(j) : At(y, t, {"final", "commit"})
          BY <1>1, <3>1, <3>4, <4>2 DEF ItemKept
        <5>2. At(y, t, {"final", "commit"})'
          BY <1>1, <5>1 DEF At, ThreadsOf
        <5> QED
          BY <5>2
      <4> QED
        BY <4>1, <4>2 DEF Steady, Moving
    <3> QED
      BY <3>2, <3>3, <3>4
  <2>5. OutcomeKept(t)'
    BY <1>1, <1>2, <1>3 DEF TaskKept, OutcomeKept
  <2>6. NumberKept(t)'
    BY <1>1, <1>2 DEF NumberKept
  <2> QED
    BY <2>1, <2>2, <2>3, <2>4, <2>5, <2>6 DEF TaskKept
<1>14. ASSUME NEW k \in Jobs \ {j} PROVE Untouched(k)
  <2>1. \A t \in TasksOf(k) : Steady(t)
    BY <1>6 DEF TasksOf
  <2>2. \A y \in ThreadsOf(k) : th'[y] = th[y]
    BY <1>1 DEF ThreadsOf
  <2> QED
    BY <1>1, <1>2, <2>1, <2>2 DEF Untouched, Steady
<1> QED
  BY <1>10, <1>11, <1>12, <1>13, <1>14 DEF JobKept

-----------------------------------------------------------------------------
(***************************************************************************)
(* A step of a thread that records an outcome of the task at hand.         *)
(***************************************************************************)
LEMMA RecordKept ==
  ASSUME Types, NEW j \in Jobs, NEW x \in ThreadsOf(j), JobKept(j), NEW n, Acts(x, n),
         th[x].pc \notin {"done", "raised"},
         NEW t \in TasksOf(j), OnHand(th[x], t), NEW st \in Terminal, Recorded(t, st),
         Fits(n, j), n.pc \notin {"done", "final", "commit"},
         \A u \in Tasks : Has(n, u) => Has(th[x], u),
         \A u \in Tasks : Waits(n, u) <=> Waits(th[x], u) /\ u # t,
         n.pc = "settle" <=> st = "completed",
         n.pc = "settle" => OnHand(n, t),
         st = "cancelled" => Cancelled(j),
         th[x].pc = "settle" => Cancelled(j)
  PROVE  /\ JobKept(j)'
         /\ \A k \in Jobs \ {j} : Untouched(k)
<1>1. /\ run[j] = "working" /\ th'[x] = n /\ \A y \in Threads \ {x} : th'[y] = th[y]
      /\ x \in Threads /\ x[1] = j
      /\ \A u : Outcomes(u)' = Outcomes(u)
      /\ Fits(th[x], j)
  BY ActsFacts
<1>2. /\ jstat' = jstat /\ run' = run /\ asked' = asked /\ known' = known /\ broken' = broken /\ lost' = lost
      /\ base' = base /\ given' = given
  BY DEF Acts
<1>3. t \in Tasks /\ JobOf[t] = j /\ \A u \in TasksOf(j) : u \in Tasks /\ JobOf[u] = j /\ TaskKept(u)
  BY DEF TasksOf, JobKept
<1>4. /\ MadeOf(t)' = {Version(iver'[t], t, st)}
      /\ \A u \in TasksOf(j) \ {t} : MadeOf(u)' = MadeOf(u)
      /\ CopyKept(j)'
      /\ istat'[t] = Told(istat[t], st) /\ \A u \in Tasks \ {t} : istat'[u] = istat[u] /\ iver'[u] = iver[u]
      /\ \A k \in Jobs \ {j} : priv'[k] = priv[k]
  BY <1>3 DEF Recorded, Types
<1>5. istat \in [Tasks -> {"queued", "active", "cancelling"} \cup Terminal]
  BY DEF Types
<1>6. (FailedItem(j) => FailedItem(j)') /\ (Cancelled(j)' <=> Cancelled(j))
  <2>1. \A u \in Tasks : istat[u] = "failed" => istat'[u] = "failed"
    BY <1>4, ToldFacts DEF Terminal
  <2> QED
    BY <1>2, <1>3, <2>1 DEF FailedItem, Cancelled
\* No other thread has the task.
<1>7. \A y \in ThreadsOf(j) \ {x} : ~Has(th[y], t) /\ ~OnHand(th[y], t)
  <2>1. \A y \in ThreadsOf(j) : OnHand(th[y], t) => Has(th[y], t)
    <3> SUFFICES ASSUME NEW y \in ThreadsOf(j), OnHand(th[y], t) PROVE InCur(th[y], t)
      BY DEF Has
    <3>1. th[y] \in ThreadStates
      BY DEF JobKept, ThreadsKept, Fits
    <3> QED
      BY <3>1, ThreadTypes DEF OnHand, InCur
  <2> QED
    BY <1>3, <2>1 DEF JobKept, ThreadsKept
<1>8. Version(iver'[t], t, st).status = st /\ Version(iver'[t], t, st).id = iver'[t]
  BY DEF Version
<1>9. StatusKept(j)'
  <2>1. \A u \in TasksOf(j) : istat[u] \in {"completed", "cancelled"} => istat'[u] = istat[u]
    BY <1>3, <1>4, ToldFacts DEF Terminal
  <2> QED
    BY <1>1, <1>2, <2>1 DEF JobKept, StatusKept, Early
<1>10. ThreadsKept(j)'
  <2>1. ASSUME NEW y \in ThreadsOf(j)
        PROVE  /\ Fits(th'[y], j)
               /\ th'[y].pc \notin {"done", "raised"} => run'[j] = "working"
               /\ run'[j] \in Early => th'[y].pc = "done"
               /\ th'[y].pc = "done" /\ run'[j] = "working" /\ j \notin asked' => th'[y].rest = <<>>
               /\ \A u \in Tasks : Has(th'[y], u) => Has(th[y], u)
    BY <1>1, <1>2 DEF JobKept, ThreadsKept, ThreadsOf
  <2> QED
    BY <1>1, <1>2, <2>1 DEF JobKept, ThreadsKept
\* The task itself.
<1>11. TaskKept(t)'
  <2>0. TaskKept(t)
    BY <1>3
  <2>1. VersionOnce(t)'
    <3>1. \A y \in ThreadsOf(j) : ~Waits(th'[y], t)
      <4> TAKE y \in ThreadsOf(j)
      <4>1. CASE y = x
        BY <1>1, <1>3, <4>1
      <4>2. CASE y # x
        BY <1>1, <1>7, <4>2 DEF ThreadsOf, Waits
      <4> QED
        BY <4>1, <4>2
    <3>2. ASSUME NEW y \in ThreadsOf(j), At(y, t, {"settle"})' PROVE st = "completed"
      <4>1. y = x
        BY <1>1, <1>7, <3>2 DEF At, ThreadsOf
      <4> QED
        BY <1>1, <3>2, <4>1 DEF At
    <3> QED
      BY <1>1, <1>2, <1>3, <1>4, <3>1, <3>2 DEF VersionOnce, Early
  <2>2. VersionMade(t)'
    BY <1>4 DEF VersionMade
  <2>3. SilenceKept(t)'
    <3>1. ASSUME st = "completed"
          PROVE  \/ istat'[t] = "completed" \/ FailedItem(j)'
                 \/ Cancelled(j)' /\ \E y \in ThreadsOf(j) : At(y, t, {"settle"})'
      <4>1. At(x, t, {"settle"})'
        BY <1>1, <3>1 DEF At
      <4>2. CASE istat[t] \in {"queued", "active", "completed"}
        BY <1>4, <3>1, <4>2, ToldFacts DEF Terminal
      <4>3. CASE istat[t] \in {"cancelling", "cancelled"}
        BY <1>1, <1>3, <1>6, <2>0, <4>1, <4>3 DEF TaskKept, SilenceKept
      <4>4. CASE istat[t] = "failed"
        BY <1>3, <1>6, <4>4 DEF FailedItem
      <4> QED
        BY <1>3, <1>5, <4>2, <4>3, <4>4 DEF Terminal
    <3>2. istat'[t] \in {"cancelling", "cancelled"} => Cancelled(j)' \/ FailedItem(j)'
      <4>1. istat'[t] \in {"cancelling", "cancelled"} => st = "cancelled" \/ istat[t] \in {"cancelling", "cancelled"}
        BY <1>3, <1>4, <1>5, ToldFacts DEF Terminal
      <4> QED
        BY <1>1, <1>3, <1>6, <2>0, <4>1 DEF TaskKept, SilenceKept
    <3> QED
      BY <1>1, <1>2, <1>3, <1>4, <1>8, <3>1, <3>2 DEF SilenceKept
  <2>4. ItemKept(t)'
    <3> SUFFICES ASSUME j \notin asked PROVE istat'[t] = st
      BY <1>1, <1>2, <1>3, <1>4, <1>8 DEF ItemKept, Early
    <3>1. ~Cancelled(j)
      BY <1>1 DEF JobKept, StatusKept, Cancelled, Early, Midway
    <3>2. Waits(th[x], t)
      <4>1. th[x].pc \notin {"settle", "raised"}
        BY <3>1
      <4>2. th[x] \in ThreadStates
        BY <1>1 DEF Fits
      <4>3. InCur(th[x], t)
        BY <4>2, ThreadTypes DEF OnHand, InCur
      <4> QED
        BY <4>1, <4>3 DEF Waits, Has, Decided
    <3>3. MadeOf(t) = {} /\ t \notin Unroutable
      BY <1>1, <1>3, <2>0, <3>2 DEF TaskKept, VersionOnce, Waits, Fits
    <3>4. istat[t] \in {"queued", "active"}
      BY <1>1, <1>3, <2>0, <3>3 DEF TaskKept, ItemKept
    <3> QED
      BY <1>4, <3>4, ToldFacts
  <2>5. OutcomeKept(t)'
    BY <1>1, <1>2, <1>3, <2>0 DEF TaskKept, OutcomeKept, Phases, Midway
  <2>6. NumberKept(t)'
    BY <1>1, <1>2, <1>3 DEF NumberKept
  <2> QED
    BY <2>1, <2>2, <2>3, <2>4, <2>5, <2>6 DEF TaskKept
\* The other tasks of the job.
<1>12. ASSUME NEW u \in TasksOf(j), u # t PROVE TaskKept(u)'
  <2>0. TaskKept(u) /\ u \in Tasks /\ JobOf[u] = j /\ ~OnHand(th[x], u) /\ (n.pc = "settle" => ~OnHand(n, u))
    BY <1>3, <1>12 DEF OnHand
  <2>a. MadeOf(u)' = MadeOf(u) /\ istat'[u] = istat[u] /\ iver'[u] = iver[u]
    BY <1>4, <1>12, <2>0
  <2>b. \A y \in ThreadsOf(j) : /\ (Waits(th'[y], u) <=> Waits(th[y], u))
                                /\ (At(y, u, {"settle"})' <=> At(y, u, {"settle"}))
                                /\ (At(y, u, {"final", "commit"})' <=> At(y, u, {"final", "commit"}))
                                /\ th[y].pc = "raised" => th'[y].pc = "raised"
    <3> TAKE y \in ThreadsOf(j)
    <3>1. CASE y = x
      BY <1>1, <1>12, <2>0, <3>1 DEF At
    <3>2. CASE y # x
      BY <1>1, <3>2 DEF At, ThreadsOf
    <3> QED
      BY <3>1, <3>2
  <2>1. VersionOnce(u)'
    BY <1>2, <2>0, <2>a, <2>b DEF TaskKept, VersionOnce
  <2>2. VersionMade(u)'
    BY <1>2, <2>0, <2>a, <2>b DEF TaskKept, VersionMade
  <2>3. SilenceKept(u)'
    BY <1>1, <1>2, <1>6, <2>0, <2>a, <2>b DEF TaskKept, SilenceKept
  <2>4. ItemKept(u)'
    BY <1>2, <2>0, <2>a, <2>b DEF TaskKept, ItemKept, Early, Named
  <2>5. OutcomeKept(u)'
    BY <1>1, <1>2, <2>0, <2>a DEF TaskKept, OutcomeKept
  <2>6. NumberKept(u)'
    BY <1>1, <1>2, <2>0 DEF NumberKept
  <2> QED
    BY <2>1, <2>2, <2>3, <2>4, <2>5, <2>6 DEF TaskKept
<1>13. ASSUME NEW k \in Jobs \ {j} PROVE Untouched(k)
  <2>1. \A u \in TasksOf(k) : istat'[u] = istat[u] /\ iver'[u] = iver[u]
    BY <1>3, <1>4 DEF TasksOf
  <2>2. \A y \in ThreadsOf(k) : th'[y] = th[y]
    BY <1>1 DEF ThreadsOf
  <2> QED
    BY <1>1, <1>2, <1>4, <2>1, <2>2 DEF Untouched
<1> QED
  BY <1>4, <1>9, <1>10, <1>11, <1>12, <1>13 DEF JobKept

-----------------------------------------------------------------------------
(***************************************************************************)
(* The steps of a thread, by what they do.                                 *)
(***************************************************************************)
Stats == {"queued", "active", "cancelling"} \cup Terminal

\* The thread, its job, and the task at hand.
LEMMA AtHand ==
  ASSUME IInv, NEW x \in Threads, th[x].pc \in Serving
  PROVE  LET t == Head(th[x].cur)
         IN /\ x[1] \in Jobs /\ x \in ThreadsOf(x[1]) /\ JobKept(x[1])
            /\ Fits(th[x], x[1]) /\ th[x] \in ThreadStates /\ th[x].cur # <<>>
            /\ t \in TasksOf(x[1]) /\ t \in Tasks /\ JobOf[t] = x[1] /\ LineOf[t] \in Lines
            /\ OnHand(th[x], t) /\ Has(th[x], t)
            /\ th[x].pc # "settle" => Waits(th[x], t) /\ MadeOf(t) = {}
            /\ th[x].pc = "settle" => MadeOf(t) = {Version(iver[t], t, "completed")}
<1> DEFINE s == th[x]
           j == x[1]
           t == Head(s.cur)
<1>1. j \in Jobs /\ x \in ThreadsOf(j) /\ JobKept(j)
  BY DEF Threads, ThreadsOf, IInv
<1>2. Fits(s, j) /\ s \in ThreadStates /\ s.cur # <<>>
  BY <1>1 DEF JobKept, ThreadsKept, Fits
<1>3. t = s.cur[1] /\ t \in Tasks /\ 1 \in DOMAIN s.cur
  BY <1>2, ThreadTypes
<1>4. OnHand(s, t) /\ Has(s, t)
  BY <1>2, <1>3 DEF OnHand, Has, InCur
<1>5. JobOf[t] = j /\ t \in TasksOf(j) /\ LineOf[t] \in Lines
  BY <1>2, <1>3, <1>4, TaskAssumption DEF Fits, TasksOf
<1>6. VersionOnce(t)
  BY <1>1, <1>5 DEF JobKept, TaskKept
<1>7. s.pc # "settle" => Waits(s, t) /\ MadeOf(t) = {}
  BY <1>1, <1>4, <1>5, <1>6 DEF Waits, Decided, Serving, VersionOnce
<1>8. s.pc = "settle" => MadeOf(t) = {Version(iver[t], t, "completed")}
  BY <1>1, <1>4, <1>5, <1>6 DEF At, VersionOnce
<1> QED
  BY <1>1, <1>2, <1>3, <1>4, <1>5, <1>7, <1>8

\* What a step of a thread leaves alone keeps its type.
LEMMA StillTypes ==
  ASSUME IInv, NEW x \in Threads, NEW n \in ThreadStates, Acts(x, n),
         priv' \in [Jobs -> [Lines -> Histories]], istat' \in [Tasks -> Stats], iver' \in [Tasks -> Nat],
         \A j \in Jobs : JobKept(j)'
  PROVE  IInv'
<1>1. th' \in [Threads -> ThreadStates]
  BY DEF Acts, IInv, Types
<1>2. Types'
  BY <1>1 DEF Acts, IInv, Types, Stats
<1>3. StoreGrows'
  BY DEF Acts, IInv, StoreGrows
<1> QED
  BY <1>2, <1>3 DEF IInv

\* It goes on with the task at hand.
LEMMA ServeKept ==
  ASSUME IInv, NEW x \in Threads, NEW n \in ThreadStates, Acts(x, n), priv' = priv,
         th[x].pc \in Serving \ {"settle"}, n.pc \in Serving \ {"settle"},
         n.cur = th[x].cur, n.rest = th[x].rest,
         th[x].pc \in {"final", "commit"} => n.pc \in {"final", "commit"},
         istat' \in [Tasks -> Stats], iver' \in [Tasks -> Nat],
         \A t \in Tasks \ {Head(th[x].cur)} : Steady(t),
         \/ Steady(Head(th[x].cur))
         \/ /\ istat'[Head(th[x].cur)] \in {Told(istat[Head(th[x].cur)], "active"), Told(istat[Head(th[x].cur)], "queued")}
            /\ (iver'[Head(th[x].cur)] = iver[Head(th[x].cur)] \/ n.pc = "final")
  PROVE  IInv'
<1> DEFINE s == th[x]
           j == x[1]
           h == Head(s.cur)
<1>1. /\ j \in Jobs /\ x \in ThreadsOf(j) /\ JobKept(j) /\ Types
      /\ Fits(s, j) /\ s.cur # <<>> /\ h \in Tasks /\ JobOf[h] = j /\ OnHand(s, h) /\ Waits(s, h)
  BY AtHand DEF IInv
<1>2. s.pc \notin {"done", "raised"} /\ ~Decided(s) /\ ~Decided(n) /\ n.pc \notin {"done", "raised", "settle", "gate"}
  BY DEF Serving, Decided
<1>3. /\ Fits(n, j)
      /\ \A t \in Tasks : Has(n, t) <=> Has(s, t)
      /\ \A t \in Tasks : OnHand(n, t) <=> OnHand(s, t)
  BY <1>1, <1>2, GotoFits
<1>4. \A t \in Tasks : Waits(n, t) <=> Waits(s, t)
  BY <1>2, <1>3 DEF Waits
<1>5. \A t \in Tasks : Steady(t) \/ Moving(x, n, t)
  <2> TAKE t \in Tasks
  <2>1. CASE t # h
    BY <2>1
  <2>2. CASE t = h
    BY <1>1, <1>3, <2>2 DEF Moving
  <2> QED
    BY <2>1, <2>2
<1>6. \A t \in Tasks : At(x, t, {"final", "commit"}) => n.pc \in {"final", "commit"} /\ OnHand(n, t)
  BY <1>3 DEF At
<1>7. JobKept(j)' /\ \A k \in Jobs \ {j} : Untouched(k)
  <2> HIDE DEF s, j, h
  <2>1. th[x].pc \notin {"done", "raised", "settle"}
    BY <1>2 DEF s
  <2>2. \A t \in Tasks : (Has(n, t) => Has(th[x], t)) /\ (Waits(n, t) <=> Waits(th[x], t))
    BY <1>3, <1>4 DEF s
  <2> QED
    BY <1>1, <1>2, <1>3, <1>5, <1>6, <2>1, <2>2, MoveKept
<1>8. \A k \in Jobs : JobKept(k)'
  <2> TAKE k \in Jobs
  <2>1. CASE k # j
    BY <1>7, <2>1, UntouchedKept DEF IInv
  <2> QED
    BY <1>7, <2>1
<1>9. priv' \in [Jobs -> [Lines -> Histories]]
  BY <1>1 DEF Types
<1> QED
  BY <1>8, <1>9, StillTypes

\* It lets go of the rest of its cluster after a cancellation.
LEMMA ReturnKept ==
  ASSUME IInv, NEW x \in Threads, NEW n \in ThreadStates, Acts(x, n), UNCHANGED <<priv, istat, iver>>,
         th[x].pc \in Serving \ {"settle"}, n.pc = "gate", n.cur = <<>>, n.rest = th[x].rest, Cancelled(x[1])
  PROVE  IInv'
<1> DEFINE j == x[1]
<1>1. /\ j \in Jobs /\ x \in ThreadsOf(j) /\ JobKept(j) /\ Types /\ Fits(th[x], j)
  BY AtHand DEF IInv
<1>2. th[x].pc \notin {"done", "raised", "settle"} /\ ~Decided(th[x]) /\ n.pc \notin {"done", "raised", "settle"}
  BY DEF Serving, Decided
<1>3. Fits(n, j) /\ \A t \in Tasks : Has(n, t) => Has(th[x], t)
  BY <1>1, <1>2, GotoFits DEF Serving
<1>4. \A t \in Tasks : Waits(n, t) => Waits(th[x], t)
  BY <1>2, <1>3 DEF Waits
<1>5. j \in asked
  <2>1. run[j] = "working"
    BY <1>1, <1>2 DEF JobKept, ThreadsKept
  <2> QED
    BY <1>1, <2>1 DEF JobKept, StatusKept, Cancelled, Early, Midway
<1>6. \A t \in Tasks : Steady(t)
  BY DEF Steady
<1>7. JobKept(j)' /\ \A k \in Jobs \ {j} : Untouched(k)
  <2> HIDE DEF j
  <2> QED
    BY <1>1, <1>2, <1>3, <1>4, <1>5, <1>6, MoveKept
<1>8. \A k \in Jobs : JobKept(k)'
  <2> TAKE k \in Jobs
  <2>1. CASE k # j
    BY <1>7, <2>1, UntouchedKept DEF IInv
  <2> QED
    BY <1>7, <2>1
<1>9. priv' \in [Jobs -> [Lines -> Histories]] /\ istat' \in [Tasks -> Stats] /\ iver' \in [Tasks -> Nat]
  BY <1>1 DEF Types, Stats
<1> QED
  BY <1>8, <1>9, StillTypes


\* It records an outcome: of a task it then leaves, of one at which it raises, or
\* the completed version of one it looks at once more.
LEMMA RecordingKept ==
  ASSUME IInv, NEW x \in Threads, NEW n \in ThreadStates, Acts(x, n),
         th[x].pc \in Serving, n.rest = th[x].rest,
         NEW st \in Terminal, Recorded(Head(th[x].cur), st),
         \/ /\ n.cur = Tail(th[x].cur) /\ n.pc \in {"gate", "line", "sweep"} /\ st # "completed"
            /\ (n.pc = "gate" <=> n.cur = <<>>)
         \/ n.cur = th[x].cur /\ n.pc = "raised" /\ st # "completed"
         \/ n.cur = th[x].cur /\ n.pc = "settle" /\ st = "completed",
         st = "cancelled" \/ th[x].pc = "settle" => Cancelled(x[1])
  PROVE  IInv'
<1> DEFINE s == th[x]
           j == x[1]
           h == Head(s.cur)
<1>1. /\ j \in Jobs /\ x \in ThreadsOf(j) /\ JobKept(j) /\ Types /\ Fits(s, j) /\ s.cur # <<>>
      /\ h \in TasksOf(j) /\ h \in Tasks /\ JobOf[h] = j /\ OnHand(s, h) /\ Has(s, h)
  BY AtHand DEF IInv
<1>2. s.pc \notin {"done", "raised"} /\ (Decided(s) <=> s.pc = "settle") /\ h = s.cur[1]
  BY <1>1 DEF Serving, Decided, OnHand
<1>3. \A u \in Tasks : OnHand(s, u) <=> u = h
  BY <1>1, <1>2 DEF OnHand
<1>4. /\ Fits(n, j)
      /\ \A u \in Tasks : Has(n, u) => Has(s, u)
      /\ \A u \in Tasks : Waits(n, u) <=> Has(s, u) /\ u # h
  <2>1. CASE n.cur = Tail(s.cur) /\ n.pc \in {"gate", "line", "sweep"} /\ (n.pc = "gate" <=> n.cur = <<>>)
    <3>1. ~Decided(n)
      BY <2>1 DEF Decided
    <3>2. (n.pc \in Serving => n.cur # <<>>) /\ (n.pc \in {"done", "gate"} => n.cur = <<>>)
      BY <2>1 DEF Serving
    <3>3. Fits(n, j) /\ \A u \in Tasks : Has(n, u) <=> Has(s, u) /\ ~OnHand(s, u)
      <4> HIDE DEF s, j
      <4> QED
        BY <1>1, <1>2, <2>1, <3>2, PopFits DEF s
    <3> QED
      BY <1>3, <3>1, <3>3 DEF Waits
  <2>2. CASE n.cur = s.cur /\ n.pc \in {"raised", "settle"}
    <3>1. Decided(n)
      BY <2>2 DEF Decided
    <3>2. /\ Fits(n, j)
          /\ \A u \in Tasks : (Has(n, u) <=> Has(s, u)) /\ (OnHand(n, u) <=> OnHand(s, u))
      <4>1. (n.pc \in Serving => n.cur # <<>>) /\ (n.pc \in {"done", "gate"} => n.cur = <<>>)
        BY <1>1, <2>2
      <4> HIDE DEF s, j
      <4> QED
        BY <1>1, <1>2, <2>2, <4>1, GotoFits DEF s
    <3> QED
      BY <1>3, <3>1, <3>2 DEF Waits
  <2> QED
    BY <2>1, <2>2
<1>5. \A u \in Tasks : Waits(n, u) <=> Waits(s, u) /\ u # h
  BY <1>3, <1>4 DEF Waits
<1>6. n.pc \notin {"done", "final", "commit"} /\ (n.pc = "settle" <=> st = "completed") /\ (n.pc = "settle" => OnHand(n, h))
  <2>1. n.pc \notin {"done", "final", "commit"} /\ (n.pc = "settle" <=> st = "completed")
    OBVIOUS
  <2>2. n.pc = "settle" => n.cur = s.cur
    OBVIOUS
  <2> QED
    BY <1>1, <2>1, <2>2 DEF OnHand
<1>7. JobKept(j)' /\ \A k \in Jobs \ {j} : Untouched(k)
  <2>1. /\ (st = "cancelled" => Cancelled(j)) /\ (th[x].pc = "settle" => Cancelled(j)) /\ Recorded(h, st)
        /\ th[x].pc \notin {"done", "raised"} /\ OnHand(th[x], h)
        /\ \A u \in Tasks : (Has(n, u) => Has(th[x], u)) /\ (Waits(n, u) <=> Waits(th[x], u) /\ u # h)
    BY <1>1, <1>2, <1>4, <1>5
  <2> HIDE DEF s, j, h
  <2> QED
    BY <1>1, <1>4, <1>6, <2>1, RecordKept
<1>8. \A k \in Jobs : JobKept(k)'
  <2> TAKE k \in Jobs
  <2>1. CASE k # j
    BY <1>7, <2>1, UntouchedKept DEF IInv
  <2> QED
    BY <1>7, <2>1
<1>9. priv' \in [Jobs -> [Lines -> Histories]] /\ istat' \in [Tasks -> Stats] /\ iver' \in [Tasks -> Nat]
  <2>1. priv' \in [Jobs -> [Lines -> Histories]] /\ istat' = [istat EXCEPT ![h] = Told(@, st)]
        /\ iver' = [iver EXCEPT ![h] = iver'[h]] /\ iver'[h] \in Nat \ {0}
    BY DEF Recorded
  <2>2. istat \in [Tasks -> Stats] /\ iver \in [Tasks -> Nat]
    BY <1>1 DEF Types, Stats
  <2>3. Told(istat[h], st) \in Stats
    BY <1>1, <2>2 DEF Told, Stats
  <2>4. iver' \in [Tasks -> Nat]
    <3> HIDE DEF h
    <3>1. \A v \in Nat : [iver EXCEPT ![h] = v] \in [Tasks -> Nat]
      BY <2>2
    <3> QED
      BY <2>1, <3>1
  <2> QED
    BY <2>1, <2>2, <2>3, <2>4
<1> QED
  BY <1>8, <1>9, StillTypes

\* It leaves a task whose version stays.
LEMMA SettledKept ==
  ASSUME IInv, NEW x \in Threads, NEW n \in ThreadStates, Acts(x, n), UNCHANGED <<priv, istat, iver>>,
         th[x].pc = "settle", n.cur = Tail(th[x].cur), n.rest = th[x].rest, n.pc \in {"gate", "line"},
         n.pc = "gate" <=> n.cur = <<>>, ~Cancelled(x[1])
  PROVE  IInv'
<1> DEFINE s == th[x]
           j == x[1]
<1>0. s.pc \in Serving
  BY DEF Serving, Labels
<1>1. /\ j \in Jobs /\ x \in ThreadsOf(j) /\ JobKept(j) /\ Types /\ Fits(s, j) /\ s.cur # <<>>
  BY <1>0, AtHand DEF IInv
<1>2. s.pc \notin {"done", "raised"} /\ Decided(s) /\ ~Decided(n) /\ n.pc \notin {"done", "raised", "settle"}
  BY DEF Decided
<1>3. Fits(n, j) /\ \A t \in Tasks : Has(n, t) <=> Has(s, t) /\ ~OnHand(s, t)
  <2>1. (n.pc \in Serving => n.cur # <<>>) /\ (n.pc \in {"done", "gate"} => n.cur = <<>>)
    BY DEF Serving
  <2> HIDE DEF s, j
  <2> QED
    BY <1>1, <1>2, <2>1, PopFits DEF s
<1>4. \A t \in Tasks : (Waits(n, t) <=> Waits(s, t)) /\ (Has(n, t) => Has(s, t)) /\ ~At(x, t, {"final", "commit"})
  BY <1>2, <1>3 DEF Waits, At
<1>5. \A t \in Tasks : Steady(t)
  BY DEF Steady
<1>6. JobKept(j)' /\ \A k \in Jobs \ {j} : Untouched(k)
  <2>1. /\ th[x].pc \notin {"done", "raised"} /\ ~Cancelled(j)
        /\ \A t \in Tasks : (Waits(n, t) <=> Waits(th[x], t)) /\ (Has(n, t) => Has(th[x], t)) /\ ~At(x, t, {"final", "commit"})
    BY <1>2, <1>4
  <2> HIDE DEF s, j
  <2> QED
    BY <1>1, <1>2, <1>3, <1>5, <2>1, MoveKept
<1>7. \A k \in Jobs : JobKept(k)'
  <2> TAKE k \in Jobs
  <2>1. CASE k # j
    BY <1>6, <2>1, UntouchedKept DEF IInv
  <2> QED
    BY <1>6, <2>1
<1>8. priv' \in [Jobs -> [Lines -> Histories]] /\ istat' \in [Tasks -> Stats] /\ iver' \in [Tasks -> Nat]
  BY <1>1 DEF Types, Stats
<1> QED
  BY <1>7, <1>8, StillTypes

\* Between two clusters.
LEMMA GateKept ==
  ASSUME IInv, NEW x \in Threads, Gate(x)
  PROVE  IInv'
<1> DEFINE s == th[x]
           j == x[1]
           n == th'[x]
<1>1. /\ j \in Jobs /\ x \in ThreadsOf(j) /\ JobKept(j) /\ Types /\ Fits(s, j) /\ s \in ThreadStates
      /\ s.pc = "gate" /\ s.cur = <<>>
  BY DEF Threads, ThreadsOf, IInv, Gate, JobKept, ThreadsKept, Fits
<1>2. UNCHANGED <<known, jstat, run, broken, lost, store, base, given, asked, ever, priv, istat, iver>>
  BY DEF Gate, jobVars, itemVars, manifests
<1>3. run[j] = "working"
  BY <1>1 DEF JobKept, ThreadsKept
<1>4. ASSUME NEW m \in ThreadStates, th' = [th EXCEPT ![x] = m], Fits(m, j), m.pc \in {"done", "sem"},
             \A t \in Tasks : (Has(m, t) <=> Has(s, t)) /\ (Waits(m, t) <=> Waits(s, t)),
             m.pc = "done" /\ j \notin asked => m.rest = <<>>
      PROVE  IInv'
  <2>1. Acts(x, m)
    BY <1>2, <1>4 DEF Acts
  <2>2. \A t \in Tasks : Steady(t) /\ ~At(x, t, {"final", "commit"})
    BY <1>1, <1>2 DEF Steady, At
  <2>3. JobKept(j)' /\ \A k \in Jobs \ {j} : Untouched(k)
    <3>1. /\ th[x].pc \notin {"done", "raised", "settle"} /\ m.pc \notin {"settle", "raised"} /\ priv' = priv
          /\ \A t \in Tasks : (Has(m, t) => Has(th[x], t)) /\ (Waits(m, t) <=> Waits(th[x], t))
      BY <1>1, <1>2, <1>4
    <3> HIDE DEF s, j
    <3> QED
      BY <1>1, <1>4, <2>1, <2>2, <3>1, MoveKept
  <2>4. \A k \in Jobs : JobKept(k)'
    <3> TAKE k \in Jobs
    <3>1. CASE k # j
      BY <2>3, <3>1, UntouchedKept DEF IInv
    <3> QED
      BY <2>3, <3>1
  <2>5. priv' \in [Jobs -> [Lines -> Histories]] /\ istat' \in [Tasks -> Stats] /\ iver' \in [Tasks -> Nat]
    BY <1>1, <1>2 DEF Types, Stats
  <2> QED
    BY <2>1, <2>4, <2>5, StillTypes
<1>5. CASE s.rest = <<>> \/ Cancelled(j)
  <2> DEFINE m == [s EXCEPT !.pc = "done"]
  <2>1. th' = [th EXCEPT ![x] = m]
    BY <1>5 DEF Gate, Goto
  <2>2. m \in ThreadStates /\ m.pc = "done" /\ m.cur = s.cur /\ m.rest = s.rest
    BY <1>1 DEF ThreadStates, Labels
  <2>3. j \notin asked => ~Cancelled(j)
    BY <1>1, <1>3 DEF JobKept, StatusKept, Cancelled, Early, Midway
  <2> HIDE DEF m
  <2>4. /\ Fits(m, j)
        /\ \A t \in Tasks : (Has(m, t) <=> Has(s, t)) /\ (OnHand(m, t) <=> OnHand(s, t))
    <3>1. m.pc \notin Serving /\ s.pc # "done"
      BY <1>1, <2>2 DEF Serving
    <3> HIDE DEF s, j
    <3> QED
      BY <1>1, <2>2, <3>1, GotoFits
  <2>5. \A t \in Tasks : Waits(m, t) <=> Waits(s, t)
    BY <1>1, <2>2, <2>4 DEF Waits, Decided
  <2> QED
    BY <1>4, <1>5, <2>1, <2>2, <2>3, <2>4, <2>5
<1>6. CASE ~(s.rest = <<>> \/ Cancelled(j))
  <2> DEFINE m == [s EXCEPT !.pc = "sem", !.cur = Head(s.rest), !.rest = Tail(s.rest)]
  <2>1. th' = [th EXCEPT ![x] = m]
    BY <1>6 DEF Gate
  <2>2. m.pc = "sem"
    BY <1>1 DEF ThreadStates
  <2>a. m = [s EXCEPT !.pc = "sem", !.cur = Head(s.rest), !.rest = Tail(s.rest)]
    OBVIOUS
  <2> HIDE DEF m
  <2>3. Fits(m, j) /\ \A t \in Tasks : (Has(m, t) <=> Has(s, t)) /\ (Waits(m, t) <=> Waits(s, t))
    <3> HIDE DEF s, j
    <3> QED
      BY <1>1, <1>6, <2>a, TakeFits
  <2>4. m \in ThreadStates
    BY <2>3 DEF Fits
  <2> QED
    BY <1>4, <2>1, <2>2, <2>3, <2>4
<1> QED
  BY <1>5, <1>6

\* The forms of a thread's next state.
LEMMA GotoShape ==
  ASSUME Types, NEW x \in Threads, NEW label \in Labels, Goto(x, label),
         NEW n, n = [th[x] EXCEPT !.pc = label]
  PROVE  /\ th' = [th EXCEPT ![x] = n] /\ n \in ThreadStates
         /\ n.pc = label /\ n.cur = th[x].cur /\ n.rest = th[x].rest
<1>1. th \in [Threads -> ThreadStates] /\ th[x] \in ThreadStates
  BY DEF Types
<1> QED
  BY <1>1 DEF Goto, ThreadStates

LEMMA ReturnShape ==
  ASSUME Types, NEW x \in Threads, Return(x), NEW n, n = [th[x] EXCEPT !.pc = "gate", !.cur = <<>>]
  PROVE  /\ th' = [th EXCEPT ![x] = n] /\ n \in ThreadStates
         /\ n.pc = "gate" /\ n.cur = <<>> /\ n.rest = th[x].rest
<1>1. th \in [Threads -> ThreadStates] /\ th[x] \in ThreadStates
  BY DEF Types
<1>2. "gate" \in Labels /\ <<>> \in Seq(Tasks)
  BY DEF Labels
<1>3. n = [pc |-> "gate", rest |-> th[x].rest, cur |-> <<>>, want |-> th[x].want]
  BY <1>1 DEF ThreadStates
<1>4. n \in ThreadStates
  BY <1>1, <1>2, <1>3 DEF ThreadStates
<1>5. th' = [th EXCEPT ![x] = n]
  BY <1>1 DEF Return, ThreadStates
<1> QED
  BY <1>3, <1>4, <1>5

LEMMA WithCur ==
  ASSUME NEW s \in ThreadStates, NEW label \in Labels, NEW c \in Seq(Tasks),
         NEW n, n = [s EXCEPT !.pc = label, !.cur = c]
  PROVE  n = [pc |-> label, rest |-> s.rest, cur |-> c, want |-> s.want]
BY DEF ThreadStates

\* Leaving the task at hand for the label l, or for the gate after the last one.
LEMMA PopShape ==
  ASSUME NEW s \in ThreadStates, s.cur # <<>>, NEW label \in {"line", "sweep"},
         NEW n, n = IF Len(s.cur) > 1 THEN [s EXCEPT !.pc = label, !.cur = Tail(@)]
                    ELSE [s EXCEPT !.pc = "gate", !.cur = <<>>]
  PROVE  /\ n \in ThreadStates /\ n.cur = Tail(s.cur) /\ n.rest = s.rest
         /\ n.pc \in {"gate", label} /\ (n.pc = "gate" <=> n.cur = <<>>)
<1>1. s.cur \in Seq(Tasks) /\ Len(s.cur) \in Nat \ {0}
  BY ThreadTypes DEF ThreadStates
<1>2. Tail(s.cur) \in Seq(Tasks) /\ Len(Tail(s.cur)) = Len(s.cur) - 1
  BY <1>1
<1>a. s.rest \in Seq(Seq(Tasks)) /\ s.want \in Nat /\ label \in Labels /\ "gate" \in Labels /\ label # "gate"
  BY ThreadTypes DEF Labels
<1>b. ASSUME NEW pc \in Labels, NEW cur \in Seq(Tasks), n = [s EXCEPT !.pc = pc, !.cur = cur]
      PROVE  n \in ThreadStates /\ n.pc = pc /\ n.cur = cur /\ n.rest = s.rest
  <2> DEFINE r == [pc |-> pc, rest |-> s.rest, cur |-> cur, want |-> s.want]
  <2>1. r \in ThreadStates /\ r.pc = pc /\ r.cur = cur /\ r.rest = s.rest
    BY <1>a DEF ThreadStates
  <2>2. n = r
    BY <1>b, WithCur, Zenon
  <2> HIDE DEF r
  <2> QED
    BY <2>1, <2>2, Zenon
<1>3. CASE Len(s.cur) > 1
  <2>1. n = [s EXCEPT !.pc = label, !.cur = Tail(s.cur)]
    BY <1>3
  <2>2. Tail(s.cur) # <<>>
    <3> SUFFICES ASSUME Tail(s.cur) = <<>> PROVE FALSE
      OBVIOUS
    <3>1. Len(s.cur) - 1 = 0
      BY <1>2
    <3> QED
      BY <1>1, <1>3, <3>1
  <2>3. n \in ThreadStates /\ n.pc = label /\ n.cur = Tail(s.cur) /\ n.rest = s.rest
    BY <1>2, <1>a, <1>b, <2>1, Zenon
  <2> QED
    BY <1>a, <2>2, <2>3, Zenon
<1>4. CASE ~(Len(s.cur) > 1)
  <2>1. n = [s EXCEPT !.pc = "gate", !.cur = <<>>]
    BY <1>4
  <2>2. Tail(s.cur) = <<>>
    BY <1>1, <1>2, <1>4
  <2>3. n \in ThreadStates /\ n.pc = "gate" /\ n.cur = Tail(s.cur) /\ n.rest = s.rest
    BY <1>2, <1>a, <1>b, <2>1, <2>2, Zenon
  <2> QED
    BY <2>2, <2>3, Zenon
<1> QED
  BY <1>3, <1>4, Zenon

LEMMA Emitted ==
  ASSUME Types, NEW t \in Tasks, NEW w \in {"active", "queued"}, Emit(t, w)
  PROVE  /\ istat' \in [Tasks -> Stats] /\ iver' \in [Tasks -> Nat]
         /\ \A u \in Tasks \ {t} : Steady(u)
         /\ istat'[t] = Told(istat[t], w) /\ iver'[t] = iver[t]
<1>1. istat \in [Tasks -> Stats] /\ iver \in [Tasks -> Nat]
  BY DEF Types, Stats
<1>2. Told(istat[t], w) \in Stats
  BY <1>1 DEF Told, Stats
<1> QED
  BY <1>1, <1>2 DEF Emit, Steady

LEMMA ItemsStay ==
  ASSUME Types, UNCHANGED itemVars
  PROVE  istat' \in [Tasks -> Stats] /\ iver' \in [Tasks -> Nat] /\ \A u \in Tasks : Steady(u)
BY DEF Types, Stats, itemVars, Steady

LEMMA OutcomeStep ==
  ASSUME IInv, NEW x \in Threads, th[x].pc \in Serving \ {"settle"}, NEW st \in Terminal,
         RecordOutcome(x[1], Head(th[x].cur), st), base' = base
  PROVE  Recorded(Head(th[x].cur), st)
<1> DEFINE t == Head(th[x].cur)
<1>1. x[1] \in Jobs /\ t \in Tasks /\ JobOf[t] = x[1] /\ MadeOf(t) = {} /\ CopyKept(JobOf[t]) /\ Types /\ LineOf[t] \in Lines
  BY AtHand DEF IInv, JobKept
<1>2. priv[JobOf[t]][LineOf[t]] \in Histories
  BY <1>1 DEF Types
<1>3. Len(priv[JobOf[t]][LineOf[t]]) + 1 \in Nat
  <2> DEFINE h == priv[JobOf[t]][LineOf[t]]
  <2>1. h \in Histories
    BY <1>2
  <2> HIDE DEF h
  <2>2. Len(h) + 1 \in Nat
    BY <2>1, HistoryTypes
  <2> QED
    BY <2>2 DEF h
<1>4. Record(JobOf[t], t, priv[JobOf[t]][LineOf[t]], Len(priv[JobOf[t]][LineOf[t]]) + 1, st)
  BY <1>1 DEF RecordOutcome
<1> HIDE DEF t
<1>5. Recorded(t, st)
  BY <1>1, <1>3, <1>4, OutcomeRecorded
<1> QED
  BY <1>5 DEF t

\* It goes on: with the same items, or telling one of its progress.
LEMMA GoesOn ==
  ASSUME IInv, NEW x \in Threads, NEW label \in Serving \ {"settle"}, Goto(x, label),
         th[x].pc \in Serving \ {"settle"},
         th[x].pc \in {"final", "commit"} => label \in {"final", "commit"},
         UNCHANGED <<jobVars, manifests, asked, ever>>,
         UNCHANGED itemVars \/ Emit(Head(th[x].cur), "active") \/ Emit(Head(th[x].cur), "queued")
  PROVE  IInv'
<1> DEFINE n == [th[x] EXCEPT !.pc = label]
           h == Head(th[x].cur)
<1>1. Types /\ label \in Labels /\ n = [th[x] EXCEPT !.pc = label] /\ h \in Tasks
  BY AtHand DEF IInv, Serving
<1> HIDE DEF n
<1>2. /\ th' = [th EXCEPT ![x] = n] /\ n \in ThreadStates
      /\ n.pc = label /\ n.cur = th[x].cur /\ n.rest = th[x].rest
  BY <1>1, GotoShape
<1>3. Acts(x, n) /\ priv' = priv
  BY <1>2 DEF Acts, jobVars, manifests
<1>4. /\ istat' \in [Tasks -> Stats] /\ iver' \in [Tasks -> Nat]
      /\ \A t \in Tasks \ {h} : Steady(t)
      /\ \/ Steady(h)
         \/ istat'[h] \in {Told(istat[h], "active"), Told(istat[h], "queued")} /\ iver'[h] = iver[h]
  <2>1. CASE UNCHANGED itemVars
    BY <1>1, <2>1, ItemsStay
  <2>2. CASE Emit(h, "active")
    BY <1>1, <2>2, Emitted
  <2>3. CASE Emit(h, "queued")
    BY <1>1, <2>3, Emitted
  <2> QED
    BY <2>1, <2>2, <2>3
<1> QED
  BY <1>2, <1>3, <1>4, ServeKept

\* It stops serving its cluster.
LEMMA GoesBack ==
  ASSUME IInv, NEW x \in Threads, Return(x), th[x].pc \in Serving \ {"settle"}, Cancelled(x[1]),
         UNCHANGED <<jobVars, itemVars, manifests, asked, ever>>
  PROVE  IInv'
<1> DEFINE n == [th[x] EXCEPT !.pc = "gate", !.cur = <<>>]
<1>1. Types /\ n = [th[x] EXCEPT !.pc = "gate", !.cur = <<>>]
  BY DEF IInv
<1> HIDE DEF n
<1>2. /\ th' = [th EXCEPT ![x] = n] /\ n \in ThreadStates
      /\ n.pc = "gate" /\ n.cur = <<>> /\ n.rest = th[x].rest
  BY <1>1, ReturnShape
<1>3. Acts(x, n) /\ UNCHANGED <<priv, istat, iver>>
  BY <1>2 DEF Acts, jobVars, itemVars, manifests
<1> QED
  BY <1>2, <1>3, ReturnKept

\* It leaves the task at hand, for the next one of its cluster or after the last.
Leaves(x, label) ==
  th' = [th EXCEPT ![x] = IF Len(th[x].cur) > 1 THEN [th[x] EXCEPT !.pc = label, !.cur = Tail(th[x].cur)]
                          ELSE [th[x] EXCEPT !.pc = "gate", !.cur = <<>>]]

\* An outcome that is not a finished synthesis.
LEMMA GivesUp ==
  ASSUME IInv, NEW x \in Threads, th[x].pc \in Serving, NEW st \in {"failed", "cancelled"},
         Recorded(Head(th[x].cur), st), UNCHANGED <<jobVars, store, base, given, asked, ever>>,
         st = "cancelled" \/ th[x].pc = "settle" => Cancelled(x[1]),
         Raise(x) \/ Leaves(x, "line") \/ Leaves(x, "sweep")
  PROVE  IInv'
<1>1. Types /\ th[x] \in ThreadStates /\ th[x].cur # <<>> /\ st \in Terminal /\ st # "completed"
  BY AtHand DEF IInv, Terminal
<1>2. CASE Raise(x)
  <2> DEFINE n == [th[x] EXCEPT !.pc = "raised"]
  <2>1. n = [th[x] EXCEPT !.pc = "raised"] /\ "raised" \in Labels /\ Goto(x, "raised")
    BY <1>2 DEF Labels, Raise, Goto
  <2> HIDE DEF n
  <2>2. /\ th' = [th EXCEPT ![x] = n] /\ n \in ThreadStates
        /\ n.pc = "raised" /\ n.cur = th[x].cur /\ n.rest = th[x].rest
    BY <1>1, <2>1, GotoShape
  <2>3. Acts(x, n)
    BY <2>2 DEF Acts, jobVars
  <2> QED
    BY <1>1, <2>2, <2>3, RecordingKept
<1>3. ASSUME NEW label \in {"line", "sweep"}, Leaves(x, label) PROVE IInv'
  <2> DEFINE n == IF Len(th[x].cur) > 1 THEN [th[x] EXCEPT !.pc = label, !.cur = Tail(th[x].cur)]
                  ELSE [th[x] EXCEPT !.pc = "gate", !.cur = <<>>]
  <2>1. /\ n = IF Len(th[x].cur) > 1 THEN [th[x] EXCEPT !.pc = label, !.cur = Tail(th[x].cur)]
               ELSE [th[x] EXCEPT !.pc = "gate", !.cur = <<>>]
        /\ th' = [th EXCEPT ![x] = n]
    BY <1>3 DEF Leaves
  <2> HIDE DEF n
  <2>2. /\ n \in ThreadStates /\ n.cur = Tail(th[x].cur) /\ n.rest = th[x].rest
        /\ n.pc \in {"gate", label} /\ (n.pc = "gate" <=> n.cur = <<>>)
    <3> DEFINE s == th[x]
    <3>1. /\ s \in ThreadStates /\ s.cur # <<>>
          /\ n = IF Len(s.cur) > 1 THEN [s EXCEPT !.pc = label, !.cur = Tail(@)]
                 ELSE [s EXCEPT !.pc = "gate", !.cur = <<>>]
      BY <1>1, <2>1
    <3> HIDE DEF s
    <3>2. /\ n \in ThreadStates /\ n.cur = Tail(s.cur) /\ n.rest = s.rest
          /\ n.pc \in {"gate", label} /\ (n.pc = "gate" <=> n.cur = <<>>)
      BY <3>1, PopShape
    <3> QED
      BY <3>2 DEF s
  <2>3. Acts(x, n) /\ n.pc \in {"gate", "line", "sweep"}
    BY <2>1, <2>2 DEF Acts, jobVars
  <2> QED
    BY <1>1, <2>2, <2>3, RecordingKept
<1> QED
  BY <1>2, <1>3

\* The steps of a thread on its way to a synthesis.
LEMMA OnTheWay ==
  ASSUME IInv, NEW x \in Threads,
         Enter(x) \/ Open(x) \/ Attempt(x) \/ Synthesized(x) \/ Preempted(x)
  PROVE  IInv'
<1> USE DEF Serving, Labels
<1>1. CASE Enter(x)
  <2>1. CASE Cancelled(x[1])
    BY <1>1, <2>1, GoesBack DEF Enter, manifests
  <2>2. CASE ~Cancelled(x[1])
    BY <1>1, <2>2, GoesOn DEF Enter
  <2> QED
    BY <2>1, <2>2
<1>2. CASE Open(x)
  BY <1>2, GoesOn DEF Open
<1>3. CASE Attempt(x)
  <2>1. CASE Cancelled(x[1])
    BY <1>3, <2>1, GoesBack DEF Attempt
  <2>2. CASE ~Cancelled(x[1])
    BY <1>3, <2>2, GoesOn DEF Attempt
  <2> QED
    BY <2>1, <2>2
<1>4. CASE Synthesized(x)
  BY <1>4, GoesOn DEF Synthesized
<1>5. CASE Preempted(x)
  BY <1>5, GoesOn DEF Preempted
<1> QED
  BY <1>1, <1>2, <1>3, <1>4, <1>5

\* The number a file is named after is fixed.
LEMMA StartKept ==
  ASSUME IInv, NEW x \in Threads, Start(x)
  PROVE  IInv'
<1> DEFINE s == th[x]
           h == Head(s.cur)
           w == Len(priv[x[1]][LineOf[h]]) + 1
           n == [pc |-> "synth", rest |-> s.rest, cur |-> s.cur, want |-> w]
<1>1. s.pc = "start" /\ Emit(h, "active") /\ UNCHANGED <<jobVars, manifests, asked, ever>>
  BY DEF Start
<1>2. Types /\ s \in ThreadStates /\ h \in Tasks /\ LineOf[h] \in Lines /\ x[1] \in Jobs
  BY <1>1, AtHand DEF IInv, Serving, Labels
<1>3. w \in Nat
  <2> DEFINE g == priv[x[1]][LineOf[h]]
  <2>1. g \in Histories
    BY <1>2 DEF Types
  <2> HIDE DEF g
  <2>2. Len(g) + 1 \in Nat
    BY <2>1, HistoryTypes
  <2> QED
    BY <2>2 DEF g
<1>4. th' = [th EXCEPT ![x] = n]
  <2>1. th' = [th EXCEPT ![x] = [s EXCEPT !.pc = "synth", !.want = w]]
    <3>1. th \in [Threads -> ThreadStates]
      BY <1>2 DEF Types
    <3> HIDE DEF w
    <3>2. th' = [th EXCEPT ![x].pc = "synth", ![x].want = w]
      BY DEF Start, w
    <3> QED
      BY <1>2, <3>1, <3>2 DEF ThreadStates
  <2>2. ASSUME NEW m, m = [s EXCEPT !.pc = "synth", !.want = w] PROVE m = n
    <3> HIDE DEF w, s
    <3>1. s \in ThreadStates /\ w \in Nat
      BY <1>2, <1>3
    <3> QED
      BY <2>2, <3>1 DEF ThreadStates
  <2> QED
    BY <2>1, <2>2
<1>5. n \in ThreadStates /\ n.pc = "synth" /\ n.cur = s.cur /\ n.rest = s.rest
  <2> HIDE DEF w
  <2> QED
    BY <1>2, <1>3 DEF ThreadStates, Labels
<1> HIDE DEF n
<1>6. Acts(x, n) /\ priv' = priv
  BY <1>1, <1>4 DEF Acts, jobVars, manifests
<1>7. /\ istat' \in [Tasks -> Stats] /\ iver' \in [Tasks -> Nat]
      /\ \A t \in Tasks \ {h} : Steady(t)
      /\ istat'[h] = Told(istat[h], "active") /\ iver'[h] = iver[h]
  BY <1>1, <1>2, Emitted
<1>8. /\ th[x].pc \in Serving \ {"settle"} /\ n.pc \in Serving \ {"settle"}
      /\ th[x].pc \notin {"final", "commit"} /\ n.cur = th[x].cur /\ n.rest = th[x].rest
  BY <1>1, <1>5 DEF Serving, Labels
<1> QED
  BY <1>5, <1>6, <1>7, <1>8, ServeKept

\* What goes wrong before, while or after a line is synthesized.
LEMMA FailuresKept ==
  ASSUME IInv, NEW x \in Threads,
         \/ OpenFails(x)
         \/ Line(x) /\ Raise(x) /\ RecordOutcome(x[1], Head(th[x].cur), "failed")
         \/ Load(x) /\ Raise(x) /\ RecordOutcome(x[1], Head(th[x].cur), "failed")
         \/ LineFails(x) \/ CoordinationFails(x)
         \/ th[x].pc \in {"synth", "made", "final"} /\ RecordCancelled(x) /\ Cancelled(x[1])
  PROVE  IInv'
<1> USE DEF Serving, Labels
<1>1. ASSUME th[x].pc \in Serving \ {"settle"}, NEW st \in {"failed", "cancelled"},
             RecordOutcome(x[1], Head(th[x].cur), st), UNCHANGED <<jobVars, store, base, given, asked, ever>>,
             st = "cancelled" => Cancelled(x[1]), Raise(x) \/ Leaves(x, "line") \/ Leaves(x, "sweep")
      PROVE  IInv'
  <2>1. Recorded(Head(th[x].cur), st)
    BY <1>1, OutcomeStep DEF Terminal
  <2> QED
    BY <1>1, <2>1, GivesUp
<1>2. CASE OpenFails(x)
  <2>1. Raise(x) \/ Leaves(x, "sweep")
    <3>1. th' = [th EXCEPT ![x] = Swept(th[x])]
      BY <1>2 DEF OpenFails
    <3>2. CASE Len(th[x].cur) > 1
      BY <3>1, <3>2 DEF Swept, Leaves
    <3>3. CASE ~(Len(th[x].cur) > 1)
      BY <3>1, <3>3 DEF Swept, Raise
    <3> QED
      BY <3>2, <3>3
  <2> QED
    BY <1>1, <1>2, <2>1 DEF OpenFails
<1>3. CASE Line(x) /\ Raise(x) /\ RecordOutcome(x[1], Head(th[x].cur), "failed")
  BY <1>1, <1>3 DEF Line
<1>4. CASE Load(x) /\ Raise(x) /\ RecordOutcome(x[1], Head(th[x].cur), "failed")
  BY <1>1, <1>4 DEF Load
<1>5. th' = [th EXCEPT ![x] = Next1(@)] => Leaves(x, "line")
  BY DEF Next1, Leaves, IInv, Types
<1>6. CASE LineFails(x)
  BY <1>1, <1>5, <1>6 DEF LineFails
<1>7. CASE CoordinationFails(x)
  BY <1>1, <1>7 DEF CoordinationFails
<1>8. CASE th[x].pc \in {"synth", "made", "final"} /\ RecordCancelled(x) /\ Cancelled(x[1])
  <2>1. PICK st \in {"cancelled", "failed"} : RecordOutcome(x[1], Head(th[x].cur), st)
    BY <1>8 DEF RecordCancelled
  <2> QED
    BY <1>1, <1>5, <1>8, <2>1 DEF RecordCancelled
<1> QED
  BY <1>2, <1>3, <1>4, <1>6, <1>7, <1>8

LEMMA LineKept ==
  ASSUME IInv, NEW x \in Threads, Line(x) \/ Load(x)
  PROVE  IInv'
<1> USE DEF Serving, Labels
<1>1. ASSUME Raise(x) /\ RecordOutcome(x[1], Head(th[x].cur), "failed") PROVE IInv'
  BY <1>1, FailuresKept
<1>2. ASSUME Goto(x, "attempt"), UNCHANGED <<itemVars, priv, jobVars, store, base, given, asked, ever>>,
             th[x].pc \in {"line", "load"}
      PROVE  IInv'
  BY <1>2, GoesOn DEF manifests
<1>3. ASSUME Goto(x, "load"), Emit(Head(th[x].cur), "active"), th[x].pc = "line",
             UNCHANGED <<priv, jobVars, store, base, given, asked, ever>>
      PROVE  IInv'
  BY <1>3, GoesOn DEF manifests
<1>4. ASSUME Return(x), Cancelled(x[1]), th[x].pc = "line",
             UNCHANGED <<itemVars, priv, jobVars, store, base, given, asked, ever>>
      PROVE  IInv'
  BY <1>4, GoesBack DEF manifests
<1>5. CASE Line(x)
  BY <1>1, <1>2, <1>3, <1>4, <1>5 DEF Line
<1>6. CASE Load(x)
  BY <1>1, <1>2, <1>6 DEF Load
<1> QED
  BY <1>5, <1>6

\* The checks after a synthesis.
LEMMA MadeKept ==
  ASSUME IInv, NEW x \in Threads, Made(x)
  PROVE  IInv'
<1> USE DEF Serving, Labels
<1>1. CASE Cancelled(x[1])
  BY <1>1, FailuresKept DEF Made
<1>2. CASE ~Cancelled(x[1]) /\ th[x].pc # "made"
  BY <1>2, GoesOn DEF Made
<1>3. CASE ~Cancelled(x[1]) /\ th[x].pc = "made"
  <2> DEFINE n == [th[x] EXCEPT !.pc = "final"]
             h == Head(th[x].cur)
  <2>1. /\ Goto(x, "final") /\ UNCHANGED <<jobVars, manifests, asked, ever>>
        /\ istat' = [istat EXCEPT ![h] = Told(@, "active")]
        /\ iver' = [iver EXCEPT ![h] = th[x].want]
    BY <1>3 DEF Made
  <2>2. Types /\ th[x] \in ThreadStates /\ h \in Tasks /\ th[x].want \in Nat
    BY <1>3, AtHand, ThreadTypes DEF IInv
  <2>3. istat \in [Tasks -> Stats] /\ iver \in [Tasks -> Nat] /\ Told(istat[h], "active") \in Stats
    BY <2>2 DEF Types, Stats, Told
  <2>4. /\ istat' \in [Tasks -> Stats] /\ iver' \in [Tasks -> Nat]
        /\ \A t \in Tasks \ {h} : Steady(t)
        /\ istat'[h] = Told(istat[h], "active")
    <3> HIDE DEF h
    <3> QED
      BY <2>1, <2>2, <2>3 DEF Steady
  <2>5. n = [th[x] EXCEPT !.pc = "final"]
    OBVIOUS
  <2> HIDE DEF n
  <2>6. /\ th' = [th EXCEPT ![x] = n] /\ n \in ThreadStates
        /\ n.pc = "final" /\ n.cur = th[x].cur /\ n.rest = th[x].rest
    BY <2>1, <2>2, <2>5, GotoShape
  <2>7. Acts(x, n) /\ priv' = priv
    BY <2>1, <2>6 DEF Acts, jobVars, manifests
  <2> QED
    BY <1>3, <2>4, <2>6, <2>7, ServeKept
<1> QED
  BY <1>1, <1>2, <1>3

LEMMA CommitKept ==
  ASSUME IInv, NEW x \in Threads, Commit(x)
  PROVE  IInv'
<1> USE DEF Serving, Labels
<1> DEFINE n == [th[x] EXCEPT !.pc = "settle"]
           t == Head(th[x].cur)
<1>1. /\ th[x].pc = "commit" /\ Record(x[1], t, priv[x[1]][LineOf[t]], th[x].want, "completed")
      /\ Goto(x, "settle") /\ UNCHANGED <<jobVars, store, base, given, asked, ever>>
  BY DEF Commit
<1>2. /\ Types /\ th[x] \in ThreadStates /\ th[x].want \in Nat /\ "completed" \in Terminal
      /\ t \in Tasks /\ JobOf[t] = x[1] /\ MadeOf(t) = {} /\ CopyKept(JobOf[t])
  BY <1>1, AtHand, ThreadTypes DEF IInv, JobKept, Terminal
<1>3. Recorded(t, "completed")
  <2> HIDE DEF t
  <2> QED
    BY <1>1, <1>2, OutcomeRecorded
<1>4. n = [th[x] EXCEPT !.pc = "settle"]
  OBVIOUS
<1> HIDE DEF n
<1>5. /\ th' = [th EXCEPT ![x] = n] /\ n \in ThreadStates
      /\ n.pc = "settle" /\ n.cur = th[x].cur /\ n.rest = th[x].rest
  <2>1. Types /\ "settle" \in Labels /\ Goto(x, "settle") /\ n = [th[x] EXCEPT !.pc = "settle"]
    BY <1>1, <1>2, <1>4
  <2> QED
    BY <2>1, GotoShape
<1>6. Acts(x, n)
  BY <1>1, <1>5 DEF Acts, jobVars
<1>7. ~("completed" = "cancelled" \/ th[x].pc = "settle")
  BY <1>1
<1> QED
  BY <1>1, <1>2, <1>3, <1>5, <1>6, <1>7, RecordingKept

LEMMA SettleKept ==
  ASSUME IInv, NEW x \in Threads, Settle(x)
  PROVE  IInv'
<1> USE DEF Serving, Labels
<1> DEFINE s == th[x]
           t == Head(s.cur)
           j == x[1]
<1>1. s.pc = "settle" /\ th' = [th EXCEPT ![x] = Next1(s)] /\ UNCHANGED <<jobVars, store, base, given, asked, ever>>
  BY DEF Settle
<1>2. /\ Types /\ s \in ThreadStates /\ s.cur # <<>> /\ LineOf[t] \in Lines /\ j \in Jobs
      /\ t \in Tasks /\ JobOf[t] = j /\ MadeOf(t) = {Version(iver[t], t, "completed")} /\ CopyKept(JobOf[t])
  BY <1>1, AtHand DEF IInv, JobKept
<1>3. Leaves(x, "line")
  BY <1>1 DEF Next1, Leaves
<1>4. CASE Cancelled(j)
  <2> DEFINE h == Dropped(priv[j][LineOf[t]], iver[t])
  <2>1. PICK st \in {"cancelled", "failed"} : Record(j, t, h, Len(h) + 1, st)
    BY <1>4 DEF Settle, TakenBack
  <2>2. Len(h) + 1 \in Nat
    <3>1. \A g \in Histories : Len(g) + 1 \in Nat
      BY HistoryTypes
    <3>2. h \in Histories
      <4> DEFINE g == priv[j][LineOf[t]]
                 P == {i \in DOMAIN g : g[i].id # iver[t]}
      <4>1. g \in Seq(Versions) /\ P \in SUBSET DOMAIN g
        BY <1>2 DEF Types, Histories
      <4>2. h = Kept(g, P)
        BY DEF Dropped
      <4> HIDE DEF g, P, h
      <4> QED
        BY <4>1, <4>2, KeptFacts DEF Histories
    <3> HIDE DEF h
    <3> QED
      BY <3>1, <3>2
  <2>3. Recorded(t, st)
    <3>1. Record(JobOf[t], t, Dropped(priv[JobOf[t]][LineOf[t]], iver[t]), Len(h) + 1, st) /\ st \in Terminal
      BY <1>2, <2>1 DEF Terminal
    <3> DEFINE w == Len(h) + 1
    <3>2. w \in Nat /\ base' = base
      BY <1>1, <2>2
    <3>3. Record(JobOf[t], t, Dropped(priv[JobOf[t]][LineOf[t]], iver[t]), w, st) /\ st \in Terminal
      BY <3>1
    <3> HIDE DEF t, w
    <3> QED
      BY <1>2, <3>2, <3>3, OutcomeReplaced
  <2> QED
    BY <1>1, <1>3, <1>4, <2>3, GivesUp
<1>5. CASE ~Cancelled(j)
  <2> DEFINE n == Next1(s)
  <2>0. n = IF Len(s.cur) > 1 THEN [s EXCEPT !.pc = "line", !.cur = Tail(@)]
            ELSE [s EXCEPT !.pc = "gate", !.cur = <<>>]
    BY DEF Next1
  <2> HIDE DEF n
  <2>1. /\ n \in ThreadStates /\ n.cur = Tail(s.cur) /\ n.rest = s.rest
        /\ n.pc \in {"gate", "line"} /\ (n.pc = "gate" <=> n.cur = <<>>)
    <3> HIDE DEF s
    <3> QED
      BY <1>2, <2>0, PopShape
  <2>2. Acts(x, n)
    BY <1>1 DEF Acts, jobVars, n
  <2>3. UNCHANGED <<priv, istat, iver>>
    BY <1>5 DEF Settle, TakenBack, itemVars
  <2> QED
    BY <1>1, <1>5, <2>1, <2>2, <2>3, SettledKept
<1> QED
  BY <1>4, <1>5

\* Every step of a thread keeps the invariant.
\* What a step that does not touch the manifests keeps.
LEMMA CopyStays ==
  ASSUME NEW j \in Jobs, CopyKept(j), base' = base, priv' = priv
  PROVE  CopyKept(j)' /\ \A t : MadeOf(t)' = MadeOf(t)
BY DEF CopyKept, Own, MadeOf

\* A version that no item is told.
LEMMA LeftBehind ==
  ASSUME Types, NEW t \in Tasks, CopyKept(JobOf[t]), base' = base, MadeOf(t) = {}, NEW st \in Terminal,
         NEW want \in Nat,
         priv' = [priv EXCEPT ![JobOf[t]][LineOf[t]] = Appended(priv[JobOf[t]][LineOf[t]], want, t, st)]
  PROVE  /\ CopyKept(JobOf[t])' /\ priv' \in [Jobs -> [Lines -> Histories]]
         /\ \E v : v.status = st /\ MadeOf(t)' = {v}
         /\ \A u \in TasksOf(JobOf[t]) \ {t} : MadeOf(u)' = MadeOf(u)
         /\ \A k \in Jobs \ {JobOf[t]} : priv'[k] = priv[k]
<1> DEFINE j == JobOf[t]
           l == LineOf[t]
           h == priv[j][l]
           b == Len(base[j][l])
           new == Appended(h, want, t, st)
           v == Version(Last1(new), t, st)
<1>1. j \in Jobs /\ l \in Lines
  BY TaskAssumption
<1>2. /\ h \in Histories /\ Growing(h) /\ b \in 0..Len(h) /\ \A i \in 1..b : h[i] = base[j][l][i]
      /\ Own(j, l) = Beyond(h, b) /\ Growing(base[j][l])
  BY <1>1, CopyTypes
<1>3. /\ new \in Histories /\ Growing(new) /\ Len(new) = Len(h) + 1
      /\ \A i \in DOMAIN h : new[i] = h[i]
      /\ Beyond(new, b) = Beyond(h, b) \cup {v}
  <2>1. new = Appended(h, want, t, st)
    OBVIOUS
  <2> HIDE DEF h, b, new
  <2>2. /\ new \in Histories /\ Growing(new) /\ Len(new) = Len(h) + 1
        /\ \A i \in DOMAIN h : new[i] = h[i]
        /\ Beyond(new, b) = Beyond(h, b) \cup {Version(Last1(new), t, st)}
    BY <1>2, <2>1, AppendedFacts
  <2> QED
    BY <2>2
<1>4. v.task = t /\ v.status = st
  BY DEF Version
<1>a. priv' = [priv EXCEPT ![j][l] = new]
  OBVIOUS
<1> HIDE DEF new, v
<1>5. /\ priv'[j][l] = new
      /\ \A m \in Lines \ {l} : priv'[j][m] = priv[j][m]
      /\ \A k \in Jobs \ {j} : priv'[k] = priv[k]
      /\ priv' \in [Jobs -> [Lines -> Histories]]
  BY <1>1, <1>3, <1>a DEF Types
<1>6. Own(j, l)' = Own(j, l) \cup {v}
  BY <1>2, <1>3, <1>5 DEF Own
<1>7. \A m \in Lines \ {l} : Own(j, m)' = Own(j, m)
  BY <1>5 DEF Own
<1>8. ASSUME NEW m \in Lines
      PROVE  /\ Growing(base'[j][m]) /\ Growing(priv'[j][m])
             /\ Len(base'[j][m]) <= Len(priv'[j][m])
             /\ \A i \in 1..Len(base'[j][m]) : priv'[j][m][i] = base'[j][m][i]
             /\ \A w \in Own(j, m)' : w.task \in Tasks /\ JobOf[w.task] = j /\ LineOf[w.task] = m
  <2>1. CASE m # l
    BY <1>5, <1>7, <2>1 DEF CopyKept
  <2>2. CASE m = l
    <3>1. Len(h) \in Nat /\ DOMAIN h = 1..Len(h)
      BY <1>2, HistoryTypes
    <3>2. b <= Len(new) /\ \A i \in 1..b : new[i] = base[j][l][i]
      BY <1>2, <1>3, <3>1
    <3>3. \A w \in Own(j, l)' : w.task \in Tasks /\ JobOf[w.task] = j /\ LineOf[w.task] = l
      BY <1>1, <1>4, <1>6 DEF CopyKept
    <3> QED
      BY <1>2, <1>3, <1>5, <2>2, <3>2, <3>3
  <2> QED
    BY <2>1, <2>2
<1>9. CopyKept(j)'
  BY <1>8 DEF CopyKept
<1>10. ASSUME NEW u \in TasksOf(j), u # t PROVE MadeOf(u)' = MadeOf(u)
  <2>1. JobOf[u] = j /\ LineOf[u] \in Lines
    BY TaskAssumption DEF TasksOf
  <2>2. {w \in Own(j, LineOf[u])' : w.task = u} = {w \in Own(j, LineOf[u]) : w.task = u}
    BY <1>4, <1>6, <1>7, <1>10, <2>1
  <2> QED
    BY <2>1, <2>2 DEF MadeOf
<1>11. MadeOf(t)' = {v}
  BY <1>4, <1>6 DEF MadeOf
<1> QED
  BY <1>4, <1>5, <1>9, <1>10, <1>11

\* What a thread that is to raise may leave behind of the task at hand.
LEMMA MayLeave ==
  ASSUME Types, NEW j \in Jobs, NEW h \in Tasks, JobOf[h] = j, CopyKept(j), base' = base, MadeOf(h) = {},
         \/ priv' = priv
         \/ \E st \in {"failed", "cancelled"} :
              priv' = [priv EXCEPT ![j][LineOf[h]] = Appended(priv[j][LineOf[h]], Len(priv[j][LineOf[h]]) + 1, h, st)]
  PROVE  /\ CopyKept(j)' /\ priv' \in [Jobs -> [Lines -> Histories]]
         /\ MadeOf(h)' = {} \/ \E v : v.status \in {"failed", "cancelled"} /\ MadeOf(h)' = {v}
         /\ \A u \in TasksOf(j) \ {h} : MadeOf(u)' = MadeOf(u)
         /\ \A k \in Jobs \ {j} : priv'[k] = priv[k]
<1>1. CASE priv' = priv
  <2>1. CopyKept(j)' /\ \A u : MadeOf(u)' = MadeOf(u)
    BY <1>1, CopyStays
  <2> QED
    BY <1>1, <2>1 DEF Types
<1>2. ASSUME NEW st \in {"failed", "cancelled"},
             priv' = [priv EXCEPT ![j][LineOf[h]] = Appended(priv[j][LineOf[h]], Len(priv[j][LineOf[h]]) + 1, h, st)]
      PROVE  /\ CopyKept(j)' /\ priv' \in [Jobs -> [Lines -> Histories]]
             /\ \E v : v.status = st /\ MadeOf(h)' = {v}
             /\ \A u \in TasksOf(j) \ {h} : MadeOf(u)' = MadeOf(u)
             /\ \A k \in Jobs \ {j} : priv'[k] = priv[k]
  <2> DEFINE w == Len(priv[j][LineOf[h]]) + 1
  <2>1. w \in Nat
    <3>1. priv[j][LineOf[h]] \in Histories
      BY TaskAssumption DEF Types
    <3>2. Len(priv[j][LineOf[h]]) \in Nat
      BY <3>1, HistoryTypes
    <3> QED
      BY <3>2
  <2>2. st \in Terminal /\ CopyKept(JobOf[h])
    BY DEF Terminal
  <2>3. priv' = [priv EXCEPT ![JobOf[h]][LineOf[h]] = Appended(priv[JobOf[h]][LineOf[h]], w, h, st)]
    BY <1>2
  <2> HIDE DEF w
  <2> QED
    BY <2>1, <2>2, <2>3, LeftBehind
<1> QED
  BY <1>1, <1>2

\* The thread of a job that was evicted raises.
LEMMA DisownedKept ==
  ASSUME IInv, NEW x \in Threads, Disowned(x)
  PROVE  IInv'
<1> DEFINE s == th[x]
           j == x[1]
           n == [s EXCEPT !.pc = "raised"]
<1>1. s.pc \in Slow /\ j \notin known /\ Raise(x) /\ UNCHANGED <<jobVars, itemVars, store, base, given, asked, ever>>
  BY DEF Disowned
<1>2. s.pc \in Serving \ {"settle"}
  BY <1>1 DEF Slow, Serving, Labels
<1>3a. /\ j \in Jobs /\ x \in ThreadsOf(j) /\ JobKept(j) /\ Types /\ StoreGrows /\ Fits(s, j) /\ s.cur # <<>>
       /\ Head(s.cur) \in TasksOf(j) /\ Head(s.cur) \in Tasks /\ JobOf[Head(s.cur)] = j /\ LineOf[Head(s.cur)] \in Lines
       /\ OnHand(s, Head(s.cur)) /\ Has(s, Head(s.cur)) /\ MadeOf(Head(s.cur)) = {}
  BY <1>2, AtHand DEF IInv
<1>0. PICK h \in Tasks : h = Head(s.cur)
  BY <1>3a, Zenon
<1>3. /\ j \in Jobs /\ x \in ThreadsOf(j) /\ JobKept(j) /\ Types /\ StoreGrows /\ Fits(s, j) /\ s.cur # <<>>
      /\ h \in TasksOf(j) /\ h \in Tasks /\ JobOf[h] = j /\ LineOf[h] \in Lines /\ OnHand(s, h) /\ Has(s, h)
      /\ MadeOf(h) = {}
  BY <1>0, <1>3a, Zenon
<1>4. /\ th' = [th EXCEPT ![x] = n] /\ n \in ThreadStates /\ n.pc = "raised" /\ n.cur = s.cur /\ n.rest = s.rest
  <2>1. n = [th[x] EXCEPT !.pc = "raised"] /\ "raised" \in Labels /\ Goto(x, "raised")
    BY <1>1 DEF Labels, Raise, Goto
  <2> HIDE DEF n
  <2> QED
    BY <1>3, <2>1, GotoShape
<1> HIDE DEF n
<1>5. Acts(x, n)
  BY <1>1, <1>4 DEF Acts, jobVars
<1>6. /\ run[j] = "working" /\ th'[x] = n /\ \A y \in Threads \ {x} : th'[y] = th[y]
      /\ x \in Threads /\ x[1] = j
      /\ \A t : Outcomes(t)' = Outcomes(t)
      /\ Fits(s, j)
  <2>1. th[x].pc \notin {"done", "raised"}
    BY <1>2 DEF Serving
  <2> HIDE DEF s, j
  <2> QED
    BY <1>3, <1>5, <2>1, ActsFacts DEF s
<1>7. UNCHANGED <<known, jstat, run, broken, lost, istat, iver, base, given, asked>>
  BY <1>1 DEF jobVars, itemVars
<1>8. j \in asked
  BY <1>1, <1>3, <1>6 DEF JobKept, StatusKept, Midway
\* What it may leave behind.
<1>9. /\ CopyKept(j)' /\ priv' \in [Jobs -> [Lines -> Histories]]
      /\ MadeOf(h)' = {} \/ \E v : v.status \in {"failed", "cancelled"} /\ MadeOf(h)' = {v}
      /\ \A u \in TasksOf(j) \ {h} : MadeOf(u)' = MadeOf(u)
      /\ \A k \in Jobs \ {j} : priv'[k] = priv[k]
  <2>1. \/ priv' = priv
        \/ \E st \in {"failed", "cancelled"} :
             priv' = [priv EXCEPT ![j][LineOf[h]] = Appended(priv[j][LineOf[h]], Len(priv[j][LineOf[h]]) + 1, h, st)]
    BY <1>0 DEF Disowned
  <2>2. CopyKept(j) /\ base' = base
    BY <1>3, <1>7 DEF JobKept
  <2> HIDE DEF s, j
  <2> QED
    BY <1>3, <2>1, <2>2, MayLeave
<1>10. /\ Fits(n, j)
       /\ \A u \in Tasks : (Has(n, u) <=> Has(s, u)) /\ (Waits(n, u) => Waits(s, u) /\ u # h)
  <2>1. /\ Fits(n, j)
        /\ \A u \in Tasks : (Has(n, u) <=> Has(s, u)) /\ (OnHand(n, u) <=> OnHand(s, u))
    <3>1. /\ n.pc \in Serving => n.cur # <<>>
          /\ n.pc \in {"done", "gate"} => n.cur = <<>>
          /\ s.pc \notin {"done", "raised"}
      BY <1>2, <1>4 DEF Serving
    <3> HIDE DEF s, j
    <3> QED
      BY <1>3, <1>4, <1>6, <3>1, GotoFits
  <2> QED
    BY <1>2, <1>3, <1>4, <2>1 DEF Waits, Decided
<1>11. \A y \in ThreadsOf(j) \ {x} : ~Has(th[y], h) /\ ~OnHand(th[y], h)
  <2>1. \A y \in ThreadsOf(j) : OnHand(th[y], h) => Has(th[y], h)
    <3> SUFFICES ASSUME NEW y \in ThreadsOf(j), OnHand(th[y], h) PROVE InCur(th[y], h)
      BY DEF Has
    <3>1. th[y] \in ThreadStates
      BY <1>3 DEF JobKept, ThreadsKept, Fits
    <3> QED
      BY <3>1, ThreadTypes DEF OnHand, InCur
  <2> QED
    BY <1>3, <2>1 DEF JobKept, ThreadsKept
<1>12. StatusKept(j)'
  BY <1>3, <1>7 DEF JobKept, StatusKept
<1>13. ThreadsKept(j)'
  <2>1. ASSUME NEW y \in ThreadsOf(j)
        PROVE  /\ Fits(th'[y], j)
               /\ th'[y].pc \notin {"done", "raised"} => run'[j] = "working"
               /\ run'[j] \notin Early
               /\ th'[y].pc = "done" /\ run'[j] = "working" /\ j \notin asked' => th'[y].rest = <<>>
               /\ \A u \in Tasks : Has(th'[y], u) => Has(th[y], u)
    BY <1>3, <1>6, <1>7, <1>8, <1>10 DEF JobKept, ThreadsKept, ThreadsOf, Early
  <2>2. run'[j] \notin Early
    BY <1>6, <1>7 DEF Early
  <2> QED
    BY <1>3, <2>1, <2>2 DEF JobKept, ThreadsKept
<1>14. ASSUME NEW u \in TasksOf(j) PROVE TaskKept(u)'
  <2>0. TaskKept(u) /\ u \in Tasks /\ JobOf[u] = j
    BY <1>3 DEF TasksOf, JobKept
  <2>1. /\ \A v, w \in MadeOf(u)' : v = w
        /\ \A v \in MadeOf(u)' : v.status = "completed" => v \in MadeOf(u)
        /\ u # h => MadeOf(u)' = MadeOf(u)
    <3> HIDE DEF s, j
    <3>1. CASE u = h
      BY <1>9, <3>1
    <3>2. CASE u # h
      <4>1. MadeOf(u)' = MadeOf(u)
        BY <1>9, <3>2
      <4> QED
        BY <2>0, <3>2, <4>1 DEF TaskKept, VersionOnce
    <3> QED
      BY <3>1, <3>2
  <2>2. ASSUME NEW y \in ThreadsOf(j)
        PROVE  /\ Waits(th'[y], u) => Waits(th[y], u) /\ u # h
               /\ At(y, u, {"settle"})' <=> At(y, u, {"settle"})
               /\ At(y, u, {"settle"}) => u # h
    <3>1. CASE y = x
      BY <1>2, <1>4, <1>6, <1>10, <2>0, <3>1 DEF At
    <3>2. CASE y # x
      <4>1. th'[y] = th[y]
        BY <1>6, <3>2 DEF ThreadsOf
      <4> QED
        BY <1>11, <3>2, <4>1 DEF At, Waits
    <3> QED
      BY <3>1, <3>2
  <2>3. VersionOnce(u)'
    BY <1>6, <1>7, <2>0, <2>1, <2>2 DEF TaskKept, VersionOnce, Early
  <2>4. VersionMade(u)'
    BY <1>6, <1>7, <1>8, <2>0 DEF VersionMade
  <2>5. SilenceKept(u)'
    <3>1. (FailedItem(j)' <=> FailedItem(j)) /\ (Cancelled(j)' <=> Cancelled(j))
      BY <1>7 DEF FailedItem, Cancelled
    <3> QED
      BY <1>6, <1>7, <2>0, <2>1, <2>2, <3>1 DEF TaskKept, SilenceKept
  <2>6. ItemKept(u)' /\ NumberKept(u)'
    BY <1>7, <1>8, <2>0 DEF ItemKept, NumberKept
  <2>7. OutcomeKept(u)'
    BY <1>6, <1>7, <2>0 DEF TaskKept, OutcomeKept, Phases, Midway
  <2> QED
    BY <2>3, <2>4, <2>5, <2>6, <2>7 DEF TaskKept
<1>15. ASSUME NEW k \in Jobs \ {j} PROVE Untouched(k)
  <2>1. \A y \in ThreadsOf(k) : th'[y] = th[y]
    BY <1>6 DEF ThreadsOf
  <2> QED
    BY <1>6, <1>7, <1>9, <2>1 DEF Untouched
<1>16. \A k \in Jobs : JobKept(k)'
  <2> TAKE k \in Jobs
  <2>1. CASE k # j
    BY <1>15, <2>1, UntouchedKept DEF IInv
  <2>2. CASE k = j
    BY <1>9, <1>12, <1>13, <1>14, <2>2 DEF JobKept
  <2> QED
    BY <2>1, <2>2
<1>17. istat' \in [Tasks -> Stats] /\ iver' \in [Tasks -> Nat]
  BY <1>3, <1>7 DEF Types, Stats
<1> QED
  BY <1>4, <1>5, <1>9, <1>16, <1>17, StillTypes

LEMMA ThreadKept ==
  ASSUME IInv, NEW x \in Threads, ThreadStep(x) \/ Preempted(x)
  PROVE  IInv'
<1>1. CASE SynthesisCancelled(x)
  BY <1>1, FailuresKept DEF SynthesisCancelled
<1>2. CASE Disowned(x)
  BY <1>2, DisownedKept
<1> QED
  BY <1>1, <1>2, GateKept, OnTheWay, StartKept, FailuresKept, LineKept, MadeKept, CommitKept, SettleKept DEF ThreadStep

-----------------------------------------------------------------------------
(***************************************************************************)
(* The steps of a job.                                                     *)
(***************************************************************************)
\* A step of job j leaves the others alone.
LEMMA OneJobKept ==
  ASSUME IInv, NEW j \in Jobs, JobKept(j)', \A k \in Jobs \ {j} : Untouched(k), Types', StoreGrows'
  PROVE  IInv'
<1>1. ASSUME NEW k \in Jobs PROVE JobKept(k)'
  <2>1. CASE k # j
    BY <2>1, UntouchedKept DEF IInv
  <2> QED
    BY <2>1
<1> QED
  BY <1>1 DEF IInv

LEMMA OutcomesStay ==
  ASSUME ever' = ever
  PROVE  \A t : Outcomes(t)' = Outcomes(t)
BY DEF Outcomes

LEMMA SubmitKept ==
  ASSUME IInv, NEW j \in Jobs, Submit(j)
  PROVE  IInv'
<1>1. /\ Types /\ JobKept(j) /\ run[j] = "new" /\ j \notin known
      /\ UNCHANGED <<broken, lost, iver, store, base, priv, given, th, asked, ever>>
      /\ known' = known \cup {j}
      /\ istat' = [t \in Tasks |-> IF JobOf[t] = j /\ t \in Unroutable THEN "failed" ELSE istat[t]]
      /\ \/ jstat' = [jstat EXCEPT ![j] = "failed"] /\ run' = [run EXCEPT ![j] = "refused"]
         \/ jstat' = [jstat EXCEPT ![j] = "queued"] /\ run' = [run EXCEPT ![j] = "pending"]
  BY DEF Submit, manifests, IInv, JobKept, StatusKept
<1>2. /\ run' \in [Jobs -> Phases]
      /\ jstat' \in [Jobs -> {"new", "queued", "running", "cancelling"} \cup Terminal]
      /\ \A k \in Jobs \ {j} : run'[k] = run[k] /\ jstat'[k] = jstat[k]
      /\ run'[j] \in {"pending", "refused"} /\ (run'[j] = "pending" => jstat'[j] = "queued")
  BY <1>1 DEF Types, Terminal, Phases, Early
<1>3. Types' /\ StoreGrows'
  <2>1. Types'
    BY <1>1, <1>2 DEF Types, Terminal
  <2> QED
    BY <1>1, <2>1 DEF IInv, StoreGrows
<1>4. \A t : MadeOf(t)' = MadeOf(t) /\ Outcomes(t)' = Outcomes(t)
  BY <1>1, CopyStays, OutcomesStay DEF JobKept
<1>5. CopyKept(j)'
  BY <1>1, CopyStays DEF JobKept
<1>6. StatusKept(j)'
  <2>1. \A t \in TasksOf(j) \ Unroutable : istat'[t] # "failed"
    BY <1>1 DEF JobKept, StatusKept, TasksOf
  <2> QED
    BY <1>1, <1>2, <2>1 DEF JobKept, StatusKept, Midway
<1>7. ThreadsKept(j)'
  BY <1>1, <1>2 DEF JobKept, ThreadsKept, Early
<1>8. ASSUME NEW t \in TasksOf(j) PROVE TaskKept(t)'
  <2>1. /\ TaskKept(t) /\ t \in Tasks /\ JobOf[t] = j /\ istat[t] = "queued" /\ MadeOf(t) = {} /\ iver[t] = 0
        /\ istat'[t] \in {"queued", "failed"} /\ (t \in Unroutable <=> istat'[t] = "failed")
    BY <1>1 DEF JobKept, TaskKept, VersionOnce, StatusKept, TasksOf, Early, Midway
  <2>2. \A x \in ThreadsOf(j) : ~At(x, t, {"settle"})'
    BY <1>1 DEF JobKept, ThreadsKept, At
  <2>3. VersionOnce(t)'
    BY <1>1, <1>2, <1>4, <2>1, <2>2 DEF VersionOnce
  <2>4. VersionMade(t)'
    BY <1>2, <2>1 DEF VersionMade
  <2>5. SilenceKept(t)'
    BY <1>2, <1>4, <2>1 DEF SilenceKept
  <2>6. ItemKept(t)'
    BY <1>1, <1>2, <1>4, <2>1 DEF ItemKept
  <2>7. OutcomeKept(t)'
    BY <1>1, <1>2, <1>4, <2>1 DEF TaskKept, OutcomeKept
  <2>8. NumberKept(t)'
    BY <1>2, <2>1 DEF NumberKept
  <2> QED
    BY <2>3, <2>4, <2>5, <2>6, <2>7, <2>8 DEF TaskKept
<1>9. \A k \in Jobs \ {j} : Untouched(k)
  BY <1>1, <1>2, <1>4 DEF Untouched, TasksOf
<1>10. JobKept(j)'
  BY <1>5, <1>6, <1>7, <1>8 DEF JobKept
<1> QED
  BY <1>3, <1>9, <1>10, OneJobKept

LEMMA EvictKept ==
  ASSUME IInv, NEW j \in Jobs, Evict(j)
  PROVE  IInv'
<1>1. /\ Types /\ JobKept(j) /\ jstat[j] \in Terminal /\ known' = known \ {j}
      /\ UNCHANGED <<jstat, run, broken, lost, istat, iver, store, base, priv, given, th, asked, ever>>
  BY DEF Evict, itemVars, manifests, IInv
<1>2. Types' /\ StoreGrows'
  BY <1>1 DEF IInv, Types, StoreGrows
<1>3. \A t : MadeOf(t)' = MadeOf(t) /\ Outcomes(t)' = Outcomes(t)
  BY <1>1, CopyStays, OutcomesStay DEF JobKept
<1>4. CopyKept(j)'
  BY <1>1, CopyStays DEF JobKept
<1>5. StatusKept(j)'
  BY <1>1 DEF JobKept, StatusKept, Terminal
<1>6. ThreadsKept(j)'
  BY <1>1 DEF JobKept, ThreadsKept
<1>7. ASSUME NEW t \in TasksOf(j) PROVE TaskKept(t)'
  <2>1. TaskKept(t) /\ JobOf[t] = j
    BY <1>1 DEF JobKept, TasksOf
  <2>2. \A x, labels : At(x, t, labels)' <=> At(x, t, labels)
    BY <1>1 DEF At
  <2>3. VersionOnce(t)' /\ VersionMade(t)'
    BY <1>1, <1>3, <2>1, <2>2 DEF TaskKept, VersionOnce, VersionMade
  <2>4. SilenceKept(t)'
    BY <1>1, <1>3, <2>1, <2>2 DEF TaskKept, SilenceKept, FailedItem, Cancelled
  <2>5. ItemKept(t)' /\ OutcomeKept(t)'
    BY <1>1, <1>3, <2>1, <2>2 DEF TaskKept, ItemKept, OutcomeKept, Early, Named, Phases, Midway
  <2>6. NumberKept(t)'
    BY <1>1, <1>3, <2>1 DEF TaskKept, NumberKept, Named
  <2> QED
    BY <2>3, <2>4, <2>5, <2>6 DEF TaskKept
<1>8. \A k \in Jobs \ {j} : Untouched(k)
  BY <1>1, <1>3 DEF Untouched
<1>9. JobKept(j)'
  BY <1>4, <1>5, <1>6, <1>7 DEF JobKept
<1> QED
  BY <1>2, <1>8, <1>9, OneJobKept

LEMMA CancelKept ==
  ASSUME IInv, NEW j \in Jobs, Cancel(j)
  PROVE  IInv'
<1> DEFINE items == {CancelledItem(istat[t]) : t \in TasksOf(j)}
           active == \E t \in TasksOf(j) : istat[t] = "active"
<1>1. /\ Types /\ JobKept(j) /\ j \in known /\ jstat[j] \in {"queued", "running"}
      /\ UNCHANGED <<known, run, broken, lost, iver, store, base, priv, given, th, ever>>
      /\ asked' = asked \cup {j}
      /\ istat' = [t \in Tasks |-> IF JobOf[t] = j THEN CancelledItem(istat[t]) ELSE istat[t]]
      /\ jstat' = [jstat EXCEPT ![j] =
                     IF active THEN "cancelling"
                     ELSE IF "failed" \in items THEN "failed"
                     ELSE IF items = {"completed"} THEN "completed"
                     ELSE "cancelled"]
  BY DEF Cancel, manifests, IInv
<1>2. /\ jstat'[j] = IF active THEN "cancelling"
                     ELSE IF "failed" \in items THEN "failed"
                     ELSE IF items = {"completed"} THEN "completed"
                     ELSE "cancelled"
      /\ \A k \in Jobs \ {j} : jstat'[k] = jstat[k]
  BY <1>1 DEF Types
<1>3. \A t \in TasksOf(j) : t \in Tasks /\ JobOf[t] = j /\ istat'[t] = CancelledItem(istat[t]) /\ TaskKept(t)
  BY <1>1 DEF TasksOf, JobKept
<1>4. items = {istat'[t] : t \in TasksOf(j)}
  BY <1>3
<1>5. \A t \in TasksOf(j) : /\ (istat'[t] = "failed" <=> istat[t] = "failed")
                            /\ (istat'[t] = "completed" <=> istat[t] = "completed")
  BY <1>3 DEF CancelledItem
<1>6. (FailedItem(j)' <=> FailedItem(j)) /\ (FailedItem(j)' <=> "failed" \in items)
  BY <1>4, <1>5 DEF FailedItem
<1>7. jstat'[j] \in {"cancelling", "failed", "completed", "cancelled"} /\ ~Cancelled(j)
  BY <1>1, <1>2 DEF Cancelled
<1>8. Types' /\ StoreGrows'
  <2>1. istat' \in [Tasks -> {"queued", "active", "cancelling"} \cup Terminal]
    BY <1>1 DEF Types, CancelledItem, Terminal
  <2>2. jstat' \in [Jobs -> {"new", "queued", "running", "cancelling"} \cup Terminal]
    <3>1. jstat'[j] \in {"new", "queued", "running", "cancelling"} \cup Terminal
      BY <1>7 DEF Terminal
    <3>2. jstat' = [jstat EXCEPT ![j] = jstat'[j]]
      BY <1>1, <1>2
    <3> QED
      BY <1>1, <3>1, <3>2 DEF Types
  <2>3. Types'
    BY <1>1, <2>1, <2>2 DEF Types
  <2> QED
    BY <1>1, <2>3 DEF IInv, StoreGrows
<1>9. \A t : MadeOf(t)' = MadeOf(t) /\ Outcomes(t)' = Outcomes(t)
  BY <1>1, CopyStays, OutcomesStay DEF JobKept
<1>10. CopyKept(j)'
  BY <1>1, CopyStays DEF JobKept
<1>11. StatusKept(j)'
  <2>1. run[j] # "done"
    BY <1>1 DEF JobKept, StatusKept
  <2>2. ASSUME jstat'[j] = "cancelled", NEW t \in TasksOf(j) PROVE istat'[t] \in {"completed", "cancelled"}
    <3>1. ~active /\ "failed" \notin items
      BY <1>2, <2>2
    <3>2. istat[t] \notin {"active", "failed"} /\ istat[t] # "cancelling"
      BY <1>3, <1>5, <1>6, <1>7, <2>1, <3>1 DEF TaskKept, SilenceKept
    <3>3. istat[t] \in {"queued", "completed", "cancelled"}
      BY <1>1, <1>3, <3>2 DEF Types, Terminal
    <3> QED
      BY <1>3, <3>3 DEF CancelledItem
  <2>3. run[j] \in Early => \A t \in TasksOf(j) \ Unroutable : istat'[t] # "failed"
    BY <1>1, <1>5 DEF JobKept, StatusKept
  <2> HIDE DEF items, active
  <2> QED
    BY <1>1, <1>7, <2>2, <2>3 DEF JobKept, StatusKept, Midway
<1>12. ThreadsKept(j)'
  BY <1>1 DEF JobKept, ThreadsKept
<1>13. ASSUME NEW t \in TasksOf(j) PROVE TaskKept(t)'
  <2>1. TaskKept(t) /\ JobOf[t] = j /\ t \in Tasks
    BY <1>3
  <2>2. \A x \in ThreadsOf(j) : \A labels : At(x, t, labels)' <=> At(x, t, labels)
    BY <1>1 DEF At
  <2>3. VersionOnce(t)'
    BY <1>1, <1>9, <2>1, <2>2 DEF TaskKept, VersionOnce
  <2>4. VersionMade(t)'
    BY <1>1, <2>1 DEF VersionMade
  <2>5. SilenceKept(t)'
    <3>1. run[j] # "done"
      BY <1>1 DEF JobKept, StatusKept
    <3>2. \A v \in MadeOf(t) : v.status = "completed" => istat'[t] = "completed" \/ FailedItem(j)'
      BY <1>5, <1>6, <1>7, <2>1 DEF TaskKept, SilenceKept
    <3>3. istat'[t] \in {"cancelling", "cancelled"} => Cancelled(j)' \/ FailedItem(j)'
      <4>1. istat'[t] \in items
        BY <1>4
      <4> HIDE DEF items, active
      <4>2. istat'[t] \in {"cancelling", "cancelled"} => items # {"completed"}
        BY <4>1
      <4> QED
        BY <1>2, <1>6, <4>2 DEF Cancelled
    <3> QED
      BY <1>1, <1>9, <2>1, <3>1, <3>2, <3>3 DEF SilenceKept
  <2>6. ItemKept(t)' /\ NumberKept(t)'
    BY <1>1, <2>1 DEF ItemKept, NumberKept
  <2>7. OutcomeKept(t)'
    BY <1>1, <1>9, <2>1 DEF TaskKept, OutcomeKept
  <2> QED
    BY <2>3, <2>4, <2>5, <2>6, <2>7 DEF TaskKept
<1>14. \A k \in Jobs \ {j} : Untouched(k)
  BY <1>1, <1>2, <1>9 DEF Untouched, TasksOf
<1>15. JobKept(j)'
  BY <1>10, <1>11, <1>12, <1>13 DEF JobKept
<1> QED
  BY <1>8, <1>14, <1>15, OneJobKept

LEMMA JoinKept ==
  ASSUME IInv, NEW j \in Jobs, Join(j)
  PROVE  IInv'
<1>1. /\ Types /\ JobKept(j) /\ run[j] = "working" /\ AllOver(j) /\ run' = [run EXCEPT ![j] = "persist"]
      /\ broken' = IF \E x \in Threads : x[1] = j /\ th[x].pc = "raised" THEN broken \cup {j} ELSE broken
      /\ UNCHANGED <<known, jstat, lost, istat, iver, store, base, priv, given, th, asked, ever>>
  BY DEF Join, itemVars, manifests, IInv
<1>2. run'[j] = "persist" /\ \A k \in Jobs \ {j} : run'[k] = run[k] /\ (k \in broken' <=> k \in broken)
  BY <1>1 DEF Types
<1>3. Types' /\ StoreGrows'
  <2>1. Types'
    BY <1>1 DEF Types, Phases, Midway
  <2> QED
    BY <1>1, <2>1 DEF IInv, StoreGrows
<1>4. \A t : MadeOf(t)' = MadeOf(t) /\ Outcomes(t)' = Outcomes(t)
  BY <1>1, CopyStays, OutcomesStay DEF JobKept
<1>5. CopyKept(j)'
  BY <1>1, CopyStays DEF JobKept
<1>6. StatusKept(j)'
  BY <1>1, <1>2 DEF JobKept, StatusKept, Early, Midway
<1>7. \A x \in ThreadsOf(j) : th[x].pc \in {"done", "raised"}
  BY <1>1 DEF AllOver, ThreadsOf
<1>8. ThreadsKept(j)'
  BY <1>1, <1>2, <1>7 DEF JobKept, ThreadsKept, Early
<1>9. ASSUME NEW t \in TasksOf(j) PROVE TaskKept(t)'
  <2>1. TaskKept(t) /\ JobOf[t] = j /\ t \in Tasks
    BY <1>1 DEF JobKept, TasksOf
  <2>2. \A x \in ThreadsOf(j) : \A labels : At(x, t, labels)' <=> At(x, t, labels)
    BY <1>1 DEF At
  <2>3. VersionOnce(t)'
    BY <1>1, <1>2, <1>4, <2>1, <2>2 DEF TaskKept, VersionOnce, Early
  <2>4. VersionMade(t)'
    <3>1. ASSUME j \notin asked, j \notin broken', MadeOf(t) = {} PROVE FALSE
      <4>1. PICK x \in ThreadsOf(j) : Waits(th[x], t) \/ th[x].pc = "raised"
        BY <1>1, <2>1, <3>1 DEF TaskKept, VersionMade
      <4>2. x \in Threads /\ x[1] = j
        BY DEF ThreadsOf
      <4>3. th[x].pc # "raised"
        BY <1>1, <3>1, <4>2
      <4>4. th[x].pc = "done"
        BY <1>7, <4>3
      <4>5. th[x].rest = <<>> /\ th[x].cur = <<>>
        BY <1>1, <3>1, <4>4 DEF JobKept, ThreadsKept, Fits
      <4>6. ~Has(th[x], t)
        BY <4>5 DEF Has, InCur, InRest
      <4> QED
        BY <4>1, <4>3, <4>6 DEF Waits
    <3> QED
      BY <1>1, <1>2, <1>4, <2>1, <3>1 DEF VersionMade
  <2>5. SilenceKept(t)'
    BY <1>1, <1>2, <1>4, <2>1, <2>2 DEF TaskKept, SilenceKept, FailedItem, Cancelled
  <2>6. ItemKept(t)'
    BY <1>1, <1>2, <1>4, <2>1, <2>2 DEF TaskKept, ItemKept, Early, Named
  <2>7. OutcomeKept(t)'
    BY <1>1, <1>2, <1>4, <2>1 DEF TaskKept, OutcomeKept, Phases, Midway
  <2>8. NumberKept(t)'
    BY <1>2, <2>1 DEF NumberKept
  <2> QED
    BY <2>3, <2>4, <2>5, <2>6, <2>7, <2>8 DEF TaskKept
<1>10. \A k \in Jobs \ {j} : Untouched(k)
  BY <1>1, <1>2, <1>4 DEF Untouched
<1>11. JobKept(j)'
  BY <1>5, <1>6, <1>8, <1>9 DEF JobKept
<1> QED
  BY <1>3, <1>10, <1>11, OneJobKept

LEMMA PersistFailsKept ==
  ASSUME IInv, NEW j \in Jobs, PersistFails(j)
  PROVE  IInv'
<1>1. /\ Types /\ JobKept(j) /\ run[j] = "persist" /\ run' = [run EXCEPT ![j] = "finish"]
      /\ lost' = lost \cup {j}
      /\ UNCHANGED <<known, jstat, broken, istat, iver, store, base, priv, given, th, asked, ever>>
  BY DEF PersistFails, itemVars, manifests, IInv
<1>2. run'[j] = "finish" /\ \A k \in Jobs \ {j} : run'[k] = run[k] /\ (k \in lost' <=> k \in lost)
  BY <1>1 DEF Types
<1>3. Types' /\ StoreGrows'
  <2>1. Types'
    BY <1>1 DEF Types, Phases, Midway
  <2> QED
    BY <1>1, <2>1 DEF IInv, StoreGrows
<1>4. \A t : MadeOf(t)' = MadeOf(t) /\ Outcomes(t)' = Outcomes(t)
  BY <1>1, CopyStays, OutcomesStay DEF JobKept
<1>5. CopyKept(j)'
  BY <1>1, CopyStays DEF JobKept
<1>6. StatusKept(j)'
  BY <1>1, <1>2 DEF JobKept, StatusKept, Early, Midway
<1>7. ThreadsKept(j)'
  BY <1>1, <1>2 DEF JobKept, ThreadsKept, Early
<1>8. ASSUME NEW t \in TasksOf(j) PROVE TaskKept(t)'
  <2>1. TaskKept(t) /\ JobOf[t] = j /\ t \in Tasks
    BY <1>1 DEF JobKept, TasksOf
  <2>2. \A x \in ThreadsOf(j) : \A labels : At(x, t, labels)' <=> At(x, t, labels)
    BY <1>1 DEF At
  <2>3. VersionOnce(t)' /\ VersionMade(t)'
    BY <1>1, <1>2, <1>4, <2>1, <2>2 DEF TaskKept, VersionOnce, VersionMade, Early
  <2>4. SilenceKept(t)'
    BY <1>1, <1>2, <1>4, <2>1, <2>2 DEF TaskKept, SilenceKept, FailedItem, Cancelled
  <2>5. ItemKept(t)'
    BY <1>1, <1>2, <1>4, <2>1, <2>2 DEF TaskKept, ItemKept, Early, Named
  <2>6. OutcomeKept(t)' /\ NumberKept(t)'
    BY <1>1, <1>2, <1>4, <2>1 DEF TaskKept, OutcomeKept, NumberKept
  <2> QED
    BY <2>3, <2>4, <2>5, <2>6 DEF TaskKept
<1>9. \A k \in Jobs \ {j} : Untouched(k)
  BY <1>1, <1>2, <1>4 DEF Untouched
<1>10. JobKept(j)'
  BY <1>5, <1>6, <1>7, <1>8 DEF JobKept
<1> QED
  BY <1>3, <1>9, <1>10, OneJobKept

LEMMA FinishKept ==
  ASSUME IInv, NEW j \in Jobs, Finish(j)
  PROVE  IInv'
<1> DEFINE failed == j \in broken \cup lost
           over(s) == IF failed THEN IF s \in Terminal THEN s ELSE "failed"
                      ELSE IF s = "cancelling" THEN "cancelled" ELSE s
           items == {over(istat[t]) : t \in TasksOf(j)}
           status == IF failed \/ "failed" \in items THEN "failed"
                     ELSE IF jstat[j] = "cancelling" \/ "cancelled" \in items THEN "cancelled"
                     ELSE "completed"
<1>1. /\ Types /\ JobKept(j) /\ run[j] = "finish" /\ \A l \in Lines : given[j][l] = <<>>
      /\ run' = [run EXCEPT ![j] = "done"]
      /\ UNCHANGED <<known, broken, lost, iver, store, base, priv, given, th, asked, ever>>
      /\ istat' = [t \in Tasks |-> IF JobOf[t] = j THEN over(istat[t]) ELSE istat[t]]
      /\ jstat' = [jstat EXCEPT ![j] = status]
  BY DEF Finish, manifests, IInv
<1>2. /\ run'[j] = "done" /\ \A k \in Jobs \ {j} : run'[k] = run[k] /\ jstat'[k] = jstat[k]
      /\ jstat'[j] = status
  BY <1>1 DEF Types
<1>3. \A t \in TasksOf(j) : t \in Tasks /\ JobOf[t] = j /\ istat'[t] = over(istat[t]) /\ TaskKept(t)
  BY <1>1 DEF TasksOf, JobKept
<1>4. items = {istat'[t] : t \in TasksOf(j)}
  BY <1>3
<1>5. \A t \in TasksOf(j) : istat[t] \in Terminal => istat'[t] = istat[t]
  BY <1>3 DEF Terminal
<1>6. FailedItem(j)' => jstat'[j] = "failed"
  BY <1>2, <1>4 DEF FailedItem
<1>7. FailedItem(j) => FailedItem(j)'
  BY <1>5 DEF FailedItem, Terminal
<1>8. status \in {"failed", "cancelled", "completed"}
  OBVIOUS
<1>9. \A s \in {"queued", "active", "cancelling"} \cup Terminal : over(s) \in {"queued", "active", "cancelling"} \cup Terminal
  BY DEF Terminal
<1> HIDE DEF items, over, failed, status
<1>10. Types' /\ StoreGrows'
  <2>1. istat' \in [Tasks -> {"queued", "active", "cancelling"} \cup Terminal]
    BY <1>1, <1>9 DEF Types
  <2>2. Types'
    BY <1>1, <1>8, <2>1 DEF Types, Terminal, Phases, Midway
  <2> QED
    BY <1>1, <2>2 DEF IInv, StoreGrows
<1>11. \A t : MadeOf(t)' = MadeOf(t) /\ Outcomes(t)' = Outcomes(t)
  BY <1>1, CopyStays, OutcomesStay DEF JobKept
<1>12. CopyKept(j)'
  BY <1>1, CopyStays DEF JobKept
<1>13. StatusKept(j)'
  BY <1>1, <1>2, <1>8 DEF JobKept, StatusKept, Early, Midway
<1>14. ThreadsKept(j)'
  BY <1>1, <1>2 DEF JobKept, ThreadsKept, Early
<1>15. ASSUME NEW t \in TasksOf(j) PROVE TaskKept(t)'
  <2>1. TaskKept(t) /\ JobOf[t] = j /\ t \in Tasks /\ LineOf[t] \in Lines
    BY <1>3, TaskAssumption
  <2>2. \A x \in ThreadsOf(j) : ~At(x, t, {"settle"})
    BY <1>1 DEF JobKept, ThreadsKept, At
  <2>3. VersionOnce(t)' /\ VersionMade(t)'
    <3>1. \A x \in ThreadsOf(j) : ~At(x, t, {"settle"})'
      BY <1>1, <2>2 DEF At
    <3> QED
      BY <1>1, <1>2, <1>11, <2>1, <3>1 DEF TaskKept, VersionOnce, VersionMade, Early
  <2>4. SilenceKept(t)'
    <3>1. \A v \in MadeOf(t) : v.status = "completed" => istat'[t] = "completed" \/ FailedItem(j)'
      BY <1>5, <1>7, <2>1, <2>2 DEF TaskKept, SilenceKept, Terminal
    <3>2. jstat'[j] = "cancelled" /\ istat'[t] = "cancelled" => \A v \in MadeOf(t) : v.status # "completed"
      BY <1>6, <3>1
    <3> QED
      BY <1>2, <1>11, <2>1, <3>1, <3>2 DEF SilenceKept
  <2>5. ItemKept(t)' /\ (j \notin asked => \A v \in MadeOf(t) : istat'[t] = v.status /\ istat[t] = v.status)
    <3>1. \A v \in MadeOf(t) : v.status \in Terminal
      BY <1>1, <2>1, OwnIds DEF MadeOf, JobKept
    <3>2. j \notin asked => \A v \in MadeOf(t) : istat'[t] = v.status /\ istat[t] = v.status
      BY <1>5, <2>1, <3>1 DEF TaskKept, ItemKept
    <3> QED
      BY <1>1, <1>2, <1>11, <2>1, <3>2 DEF ItemKept, Early, Named
  <2>6. OutcomeKept(t)'
    BY <1>1, <1>2, <1>11, <2>1 DEF TaskKept, OutcomeKept
  <2>7. NumberKept(t)'
    <3>1. j \notin asked => \A v \in Outcomes(t) : v.status = istat[t] => v.status = istat'[t]
      <4>1. \A v \in Outcomes(t) : \E w \in MadeOf(t) : v.status = w.status
        BY <2>1 DEF TaskKept, OutcomeKept
      <4> QED
        BY <2>5, <4>1
    <3> QED
      BY <1>1, <1>2, <1>11, <2>1, <3>1 DEF TaskKept, NumberKept, Named
  <2> QED
    BY <2>3, <2>4, <2>5, <2>6, <2>7 DEF TaskKept
<1>16. \A k \in Jobs \ {j} : Untouched(k)
  BY <1>1, <1>2, <1>11 DEF Untouched, TasksOf
<1>17. JobKept(j)'
  BY <1>12, <1>13, <1>14, <1>15 DEF JobKept
<1> QED
  BY <1>10, <1>16, <1>17, OneJobKept

LEMMA RenumberKept ==
  ASSUME IInv, NEW j \in Jobs, NEW l \in Lines, Renumber(j, l)
  PROVE  IInv'
<1>1. /\ Types /\ JobKept(j) /\ run[j] = "finish" /\ given[j][l] # <<>>
      /\ iver' = [t \in Tasks |-> IF JobOf[t] = j /\ LineOf[t] = l THEN Renumbered(iver[t], Head(given[j][l])) ELSE iver[t]]
      /\ given' = [given EXCEPT ![j][l] = Tail(@)]
      /\ UNCHANGED <<known, jstat, run, broken, lost, istat, store, base, priv, th, asked, ever>>
  BY DEF Renumber, jobVars, IInv
<1>2. /\ given[j][l] \in Seq([from : Nat, to : Nat])
      /\ Head(given[j][l]).to \in Nat /\ Tail(given[j][l]) \in Seq([from : Nat, to : Nat])
  <2>1. given[j][l] \in Seq([from : Nat, to : Nat])
    BY <1>1 DEF Types
  <2> DEFINE g == given[j][l]
             R == [from : Nat, to : Nat]
  <2>2. g \in Seq(R) /\ g # <<>> /\ \A a \in R : a.to \in Nat
    BY <1>1, <2>1
  <2> HIDE DEF g, R
  <2>3. Head(g) \in R /\ Tail(g) \in Seq(R)
    BY <2>2
  <2> QED
    BY <2>2, <2>3 DEF g, R
<1>3. /\ \A k \in Jobs \ {j} : given'[k] = given[k]
      /\ given'[j][l] = Tail(given[j][l]) /\ \A m \in Lines \ {l} : given'[j][m] = given[j][m]
  BY <1>1 DEF Types
<1>4. Types' /\ StoreGrows'
  <2>1. iver' \in [Tasks -> Nat]
    BY <1>1, <1>2 DEF Types, Renumbered
  <2>2. given' \in [Jobs -> [Lines -> Seq([from : Nat, to : Nat])]]
    BY <1>1, <1>2 DEF Types
  <2>3. Types'
    BY <1>1, <2>1, <2>2 DEF Types
  <2> QED
    BY <1>1, <2>3 DEF IInv, StoreGrows
<1>5. \A t : MadeOf(t)' = MadeOf(t) /\ Outcomes(t)' = Outcomes(t)
  BY <1>1, CopyStays, OutcomesStay DEF JobKept
<1>6. CopyKept(j)'
  BY <1>1, CopyStays DEF JobKept
<1>7. StatusKept(j)'
  BY <1>1 DEF JobKept, StatusKept
<1>8. ThreadsKept(j)'
  BY <1>1 DEF JobKept, ThreadsKept
<1>9. ASSUME NEW t \in TasksOf(j) PROVE TaskKept(t)'
  <2>1. TaskKept(t) /\ JobOf[t] = j /\ t \in Tasks /\ LineOf[t] \in Lines
    BY <1>1, TaskAssumption DEF JobKept, TasksOf
  <2>2. \A x \in ThreadsOf(j) : /\ (At(x, t, {"settle"})' <=> At(x, t, {"settle"})) /\ ~At(x, t, {"settle"})
    BY <1>1 DEF JobKept, ThreadsKept, At
  <2>3. VersionOnce(t)' /\ VersionMade(t)'
    BY <1>1, <1>5, <2>1, <2>2 DEF TaskKept, VersionOnce, VersionMade, Early
  <2>4. SilenceKept(t)'
    BY <1>1, <1>5, <2>1, <2>2 DEF TaskKept, SilenceKept, FailedItem, Cancelled
  <2>5. ItemKept(t)' /\ OutcomeKept(t)'
    BY <1>1, <1>5, <2>1 DEF TaskKept, ItemKept, OutcomeKept
  <2>6. NumberKept(t)'
    <3> SUFFICES ASSUME j \notin lost \cup asked, Alone(t), Named(t)
                 PROVE  \/ iver'[t] = 0 /\ given'[j][LineOf[t]] = <<>>
                        \/ \E v \in Outcomes(t) : /\ v.status = istat[t]
                                                  /\ \/ given'[j][LineOf[t]] = <<>> /\ iver'[t] = v.id
                                                     \/ given'[j][LineOf[t]] = <<[from |-> iver'[t], to |-> v.id]>>
      BY <1>1, <1>5, <2>1 DEF NumberKept, Named
    <3>1. \/ iver[t] = 0 /\ given[j][LineOf[t]] = <<>>
          \/ \E v \in Outcomes(t) : /\ v.status = istat[t]
                                    /\ \/ given[j][LineOf[t]] = <<>> /\ iver[t] = v.id
                                       \/ given[j][LineOf[t]] = <<[from |-> iver[t], to |-> v.id]>>
      BY <1>1, <2>1 DEF TaskKept, NumberKept
    <3>2. CASE LineOf[t] # l
      <4>1. iver'[t] = iver[t] /\ given'[j][LineOf[t]] = given[j][LineOf[t]]
        BY <1>1, <1>3, <2>1, <3>2
      <4> QED
        BY <3>1, <4>1
    <3>3. CASE LineOf[t] = l
      <4>1. PICK v \in Outcomes(t) : v.status = istat[t] /\ given[j][l] = <<[from |-> iver[t], to |-> v.id]>>
        BY <1>1, <3>1, <3>3
      <4>2. Head(given[j][l]) = [from |-> iver[t], to |-> v.id] /\ Tail(given[j][l]) = <<>>
        BY <4>1
      <4>3. Renumbered(iver[t], Head(given[j][l])) = v.id
        <5> DEFINE a == Head(given[j][l])
        <5>1. a.from = iver[t] /\ a.to = v.id
          BY <4>2
        <5> HIDE DEF a
        <5>2. Renumbered(iver[t], a) = v.id
          BY <5>1 DEF Renumbered
        <5> QED
          BY <5>2 DEF a
      <4>4. iver'[t] = Renumbered(iver[t], Head(given[j][l]))
        BY <1>1, <2>1, <3>3
      <4>5. given'[j][l] = <<>> /\ iver'[t] = v.id
        BY <1>3, <4>2, <4>3, <4>4
      <4> QED
        BY <3>3, <4>1, <4>5
    <3> QED
      BY <3>2, <3>3
  <2> QED
    BY <2>3, <2>4, <2>5, <2>6 DEF TaskKept
<1>10. \A k \in Jobs \ {j} : Untouched(k)
  BY <1>1, <1>3, <1>5 DEF Untouched, TasksOf
<1>11. JobKept(j)'
  BY <1>6, <1>7, <1>8, <1>9 DEF JobKept
<1> QED
  BY <1>4, <1>10, <1>11, OneJobKept

\* The user deletes a version.
LEMMA DeleteKept ==
  ASSUME IInv, NEW l \in Lines, DeleteVersion(l)
  PROVE  IInv'
<1>1. PICK id : store' = [store EXCEPT ![l] = Dropped(store[l], id)]
  BY DEF DeleteVersion
<1>2. Types /\ UNCHANGED <<known, jstat, run, broken, lost, istat, iver, base, priv, given, th, asked, ever>>
  BY DEF DeleteVersion, jobVars, itemVars, IInv
<1>3. store[l] \in Histories /\ Growing(store[l])
  BY <1>2 DEF Types, IInv, StoreGrows
<1>4. Dropped(store[l], id) \in Histories /\ Growing(Dropped(store[l], id))
  <2> DEFINE h == store[l]
             z == 0
  <2>1. h \in Histories /\ Growing(h) /\ z \in 0..Len(h) /\ \A i \in 1..z : h[i].id # id
    BY <1>3, HistoryTypes
  <2> HIDE DEF h, z
  <2>2. Dropped(h, id) \in Histories /\ Growing(Dropped(h, id))
    BY <2>1, DroppedFacts
  <2> QED
    BY <2>2 DEF h
<1>5. store' \in [Lines -> Histories] /\ StoreGrows'
  <2> DEFINE d == Dropped(store[l], id)
  <2>1. store' = [store EXCEPT ![l] = d] /\ d \in Histories /\ Growing(d)
    BY <1>1, <1>4
  <2> HIDE DEF d
  <2> QED
    BY <1>2, <2>1 DEF Types, IInv, StoreGrows
<1>6. Types'
  BY <1>2, <1>5 DEF Types
<1>7. \A k \in Jobs : Untouched(k)
  BY <1>2, OutcomesStay DEF Untouched
<1>8. \A k \in Jobs : JobKept(k)'
  BY <1>7, UntouchedKept DEF IInv
<1> QED
  BY <1>5, <1>6, <1>8 DEF IInv

\* The manifest takes the versions of a job over, one after the other.
LEMMA MergedFacts ==
  ASSUME Types, StoreGrows, NEW j \in Jobs, NEW l \in Lines, CopyKept(j),
         NEW d, d = Delta(j, l), NEW m, m = Merged(j, l)
  PROVE  /\ d \in Histories /\ Growing(d)
         /\ m \in Histories /\ Growing(m) /\ Len(m) = Len(store[l]) + Len(d)
         /\ \A k \in DOMAIN d : /\ d[k] \in Own(j, l)
                                /\ m[Len(store[l]) + k].task = d[k].task /\ m[Len(store[l]) + k].status = d[k].status
         /\ \A v \in Own(j, l) : \E k \in DOMAIN d : d[k] = v
         /\ \A i, k \in DOMAIN d : d[i] = d[k] => i = k
<1> DEFINE h == priv[j][l]
           b == Len(base[j][l])
           s == store[l]
<1>1. h \in Histories /\ Growing(h) /\ b \in 0..Len(h) /\ Own(j, l) = Beyond(h, b)
  BY CopyTypes
<1>2. s \in Histories /\ Growing(s)
  BY DEF Types, StoreGrows
<1>3. d = SubSeq(h, b + 1, Len(h)) /\ m = AppendedAll(s, d)
  BY DEF Delta, Merged
<1> HIDE DEF h, b, s
<1>4. /\ d \in Histories /\ Growing(d)
      /\ \A k \in DOMAIN d : d[k] \in Beyond(h, b)
      /\ \A v \in Beyond(h, b) : \E k \in DOMAIN d : d[k] = v
  <2>1. h \in Histories /\ Growing(h) /\ b \in 0..Len(h) /\ d = SubSeq(h, b + 1, Len(h))
    BY <1>1, <1>3
  <2>2. d \in Histories /\ Growing(d)
    BY <2>1, DeltaFacts, Zenon
  <2>3. \A k \in DOMAIN d : d[k] \in Beyond(h, b)
    BY <2>1, DeltaFacts, Zenon
  <2>4. Lists(d, Beyond(h, b))
    BY <2>1, DeltaFacts, Zenon
  <2> QED
    BY <2>2, <2>3, <2>4 DEF Lists
<1>5. /\ m \in Histories /\ Growing(m) /\ Len(m) = Len(s) + Len(d)
      /\ \A k \in DOMAIN d : m[Len(s) + k].task = d[k].task /\ m[Len(s) + k].status = d[k].status
  <2>0. s \in Histories /\ Growing(s) /\ d \in Histories /\ Growing(d) /\ m = AppendedAll(s, d)
    BY <1>2, <1>3, <1>4
  <2>1. m \in Histories /\ Growing(m) /\ Len(m) = Len(s) + Len(d)
    BY <2>0, AppendedAllFacts, Zenon
  <2>2. Carries(m, Len(s), d)
    BY <2>0, AppendedAllFacts, Zenon
  <2> QED
    BY <2>1, <2>2 DEF Carries
<1>6. \A i, k \in DOMAIN d : d[i] = d[k] => i = k
  <2> SUFFICES ASSUME NEW i \in DOMAIN d, NEW k \in DOMAIN d, i # k PROVE d[i] # d[k]
    OBVIOUS
  <2>1. i \in Nat /\ k \in Nat /\ d[i].id \in Nat /\ d[k].id \in Nat
    BY <1>4, HistoryTypes
  <2>2. i < k \/ k < i
    BY <2>1
  <2>3. d[i].id < d[k].id \/ d[k].id < d[i].id
    BY <1>4, <2>2 DEF Growing
  <2> QED
    BY <2>1, <2>3
<1> QED
  BY <1>1, <1>4, <1>5, <1>6 DEF s

\* What the items of the job have to be told.
LEMMA AssignmentFacts ==
  ASSUME Types, StoreGrows, NEW j \in Jobs, NEW l \in Lines, CopyKept(j),
         NEW d, d = Delta(j, l), NEW m, m = Merged(j, l), NEW a, a = Assignments(j, l)
  PROVE  /\ a \in Seq([from : Nat, to : Nat])
         /\ Len(d) = 0 => a = <<>>
         /\ Len(d) = 1 => LET to == m[Len(store[l]) + 1].id
                          IN IF d[1].id = to THEN a = <<>> ELSE a = <<[from |-> d[1].id, to |-> to]>>
<1> DEFINE b == Len(store[l])
           R == [from : Nat, to : Nat]
           all == [i \in DOMAIN d |-> [from |-> d[i].id, to |-> m[b + i].id]]
           P == {i \in DOMAIN all : all[i].from # all[i].to}
<1>1. /\ d \in Histories /\ m \in Histories /\ Len(m) = b + Len(d)
  BY MergedFacts
<1>2. b \in Nat
  <2>1. store[l] \in Histories
    BY DEF Types
  <2> QED
    BY <2>1, HistoryTypes
<1> HIDE DEF b
<1>3. /\ Len(d) \in Nat /\ DOMAIN d = 1..Len(d) /\ DOMAIN m = 1..(b + Len(d))
      /\ \A i \in DOMAIN d : d[i].id \in Nat /\ m[b + i].id \in Nat
  BY <1>1, <1>2, HistoryTypes
<1>4. a = Kept(all, P)
  BY DEF Assignments, b
<1>5. \A i \in DOMAIN d : all[i] \in R /\ all[i].from = d[i].id /\ all[i].to = m[b + i].id
  BY <1>3
<1>6. all \in [1..Len(d) -> R]
  BY <1>3, <1>5
<1>7. DOMAIN all = 1..Len(d) /\ all \in Seq(R) /\ Len(all) = Len(d) /\ P \in SUBSET DOMAIN all
  <2> HIDE DEF all, R
  <2>1. DOMAIN all = 1..Len(d) /\ all \in Seq(R)
    BY <1>3, <1>6
  <2> QED
    BY <1>3, <2>1
<1>8. \A i \in DOMAIN d : i \in P <=> d[i].id # m[b + i].id
  BY <1>3, <1>5, <1>7
<1> HIDE DEF all, P, R
<1>9. /\ Cardinality(P) \in Nat /\ Cardinality(P) <= Len(d)
      /\ a \in Seq(R) /\ Len(a) = Cardinality(P) /\ \E pos : Selects(pos, all, P)
  BY <1>4, <1>7, KeptFacts
<1>10. Len(d) = 0 => a = <<>>
  BY <1>9
<1>11. ASSUME Len(d) = 1
       PROVE  IF d[1].id = m[b + 1].id THEN a = <<>> ELSE a = <<[from |-> d[1].id, to |-> m[b + 1].id]>>
  <2>1. 1 \in DOMAIN d /\ P \subseteq {1} /\ (1 \in P <=> d[1].id # m[b + 1].id)
    BY <1>3, <1>7, <1>8, <1>11
  <2>2. CASE d[1].id = m[b + 1].id
    <3>1. P = {}
      BY <2>1, <2>2
    <3>2. Len(a) = 0
      BY <1>9, <3>1, FS_EmptySet
    <3>3. a = <<>>
      BY <1>9, <3>2
    <3> QED
      BY <2>2, <3>3
  <2>3. CASE d[1].id # m[b + 1].id
    <3>1. P = {1}
      BY <2>1, <2>3
    <3>2. Cardinality(P) = 1
      BY <3>1, FS_Singleton
    <3>3. PICK pos : Selects(pos, all, P)
      BY <1>9
    <3>4. pos \in [1..1 -> {1}] /\ \A k \in 1..1 : Kept(all, P)[k] = all[pos[k]]
      BY <3>1, <3>2, <3>3 DEF Selects
    <3>5. pos[1] = 1 /\ a[1] = all[1]
      BY <1>4, <3>4
    <3>6. all[1] = [from |-> d[1].id, to |-> m[b + 1].id]
      BY <2>1 DEF all
    <3>7. Len(a) = 1 /\ a \in Seq(R)
      BY <1>9, <3>2
    <3>8. a = <<a[1]>>
      BY <3>7
    <3>9. a = <<[from |-> d[1].id, to |-> m[b + 1].id]>>
      BY <3>5, <3>6, <3>8, Zenon
    <3> QED
      BY <2>3, <3>9
  <2> QED
    BY <2>2, <2>3
<1> QED
  BY <1>9, <1>10, <1>11 DEF b, R

LEMMA PersistKept ==
  ASSUME IInv, NEW j \in Jobs, Persist(j)
  PROVE  IInv'
<1>1. /\ Types /\ StoreGrows /\ JobKept(j) /\ CopyKept(j) /\ run[j] = "persist" /\ run' = [run EXCEPT ![j] = "finish"]
      /\ store' = [l \in Lines |-> Merged(j, l)]
      /\ given' = [given EXCEPT ![j] = [l \in Lines |-> Assignments(j, l)]]
      /\ ever' = [l \in Lines |-> ever[l] \cup {Merged(j, l)[i] : i \in (Len(store[l]) + 1)..Len(Merged(j, l))}]
      /\ UNCHANGED <<known, jstat, broken, lost, istat, iver, base, priv, th, asked>>
  BY DEF Persist, itemVars, IInv, JobKept
<1>2. /\ run'[j] = "finish" /\ \A k \in Jobs \ {j} : run'[k] = run[k] /\ given'[k] = given[k]
      /\ \A l \in Lines : given'[j][l] = Assignments(j, l)
  BY <1>1 DEF Types
<1>3. ASSUME NEW l \in Lines
      PROVE  LET d == Delta(j, l)
                 m == Merged(j, l)
             IN /\ m \in Histories /\ Growing(m) /\ Assignments(j, l) \in Seq([from : Nat, to : Nat])
                /\ {m[i] : i \in (Len(store[l]) + 1)..Len(m)} = {m[Len(store[l]) + k] : k \in DOMAIN d}
                /\ \A k \in DOMAIN d : m[Len(store[l]) + k] \in Versions
                /\ \A k \in DOMAIN d : /\ d[k] \in Own(j, l)
                                       /\ m[Len(store[l]) + k].task = d[k].task /\ m[Len(store[l]) + k].status = d[k].status
                /\ \A v \in Own(j, l) : \E k \in DOMAIN d : d[k] = v
                /\ \A i, k \in DOMAIN d : d[i] = d[k] => i = k
                /\ DOMAIN d = 1..Len(d) /\ Len(d) \in Nat
  <2> DEFINE d == Delta(j, l)
             m == Merged(j, l)
             a == Assignments(j, l)
             b == Len(store[l])
  <2>1. d = Delta(j, l) /\ m = Merged(j, l) /\ a = Assignments(j, l)
    OBVIOUS
  <2> HIDE DEF d, m, a
  <2>2. /\ d \in Histories /\ Growing(d)
        /\ m \in Histories /\ Growing(m) /\ Len(m) = b + Len(d)
        /\ \A k \in DOMAIN d : /\ d[k] \in Own(j, l)
                               /\ m[b + k].task = d[k].task /\ m[b + k].status = d[k].status
        /\ \A v \in Own(j, l) : \E k \in DOMAIN d : d[k] = v
        /\ \A i, k \in DOMAIN d : d[i] = d[k] => i = k
    BY <1>1, <2>1, MergedFacts
  <2>3. a \in Seq([from : Nat, to : Nat])
    BY <1>1, <2>1, AssignmentFacts
  <2>4. b \in Nat
    <3>1. store[l] \in Histories
      BY <1>1 DEF Types
    <3> QED
      BY <3>1, HistoryTypes
  <2> HIDE DEF b
  <2>5. Len(d) \in Nat /\ DOMAIN d = 1..Len(d) /\ DOMAIN m = 1..(b + Len(d)) /\ \A i \in DOMAIN m : m[i] \in Versions
    BY <2>2, HistoryTypes
  <2>6. \A k \in DOMAIN d : b + k \in DOMAIN m /\ b + k \in (b + 1)..Len(m)
    BY <2>2, <2>4, <2>5
  <2>7. \A i \in (b + 1)..Len(m) : i - b \in DOMAIN d /\ b + (i - b) = i
    BY <2>2, <2>4, <2>5
  <2>8. {m[i] : i \in (b + 1)..Len(m)} = {m[b + k] : k \in DOMAIN d}
    BY <2>6, <2>7
  <2> QED
    BY <2>2, <2>3, <2>5, <2>6, <2>8 DEF d, m, a, b
\* What the manifest gets is of the job's own tasks.
<1>4. \A l \in Lines : ever'[l] = ever[l] \cup {Merged(j, l)[Len(store[l]) + k] : k \in DOMAIN Delta(j, l)}
  BY <1>1, <1>3
<1>5. Types' /\ StoreGrows'
  <2>1. store' \in [Lines -> Histories] /\ StoreGrows'
    BY <1>1, <1>3 DEF StoreGrows
  <2>2. given' \in [Jobs -> [Lines -> Seq([from : Nat, to : Nat])]]
    <3> DEFINE R == [from : Nat, to : Nat]
               a == [l \in Lines |-> Assignments(j, l)]
    <3>1. a \in [Lines -> Seq(R)] /\ given' = [given EXCEPT ![j] = a] /\ given \in [Jobs -> [Lines -> Seq(R)]]
      BY <1>1, <1>3 DEF Types
    <3> HIDE DEF R, a
    <3>2. given' \in [Jobs -> [Lines -> Seq(R)]]
      BY <3>1
    <3> QED
      BY <3>2 DEF R
  <2>3. ever' \in [Lines -> SUBSET Versions]
    <3>1. DOMAIN ever' = Lines /\ ever' = [l \in Lines |-> ever'[l]]
      BY <1>1
    <3>2. \A l \in Lines : ever'[l] \in SUBSET Versions
      <4> TAKE l \in Lines
      <4>1. ever[l] \in SUBSET Versions
        BY <1>1 DEF Types
      <4>2. {Merged(j, l)[Len(store[l]) + k] : k \in DOMAIN Delta(j, l)} \in SUBSET Versions
        BY <1>3
      <4> QED
        BY <1>4, <4>1, <4>2
    <3> QED
      BY <3>1, <3>2
  <2>4. run' \in [Jobs -> Phases]
    BY <1>1 DEF Types, Phases, Midway
  <2>5. Types'
    BY <1>1, <2>1, <2>2, <2>3, <2>4 DEF Types
  <2> QED
    BY <2>1, <2>5
<1>6. \A t : MadeOf(t)' = MadeOf(t)
  BY <1>1, CopyStays
<1>7. CopyKept(j)'
  BY <1>1, CopyStays
<1>8. StatusKept(j)'
  BY <1>1, <1>2 DEF JobKept, StatusKept, Early, Midway
<1>9. ThreadsKept(j)'
  BY <1>1, <1>2 DEF JobKept, ThreadsKept, Early
<1>10. ASSUME NEW t \in TasksOf(j) PROVE TaskKept(t)'
  <2> DEFINE l == LineOf[t]
             d == Delta(j, l)
             b == Len(store[l])
             m == Merged(j, l)
             a == Assignments(j, l)
  <2>1. TaskKept(t) /\ JobOf[t] = j /\ t \in Tasks /\ l \in Lines /\ Outcomes(t) = {}
    BY <1>1, TaskAssumption DEF JobKept, TasksOf, TaskKept, OutcomeKept, Phases, Midway
  <2>2. \A x \in ThreadsOf(j) : \A labels : At(x, t, labels)' <=> At(x, t, labels)
    BY <1>1 DEF At
  <2>3. VersionOnce(t)' /\ VersionMade(t)'
    BY <1>1, <1>2, <1>6, <2>1, <2>2 DEF TaskKept, VersionOnce, VersionMade, Early
  <2>4. SilenceKept(t)'
    BY <1>1, <1>2, <1>6, <2>1, <2>2 DEF TaskKept, SilenceKept, FailedItem, Cancelled
  <2>5. ItemKept(t)'
    BY <1>1, <1>2, <1>6, <2>1, <2>2 DEF TaskKept, ItemKept, Early, Named
  <2>6. Outcomes(t)' = {v \in {m[b + k] : k \in DOMAIN d} : v.task = t}
    BY <1>4, <2>1 DEF Outcomes
  <2>7. /\ \A k \in DOMAIN d : d[k] \in Own(j, l) /\ m[b + k].task = d[k].task /\ m[b + k].status = d[k].status
        /\ \A v \in Own(j, l) : \E k \in DOMAIN d : d[k] = v
        /\ \A i, k \in DOMAIN d : d[i] = d[k] => i = k
        /\ DOMAIN d = 1..Len(d) /\ Len(d) \in Nat
    BY <1>3, <2>1
  <2>8. MadeOf(t) = {v \in Own(j, l) : v.task = t}
    BY <2>1 DEF MadeOf
  <2>9. /\ Len(d) = 0 => a = <<>>
        /\ Len(d) = 1 => IF d[1].id = m[b + 1].id THEN a = <<>> ELSE a = <<[from |-> d[1].id, to |-> m[b + 1].id]>>
    BY <1>1, <2>1, AssignmentFacts
  <2>10. given'[j][l] = a
    BY <1>2, <2>1
  <2> HIDE DEF d, b, m, a
  <2>11. \A v \in Outcomes(t)' : \E k \in DOMAIN d : v = m[b + k] /\ d[k] \in MadeOf(t)
    <3> TAKE v \in Outcomes(t)'
    <3>1. PICK k \in DOMAIN d : v = m[b + k] /\ v.task = t
      BY <2>6
    <3>2. d[k] \in Own(j, l) /\ d[k].task = t
      BY <2>7, <3>1
    <3> QED
      BY <2>8, <3>1, <3>2
  <2>12. \A k \in DOMAIN d : d[k] \in MadeOf(t) => m[b + k] \in Outcomes(t)'
    BY <2>6, <2>7, <2>8
  <2>13. OutcomeKept(t)'
    <3>1. \A v, w \in Outcomes(t)' : v = w
      <4> SUFFICES ASSUME NEW v \in Outcomes(t)', NEW w \in Outcomes(t)' PROVE v = w
        OBVIOUS
      <4>1. PICK i \in DOMAIN d : v = m[b + i] /\ d[i] \in MadeOf(t)
        BY <2>11
      <4>2. PICK k \in DOMAIN d : w = m[b + k] /\ d[k] \in MadeOf(t)
        BY <2>11
      <4>3. d[i] = d[k]
        BY <2>1, <4>1, <4>2 DEF TaskKept, VersionOnce
      <4> QED
        BY <2>7, <4>1, <4>2, <4>3
    <3>2. \A v \in Outcomes(t)' : \E w \in MadeOf(t) : v.status = w.status
      BY <2>7, <2>11
    <3>3. MadeOf(t) # {} => Outcomes(t)' # {}
      BY <2>7, <2>8, <2>12
    <3> QED
      BY <1>2, <1>6, <2>1, <3>1, <3>2, <3>3 DEF OutcomeKept
  <2>14. NumberKept(t)'
    <3> SUFFICES ASSUME j \notin lost \cup asked, Alone(t), Named(t)
                 PROVE  \/ iver[t] = 0 /\ a = <<>>
                        \/ \E v \in Outcomes(t)' : /\ v.status = istat[t]
                                                   /\ \/ a = <<>> /\ iver[t] = v.id
                                                      \/ a = <<[from |-> iver[t], to |-> v.id]>>
      BY <1>1, <2>1, <2>10 DEF NumberKept, Named
    <3>1. Own(j, l) = MadeOf(t)
      <4>1. \A v \in Own(j, l) : v.task \in Tasks /\ JobOf[v.task] = j /\ LineOf[v.task] = l
        BY <1>1, <2>1 DEF CopyKept
      <4>2. \A v \in Own(j, l) : v.task = t
        BY <2>1, <4>1 DEF Alone, TasksOf
      <4> QED
        BY <2>8, <4>2
    <3>2. ItemKept(t) /\ VersionOnce(t)
      BY <2>1 DEF TaskKept
    <3>3. CASE MadeOf(t) = {}
      <4>1. Len(d) = 0
        BY <2>7, <3>1, <3>3
      <4>2. \A x \in ThreadsOf(j) : ~At(x, t, {"final", "commit"})
        BY <1>1 DEF JobKept, ThreadsKept, At
      <4>3. iver[t] = 0
        BY <1>1, <2>1, <3>2, <3>3, <4>2 DEF ItemKept
      <4> QED
        BY <2>9, <4>1, <4>3
    <3>4. CASE MadeOf(t) # {}
      <4>1. PICK v \in MadeOf(t) : TRUE
        BY <3>4
      <4>2. \A w \in MadeOf(t) : w = v
        BY <3>2 DEF VersionOnce
      <4>3. \A i, k \in DOMAIN d : i = k
        BY <2>7, <3>1, <4>2
      <4>4. PICK k \in DOMAIN d : d[k] = v
        BY <2>7, <3>1
      <4>5. Len(d) = 1 /\ k = 1
        <5>1. k \in Nat /\ 1 <= k /\ k <= Len(d)
          BY <2>7, <4>4
        <5>2. 1 \in DOMAIN d /\ Len(d) \in DOMAIN d
          BY <2>7, <5>1
        <5> QED
          BY <4>3, <4>4, <5>2
      <4>6. istat[t] = v.status /\ iver[t] = v.id
        BY <1>1, <2>1, <3>2 DEF ItemKept
      <4>7. m[b + 1] \in Outcomes(t)' /\ m[b + 1].status = v.status
        BY <2>7, <2>12, <4>1, <4>4, <4>5
      <4>8. IF v.id = m[b + 1].id THEN a = <<>> ELSE a = <<[from |-> v.id, to |-> m[b + 1].id]>>
        BY <2>9, <4>4, <4>5
      <4> QED
        BY <4>6, <4>7, <4>8
    <3> QED
      BY <3>3, <3>4
  <2> QED
    BY <2>3, <2>4, <2>5, <2>13, <2>14 DEF TaskKept
<1>11. ASSUME NEW k \in Jobs \ {j} PROVE Untouched(k)
  <2>1. ASSUME NEW t \in TasksOf(k) PROVE Outcomes(t)' = Outcomes(t)
    <3>1. t \in Tasks /\ JobOf[t] = k /\ LineOf[t] \in Lines
      BY TaskAssumption DEF TasksOf
    <3>2. \A i \in DOMAIN Delta(j, LineOf[t]) : Merged(j, LineOf[t])[Len(store[LineOf[t]]) + i].task # t
      <4> TAKE i \in DOMAIN Delta(j, LineOf[t])
      <4>1. /\ Delta(j, LineOf[t])[i] \in Own(j, LineOf[t])
            /\ Merged(j, LineOf[t])[Len(store[LineOf[t]]) + i].task = Delta(j, LineOf[t])[i].task
        BY <1>3, <3>1
      <4>2. JobOf[Delta(j, LineOf[t])[i].task] = j
        BY <1>1, <3>1, <4>1 DEF CopyKept
      <4> QED
        BY <3>1, <4>1, <4>2
    <3>3. ever'[LineOf[t]] = ever[LineOf[t]] \cup {Merged(j, LineOf[t])[Len(store[LineOf[t]]) + i] : i \in DOMAIN Delta(j, LineOf[t])}
      BY <1>4, <3>1
    <3> QED
      BY <3>2, <3>3 DEF Outcomes
  <2> QED
    BY <1>1, <1>2, <2>1 DEF Untouched
<1>12. JobKept(j)'
  BY <1>7, <1>8, <1>9, <1>10 DEF JobKept
<1> QED
  BY <1>5, <1>11, <1>12, OneJobKept

-----------------------------------------------------------------------------
(***************************************************************************)
(* A job starts.                                                           *)
(***************************************************************************)
Refused(j, l) == {t \in TasksOf(j) : LineOf[t] = l /\ istat[t] = "failed" /\ iver[t] = 0}

\* The tasks that could not be routed, each once.
LEMMA PrefailedFacts ==
  ASSUME NEW j \in Jobs, NEW l \in Lines, NEW p, p = Prefailed(j, l)
  PROVE  /\ Len(p) \in Nat /\ DOMAIN p = 1..Len(p)
         /\ \A k \in DOMAIN p : p[k] \in Refused(j, l)
         /\ \A t \in Refused(j, l) : \E k \in DOMAIN p : p[k] = t
         /\ \A i, k \in DOMAIN p : p[i] = p[k] => i = k
<1> DEFINE S == Refused(j, l)
           n == Cardinality(S)
<1>1. IsFiniteSet(S) /\ n \in Nat
  <2>1. S \subseteq Tasks
    BY DEF Refused, TasksOf
  <2> QED
    BY <2>1, FS_Subset, FS_CardinalityType, TaskAssumption
<1>2. p = CHOOSE f \in [1..n -> S] : IsInjective(f)
  BY DEF Prefailed, SetToSeq, Refused
<1> HIDE DEF S, n
<1>3. \E f \in [1..n -> S] : IsInjective(f)
  <2>1. ExistsBijection(1..n, S)
    BY <1>1, FS_CardinalityType DEF n
  <2>2. PICK f : f \in Bijection(1..n, S)
    BY <2>1 DEF ExistsBijection
  <2>3. f \in [1..n -> S] /\ IsInjective(f)
    BY <2>2 DEF Bijection, Injection
  <2> QED
    BY <2>3
<1>4. p \in [1..n -> S] /\ IsInjective(p)
  BY <1>2, <1>3
<1>5. Len(p) = n /\ DOMAIN p = 1..n
  BY <1>1, <1>4
<1>6. p \in Surjection(1..n, S)
  <2>1. p \in Injection(1..n, S)
    BY <1>4 DEF Injection
  <2>2. IsFiniteSet(1..n) /\ Cardinality(1..n) = Cardinality(S)
    BY <1>1, UpTo DEF n
  <2> QED
    BY <1>1, <2>1, <2>2, FS_Injection
<1>7. \A i, k \in DOMAIN p : p[i] = p[k] => i = k
  BY <1>4 DEF IsInjective
<1>8. \A t \in S : \E k \in DOMAIN p : p[k] = t
  BY <1>5, <1>6 DEF Surjection
<1> QED
  BY <1>1, <1>4, <1>5, <1>7, <1>8 DEF S

\* After s, m has one failed version for each of the tasks ts.
StandFor(m, s, ts) ==
  /\ Len(s) <= Len(m) /\ \A i \in 1..Len(s) : m[i] = s[i]
  /\ \A v \in Beyond(m, Len(s)) : v.task \in ts /\ v.status = "failed"
  /\ \A t \in ts : \E v \in Beyond(m, Len(s)) : v.task = t
  /\ \A v, w \in Beyond(m, Len(s)) : v.task = w.task => v = w

\* The versions that stand for them.
LEMMA RefusedFacts ==
  ASSUME NEW j \in Jobs, NEW l \in Lines, NEW p, p = Prefailed(j, l), NEW s \in Histories, Growing(s),
         NEW m, m = AppendedAll(s, [k \in DOMAIN p |-> Version(Len(s) + k, p[k], "failed")])
  PROVE  /\ m \in Histories /\ Growing(m) /\ StandFor(m, s, Refused(j, l))
         /\ MaxId(s) = Len(s) => \A k \in DOMAIN p : Version(Len(s) + k, p[k], "failed") \in Beyond(m, Len(s))
<1> DEFINE b == Len(s)
           d == [k \in DOMAIN p |-> Version(b + k, p[k], "failed")]
<1>1. /\ Len(p) \in Nat /\ DOMAIN p = 1..Len(p)
      /\ \A k \in DOMAIN p : p[k] \in Refused(j, l)
      /\ \A t \in Refused(j, l) : \E k \in DOMAIN p : p[k] = t
      /\ \A i, k \in DOMAIN p : p[i] = p[k] => i = k
  BY PrefailedFacts
<1>2. s \in Histories /\ Growing(s) /\ b \in Nat /\ DOMAIN s = 1..b
  BY HistoryTypes
<1>3. m = AppendedAll(s, d)
  OBVIOUS
<1> HIDE DEF b
<1>4. \A k \in DOMAIN p : d[k] \in Versions /\ d[k].id = b + k /\ d[k].task = p[k] /\ d[k].status = "failed"
  <2> TAKE k \in DOMAIN p
  <2>1. b + k \in Nat \ {0} /\ p[k] \in Tasks
    BY <1>1, <1>2 DEF Refused, TasksOf
  <2>2. d[k] = Version(b + k, p[k], "failed")
    OBVIOUS
  <2> HIDE DEF d
  <2> QED
    BY <2>1, <2>2 DEF Version, Versions, Terminal
<1>5. DOMAIN d = 1..Len(p) /\ d \in [1..Len(p) -> Versions]
  BY <1>1, <1>4
<1> HIDE DEF d
<1>6. d \in Histories /\ Len(d) = Len(p)
  BY <1>1, <1>5 DEF Histories
<1>7. Growing(d)
  <2> SUFFICES ASSUME NEW i \in DOMAIN d, NEW k \in DOMAIN d, i < k PROVE d[i].id < d[k].id
    BY DEF Growing
  <2>1. d[i].id = b + i /\ d[k].id = b + k /\ i \in Nat /\ k \in Nat
    BY <1>1, <1>4, <1>5
  <2> QED
    BY <1>2, <2>1
<1>8. m \in Histories /\ Growing(m) /\ Len(m) = b + Len(d) /\ (\A i \in DOMAIN s : m[i] = s[i]) /\ Carries(m, b, d)
  <2>1. m \in Histories /\ Growing(m) /\ Len(m) = Len(s) + Len(d)
    BY <1>2, <1>3, <1>6, <1>7, AppendedAllFacts, Zenon
  <2>2. Extends(m, s)
    BY <1>2, <1>3, <1>6, <1>7, AppendedAllFacts, Zenon
  <2>3. Carries(m, Len(s), d)
    BY <1>2, <1>3, <1>6, <1>7, AppendedAllFacts, Zenon
  <2> QED
    BY <2>1, <2>2, <2>3 DEF b, Extends
<1>f. Fills(m, s, d)
  BY <1>2, <1>3, <1>6, <1>7, AppendedAllFacts, Zenon
<1>9. \A k \in DOMAIN p : m[b + k].task = p[k] /\ m[b + k].status = "failed" /\ m[b + k] \in Beyond(m, b)
  <2> TAKE k \in DOMAIN p
  <2>1. m[b + k].task = d[k].task /\ m[b + k].status = d[k].status
    BY <1>1, <1>5, <1>8 DEF Carries
  <2>2. b + k \in (b + 1)..Len(m)
    BY <1>1, <1>2, <1>6, <1>8
  <2> QED
    BY <1>4, <2>1, <2>2 DEF Beyond
<1>10. ASSUME NEW v \in Beyond(m, b) PROVE \E k \in DOMAIN p : v = m[b + k]
  <2>1. PICK i \in (b + 1)..Len(m) : v = m[i]
    BY DEF Beyond
  <2>2. i - b \in DOMAIN p /\ b + (i - b) = i
    BY <1>1, <1>2, <1>6, <1>8, <2>1
  <2> QED
    BY <2>1, <2>2
<1>11. \A v \in Beyond(m, b) : v.task \in Refused(j, l) /\ v.status = "failed"
  BY <1>1, <1>9, <1>10
<1>12. \A t \in Refused(j, l) : \E v \in Beyond(m, b) : v.task = t
  <2> TAKE t \in Refused(j, l)
  <2>1. PICK k \in DOMAIN p : p[k] = t
    BY <1>1
  <2>2. m[b + k] \in Beyond(m, b) /\ m[b + k].task = t
    BY <1>9, <2>1
  <2> QED
    BY <2>2
<1>13. \A v, w \in Beyond(m, b) : v.task = w.task => v = w
  BY <1>1, <1>9, <1>10
<1>14. b <= Len(m) /\ \A i \in 1..b : m[i] = s[i]
  BY <1>1, <1>2, <1>6, <1>8
<1>15. ASSUME MaxId(s) = b, NEW k \in DOMAIN p PROVE Version(b + k, p[k], "failed") \in Beyond(m, b)
  <2>1. m[b + k].id = b + k
    BY <1>4, <1>5, <1>1, <1>f, <1>15 DEF Fills, b
  <2>2. m[b + k] \in Versions
    <3>1. b + k \in DOMAIN m
      BY <1>1, <1>2, <1>6, <1>8, HistoryTypes
    <3> QED
      BY <1>8, <3>1, HistoryTypes
  <2>3. m[b + k] = Version(b + k, p[k], "failed")
    BY <1>9, <2>1, <2>2 DEF Version, Versions
  <2> QED
    BY <1>9, <2>3
<1> QED
  <2>1. StandFor(m, s, Refused(j, l))
    BY <1>11, <1>12, <1>13, <1>14 DEF StandFor, b
  <2> QED
    BY <1>8, <1>15, <2>1 DEF b

Runs(t) == istat[t] \notin {"cancelled", "failed"}

\* Every place of the clusters r is one of the clusters rest, with the same task.
Within(r, rest) ==
  \E f \in [DOMAIN r -> DOMAIN rest] :
    /\ \A i, k \in DOMAIN r : f[i] = f[k] => i = k
    /\ \A i \in DOMAIN r : \E g \in [DOMAIN r[i] -> DOMAIN rest[f[i]]] :
         /\ \A k \in DOMAIN r[i] : r[i][k] = rest[f[i]][g[k]] /\ Runs(r[i][k])
         /\ \A k, q \in DOMAIN r[i] : g[k] = g[q] => k = q

\* What is to be run of the clusters rest is in r.
Covers(r, rest) ==
  \A i \in DOMAIN rest : \A k \in DOMAIN rest[i] :
    Runs(rest[i][k]) => \E m \in DOMAIN r : \E q \in DOMAIN r[m] : r[m][q] = rest[i][k]

\* The clusters of a thread without the tasks that are not to be run.
LEMMA RunnableFacts ==
  ASSUME NEW x \in Threads, th[x] \in ThreadStates, NEW r, r = Runnable(x)
  PROVE  /\ r \in Seq(Seq(Tasks)) /\ \A i \in DOMAIN r : r[i] # <<>>
         /\ Within(r, th[x].rest) /\ Covers(r, th[x].rest)
<1> DEFINE rest == th[x].rest
           P(c) == {i \in DOMAIN c : istat[c[i]] \notin {"cancelled", "failed"}}
           left(c) == Kept(c, P(c))
           all == [i \in DOMAIN rest |-> left(rest[i])]
           Q == {i \in DOMAIN all : all[i] # <<>>}
<1>1. rest \in Seq(Seq(Tasks)) /\ Len(rest) \in Nat /\ DOMAIN rest = 1..Len(rest)
  BY DEF ThreadStates
<1>2. r = Kept(all, Q)
  BY DEF Runnable
<1> HIDE DEF rest
<1>3. ASSUME NEW i \in DOMAIN rest
      PROVE  /\ all[i] \in Seq(Tasks) /\ DOMAIN all[i] = 1..Cardinality(P(rest[i]))
             /\ \E pos : Selects(pos, rest[i], P(rest[i]))
  <2> DEFINE c == rest[i]
             R == P(c)
  <2>1. c \in Seq(Tasks) /\ R \in SUBSET DOMAIN c
    BY <1>1, <1>3
  <2>2. all[i] = Kept(c, R)
    BY <1>3
  <2> HIDE DEF c, R, all
  <2>3. /\ Kept(c, R) \in Seq(Tasks) /\ Len(Kept(c, R)) = Cardinality(R) /\ \E pos : Selects(pos, c, R)
    BY <2>1, KeptFacts
  <2>4. DOMAIN all[i] = 1..Cardinality(R)
    BY <2>2, <2>3
  <2> QED
    BY <2>2, <2>3, <2>4 DEF c, R
<1>4. DOMAIN all = 1..Len(rest) /\ all \in [1..Len(rest) -> Seq(Tasks)]
  BY <1>1, <1>3
<1>5. all \in Seq(Seq(Tasks)) /\ Q \in SUBSET DOMAIN all
  <2>1. Q \in SUBSET DOMAIN all
    OBVIOUS
  <2> DEFINE S == Seq(Tasks)
             n == Len(rest)
  <2>2. n \in Nat /\ all \in [1..n -> S]
    BY <1>1, <1>4
  <2> HIDE DEF all, Q, S, n
  <2>3. all \in Seq(S)
    BY <2>2
  <2> QED
    BY <2>1, <2>3 DEF S
<1>6. \A i \in DOMAIN all : i \in Q <=> all[i] # <<>>
  OBVIOUS
<1>a. \A i \in DOMAIN rest : all[i] = Kept(rest[i], P(rest[i]))
  OBVIOUS
<1>b. \A i \in DOMAIN rest : \A p \in DOMAIN rest[i] : p \in P(rest[i]) <=> istat[rest[i][p]] \notin {"cancelled", "failed"}
  OBVIOUS
<1>c. \A i \in DOMAIN rest : P(rest[i]) \subseteq DOMAIN rest[i]
  OBVIOUS
<1> HIDE DEF all, Q, P, left
<1>7. /\ Cardinality(Q) \in Nat /\ r \in Seq(Seq(Tasks)) /\ Len(r) = Cardinality(Q)
      /\ \E pos : Selects(pos, all, Q)
  <2> DEFINE S == Seq(Tasks)
  <2>1. all \in Seq(S)
    BY <1>5
  <2> HIDE DEF S
  <2>2. /\ Cardinality(Q) \in Nat /\ Kept(all, Q) \in Seq(S) /\ Len(Kept(all, Q)) = Cardinality(Q)
        /\ \E pos : Selects(pos, all, Q)
    BY <1>5, <2>1, KeptFacts
  <2> QED
    BY <1>2, <2>2 DEF S
<1>8. DOMAIN r = 1..Cardinality(Q)
  BY <1>7
<1>9. PICK f : Selects(f, all, Q)
  BY <1>7
<1>10. /\ f \in [DOMAIN r -> Q]
       /\ \A i \in DOMAIN r : r[i] = all[f[i]]
       /\ \A i, k \in DOMAIN r : i < k => f[i] < f[k]
       /\ \A p \in Q : \E i \in DOMAIN r : f[i] = p
  BY <1>2, <1>8, <1>9 DEF Selects
<1>11. /\ f \in [DOMAIN r -> DOMAIN rest]
       /\ \A i \in DOMAIN r : f[i] \in Nat /\ f[i] \in DOMAIN rest /\ r[i] # <<>>
  BY <1>1, <1>4, <1>5, <1>6, <1>10
<1>12. \A i, k \in DOMAIN r : f[i] = f[k] => i = k
  <2> SUFFICES ASSUME NEW i \in DOMAIN r, NEW k \in DOMAIN r, i # k PROVE f[i] # f[k]
    OBVIOUS
  <2>1. i < k \/ k < i
    BY <1>7, <1>8
  <2>2. f[i] < f[k] \/ f[k] < f[i]
    BY <1>10, <2>1
  <2> QED
    BY <1>11, <2>2
<1>13. ASSUME NEW i \in DOMAIN r
       PROVE  \E g \in [DOMAIN r[i] -> DOMAIN rest[f[i]]] :
                /\ \A k \in DOMAIN r[i] : r[i][k] = rest[f[i]][g[k]] /\ istat[r[i][k]] \notin {"cancelled", "failed"}
                /\ \A k, q \in DOMAIN r[i] : g[k] = g[q] => k = q
  <2> DEFINE c == rest[f[i]]
             n == Cardinality(P(c))
  <2>1. f[i] \in DOMAIN rest /\ r[i] = all[f[i]]
    BY <1>10, <1>11
  <2>2. DOMAIN r[i] = 1..n /\ r[i] = Kept(c, P(c)) /\ \E g : Selects(g, c, P(c))
    BY <1>3, <1>a, <2>1
  <2>3. PICK g : Selects(g, c, P(c))
    BY <2>2
  <2>4. P(c) \subseteq DOMAIN c /\ \A p \in P(c) : istat[c[p]] \notin {"cancelled", "failed"}
    BY <1>b, <1>c, <2>1
  <2>5. \A p \in DOMAIN c : p \in Nat
    BY <1>1, <2>1
  <2> HIDE DEF c
  <2>6. /\ g \in [DOMAIN r[i] -> P(c)]
        /\ \A k \in DOMAIN r[i] : r[i][k] = c[g[k]]
        /\ \A k, q \in DOMAIN r[i] : k < q => g[k] < g[q]
    BY <2>2, <2>3 DEF Selects
  <2>7. \A k \in DOMAIN r[i] : k \in Nat /\ g[k] \in P(c) /\ g[k] \in Nat /\ g[k] \in DOMAIN c
    BY <2>2, <2>4, <2>5, <2>6
  <2>8. \A k, q \in DOMAIN r[i] : g[k] = g[q] => k = q
    <3> SUFFICES ASSUME NEW k \in DOMAIN r[i], NEW q \in DOMAIN r[i], k # q PROVE g[k] # g[q]
      OBVIOUS
    <3>1. k < q \/ q < k
      BY <2>7
    <3>2. g[k] < g[q] \/ g[q] < g[k]
      BY <2>6, <3>1
    <3> QED
      BY <2>7, <3>2
  <2>9. g \in [DOMAIN r[i] -> DOMAIN c] /\ \A k \in DOMAIN r[i] : r[i][k] = c[g[k]] /\ istat[r[i][k]] \notin {"cancelled", "failed"}
    BY <2>4, <2>6, <2>7
  <2> QED
    BY <2>8, <2>9 DEF c
<1>14. ASSUME NEW i \in DOMAIN rest, NEW k \in DOMAIN rest[i], istat[rest[i][k]] \notin {"cancelled", "failed"}
       PROVE  \E m \in DOMAIN r : \E q \in DOMAIN r[m] : r[m][q] = rest[i][k]
  <2> DEFINE c == rest[i]
             n == Cardinality(P(c))
  <2>1. k \in P(c) /\ all[i] = Kept(c, P(c)) /\ DOMAIN all[i] = 1..n /\ i \in DOMAIN all
    BY <1>1, <1>3, <1>4, <1>a, <1>b, <1>14
  <2>2. PICK g : Selects(g, c, P(c))
    BY <1>3
  <2>3. PICK q \in 1..n : g[q] = k
    BY <2>1, <2>2 DEF Selects
  <2>4. all[i][q] = c[k]
    BY <2>1, <2>2, <2>3 DEF Selects
  <2>5. all[i] # <<>>
    <3> SUFFICES ASSUME all[i] = <<>> PROVE FALSE
      OBVIOUS
    <3>1. DOMAIN all[i] = {}
      OBVIOUS
    <3> HIDE DEF n
    <3> QED
      BY <2>1, <2>3, <3>1
  <2>6. PICK m \in DOMAIN r : f[m] = i
    BY <1>6, <1>10, <2>1, <2>5
  <2>7. r[m] = all[i]
    BY <1>10, <2>6
  <2>8. q \in DOMAIN r[m] /\ r[m][q] = rest[i][k]
    BY <2>1, <2>3, <2>4, <2>7
  <2> QED
    BY <2>8
<1> QED
  <2>1. Within(r, rest)
    BY <1>11, <1>12, <1>13 DEF Within, Runs
  <2>2. Covers(r, rest)
    BY <1>14 DEF Covers, Runs
  <2> QED
    BY <1>7, <1>11, <2>1, <2>2 DEF rest

\* A thread starts on what is left of its clusters.
LEMMA StartedFits ==
  ASSUME NEW j \in Jobs, NEW x \in Threads, Fits(th[x], j), th[x].pc = "done",
         NEW n, n = [Idle EXCEPT !.pc = IF Runnable(x) = <<>> THEN "done" ELSE "gate", !.rest = Runnable(x)]
  PROVE  /\ Fits(n, j) /\ n.pc \in {"done", "gate"} /\ (n.pc = "done" => n.rest = <<>>)
         /\ \A t \in Tasks : Has(n, t) => Has(th[x], t) /\ Runs(t)
         /\ \A t \in Tasks : InRest(th[x], t) /\ Runs(t) => InRest(n, t)
<1> DEFINE r == Runnable(x)
           rest == th[x].rest
           p == IF r = <<>> THEN "done" ELSE "gate"
<1>1. th[x] \in ThreadStates /\ Once(th[x]) /\ \A t \in Tasks : Has(th[x], t) => JobOf[t] = j /\ t \notin Unroutable
  BY DEF Fits
<1>2. r \in Seq(Seq(Tasks)) /\ (\A i \in DOMAIN r : r[i] # <<>>) /\ Within(r, rest) /\ Covers(r, rest)
  <2> HIDE DEF r
  <2>1. r = Runnable(x)
    BY DEF r
  <2> QED
    BY <1>1, <2>1, RunnableFacts
<1>3. PICK f \in [DOMAIN r -> DOMAIN rest] :
           /\ \A i, k \in DOMAIN r : f[i] = f[k] => i = k
           /\ \A i \in DOMAIN r : \E g \in [DOMAIN r[i] -> DOMAIN rest[f[i]]] :
                /\ \A k \in DOMAIN r[i] : r[i][k] = rest[f[i]][g[k]] /\ Runs(r[i][k])
                /\ \A k, q \in DOMAIN r[i] : g[k] = g[q] => k = q
  BY <1>2 DEF Within
<1>4. n = [pc |-> p, rest |-> r, cur |-> <<>>, want |-> 0]
  BY DEF Idle
<1> HIDE DEF r
<1>5. n.pc = p /\ n.rest = r /\ n.cur = <<>> /\ n \in ThreadStates
  <2> DEFINE w == [pc |-> p, rest |-> r, cur |-> <<>>, want |-> 0]
  <2>1. p \in Labels
    BY DEF Labels
  <2> HIDE DEF p
  <2>2. w \in ThreadStates /\ w.pc = p /\ w.rest = r /\ w.cur = <<>>
    BY <1>2, <2>1 DEF ThreadStates
  <2>3. n = w
    BY <1>4, Zenon
  <2> HIDE DEF w
  <2> QED
    BY <2>2, <2>3, Zenon
<1>6. \A t : Has(n, t) <=> \E i \in DOMAIN r : \E k \in DOMAIN r[i] : r[i][k] = t
  BY <1>5 DEF Has, InCur, InRest
<1>7. ASSUME NEW i \in DOMAIN r, NEW k \in DOMAIN r[i]
      PROVE  \E q \in DOMAIN rest[f[i]] : r[i][k] = rest[f[i]][q] /\ Runs(r[i][k])
  <2>1. PICK g \in [DOMAIN r[i] -> DOMAIN rest[f[i]]] :
             \A q \in DOMAIN r[i] : r[i][q] = rest[f[i]][g[q]] /\ Runs(r[i][q])
    BY <1>3
  <2>2. g[k] \in DOMAIN rest[f[i]]
    OBVIOUS
  <2> QED
    BY <2>1, <2>2
<1>8. \A t \in Tasks : Has(n, t) => Has(th[x], t) /\ Runs(t)
  <2> SUFFICES ASSUME NEW t \in Tasks, Has(n, t) PROVE Has(th[x], t) /\ Runs(t)
    OBVIOUS
  <2>1. PICK i \in DOMAIN r : \E k \in DOMAIN r[i] : r[i][k] = t
    BY <1>6
  <2>2. PICK k \in DOMAIN r[i] : r[i][k] = t
    BY <2>1
  <2>3. f[i] \in DOMAIN rest
    OBVIOUS
  <2>4. PICK q \in DOMAIN rest[f[i]] : t = rest[f[i]][q] /\ Runs(t)
    BY <1>7, <2>2
  <2> QED
    BY <2>3, <2>4 DEF Has, InRest
<1>9. \A t \in Tasks : InRest(th[x], t) /\ Runs(t) => InRest(n, t)
  <2> SUFFICES ASSUME NEW t \in Tasks, InRest(th[x], t), Runs(t) PROVE InRest(n, t)
    OBVIOUS
  <2>1. PICK i \in DOMAIN rest : \E k \in DOMAIN rest[i] : rest[i][k] = t
    BY DEF InRest
  <2>2. PICK k \in DOMAIN rest[i] : rest[i][k] = t
    BY <2>1
  <2>3. \E m \in DOMAIN r : \E q \in DOMAIN r[m] : r[m][q] = t
    BY <1>2, <2>2 DEF Covers
  <2> QED
    BY <1>5, <2>3 DEF InRest
<1>10. Once(n)
  <2>1. ASSUME NEW i \in DOMAIN r, NEW m \in DOMAIN r, NEW k \in DOMAIN r[i], NEW q \in DOMAIN r[m], r[i][k] = r[m][q]
        PROVE  i = m /\ k = q
    <3>1. PICK g \in [DOMAIN r[i] -> DOMAIN rest[f[i]]] :
               /\ \A u \in DOMAIN r[i] : r[i][u] = rest[f[i]][g[u]]
               /\ \A u, v \in DOMAIN r[i] : g[u] = g[v] => u = v
      BY <1>3
    <3>2. PICK h \in [DOMAIN r[m] -> DOMAIN rest[f[m]]] :
               /\ \A u \in DOMAIN r[m] : r[m][u] = rest[f[m]][h[u]]
               /\ \A u, v \in DOMAIN r[m] : h[u] = h[v] => u = v
      BY <1>3
    <3>3. /\ f[i] \in DOMAIN rest /\ f[m] \in DOMAIN rest
          /\ g[k] \in DOMAIN rest[f[i]] /\ h[q] \in DOMAIN rest[f[m]]
          /\ rest[f[i]][g[k]] = rest[f[m]][h[q]]
      BY <2>1, <3>1, <3>2
    <3>4. f[i] = f[m] /\ g[k] = h[q]
      BY <1>1, <3>3 DEF Once
    <3>5. i = m
      BY <1>3, <3>4
    <3>6. r[i][q] = rest[f[i]][h[q]] /\ q \in DOMAIN r[i] /\ rest[f[i]][g[q]] = rest[f[i]][h[q]] /\ g[q] \in DOMAIN rest[f[i]]
      BY <3>1, <3>2, <3>5
    <3>7. g[q] = h[q]
      <4>1. \A a \in DOMAIN rest : \A u, v \in DOMAIN rest[a] : rest[a][u] = rest[a][v] => u = v
        BY <1>1 DEF Once
      <4> QED
        BY <3>3, <3>5, <3>6, <4>1
    <3> QED
      BY <3>1, <3>4, <3>5, <3>6, <3>7
  <2>2. \A t \in Tasks : ~InCur(n, t)
    BY <1>5 DEF InCur
  <2> QED
    BY <1>5, <2>1, <2>2 DEF Once
<1>11. n.pc \in {"done", "gate"} /\ (n.pc = "done" => n.rest = <<>>)
  BY <1>5
<1>12. Fits(n, j)
  BY <1>1, <1>2, <1>5, <1>8, <1>10, <1>11 DEF Fits, Serving
<1> QED
  BY <1>8, <1>9, <1>11, <1>12

\* An executor thread takes the job, or finds it gone or cancelled.
LEMMA BeginKept ==
  ASSUME IInv, NEW j \in Jobs, Begin(j)
  PROVE  IInv'
<1>1. /\ Types /\ JobKept(j) /\ run[j] = "pending"
      /\ UNCHANGED <<known, broken, lost, istat, iver, store, base, priv, given, th, asked, ever>>
      /\ \/ (j \notin known \/ Cancelled(j)) /\ run' = [run EXCEPT ![j] = "done"] /\ jstat' = jstat
         \/ /\ ~(j \notin known \/ Cancelled(j))
            /\ run' = [run EXCEPT ![j] = "loading"] /\ jstat' = [jstat EXCEPT ![j] = "running"]
  BY DEF Begin, IInv, itemVars, manifests
<1>2. /\ \A k \in Jobs \ {j} : run'[k] = run[k] /\ jstat'[k] = jstat[k]
      /\ \/ run'[j] = "done" /\ j \in asked /\ jstat'[j] = jstat[j] /\ jstat[j] \notin {"queued", "running"}
         \/ run'[j] = "loading" /\ jstat'[j] = "running" /\ j \in known /\ ~Cancelled(j)
  BY <1>1 DEF Types, JobKept, StatusKept, Cancelled
<1>3. Types' /\ StoreGrows'
  <2>1. run' \in [Jobs -> Phases]
    BY <1>1 DEF Types, Phases, Midway
  <2>2. jstat' \in [Jobs -> {"new", "queued", "running", "cancelling"} \cup Terminal]
    BY <1>1 DEF Types
  <2>3. Types'
    BY <1>1, <2>1, <2>2 DEF Types
  <2> QED
    BY <1>1, <2>3 DEF IInv, StoreGrows
<1>4. \A t : MadeOf(t)' = MadeOf(t) /\ Outcomes(t)' = Outcomes(t)
  BY <1>1, CopyStays, OutcomesStay DEF JobKept
<1>5. CopyKept(j)'
  BY <1>1, CopyStays DEF JobKept
<1>6. StatusKept(j)'
  BY <1>1, <1>2 DEF JobKept, StatusKept, Early, Midway
<1>7. ThreadsKept(j)'
  BY <1>1, <1>2 DEF JobKept, ThreadsKept, Early
<1>8. ASSUME NEW t \in TasksOf(j) PROVE TaskKept(t)'
  <2>1. TaskKept(t) /\ JobOf[t] = j /\ MadeOf(t) = {} /\ Outcomes(t) = {} /\ iver[t] = 0
    BY <1>1 DEF JobKept, TasksOf, TaskKept, VersionOnce, OutcomeKept, Early, Phases
  <2>2. \A x \in ThreadsOf(j) : ~At(x, t, {"settle"})'
    BY <1>1 DEF JobKept, ThreadsKept, At, Early
  <2>3. VersionOnce(t)' /\ VersionMade(t)'
    BY <1>1, <1>2, <1>4, <2>1, <2>2 DEF VersionOnce, VersionMade
  <2>4. SilenceKept(t)'
    <3>1. ~Cancelled(j) /\ istat[t] \in {"cancelling", "cancelled"} => FailedItem(j)
      BY <1>1, <2>1 DEF TaskKept, SilenceKept
    <3>2. FailedItem(j)' <=> FailedItem(j)
      BY <1>1 DEF FailedItem
    <3> QED
      BY <1>1, <1>2, <1>4, <2>1, <3>1, <3>2 DEF SilenceKept
  <2>5. ItemKept(t)'
    BY <1>1, <1>2, <1>4, <2>1 DEF TaskKept, ItemKept, Early
  <2>6. OutcomeKept(t)' /\ NumberKept(t)'
    BY <1>1, <1>2, <1>4, <2>1 DEF OutcomeKept, NumberKept
  <2> QED
    BY <2>3, <2>4, <2>5, <2>6 DEF TaskKept
<1>9. \A k \in Jobs \ {j} : Untouched(k)
  BY <1>1, <1>2, <1>4 DEF Untouched
<1>10. JobKept(j)'
  BY <1>5, <1>6, <1>7, <1>8 DEF JobKept
<1> QED
  BY <1>3, <1>9, <1>10, OneJobKept

\* It has the manifest, or none.
LEMMA LoadManifestKept ==
  ASSUME IInv, NEW j \in Jobs, LoadManifest(j)
  PROVE  IInv'
<1>1. /\ Types /\ StoreGrows /\ JobKept(j) /\ run[j] = "loading"
      /\ UNCHANGED <<known, jstat, lost, istat, iver, store, given, th, asked, ever>>
      /\ \/ /\ run' = [run EXCEPT ![j] = "loaded"] /\ broken' = broken
            /\ base' = [base EXCEPT ![j] = store] /\ priv' = [priv EXCEPT ![j] = store]
         \/ /\ run' = [run EXCEPT ![j] = "finish"] /\ broken' = broken \cup {j}
            /\ base' = base /\ priv' = priv
  BY DEF LoadManifest, IInv, itemVars
<1>2. /\ \A k \in Jobs \ {j} : /\ run'[k] = run[k] /\ base'[k] = base[k] /\ priv'[k] = priv[k]
                               /\ (k \in broken' <=> k \in broken)
      /\ \/ run'[j] = "loaded" /\ base'[j] = store /\ priv'[j] = store /\ broken' = broken
         \/ run'[j] = "finish" /\ j \in broken' /\ base' = base /\ priv' = priv
  BY <1>1 DEF Types
<1>3. Types' /\ StoreGrows'
  <2>1. run' \in [Jobs -> Phases] /\ broken' \subseteq Jobs
    BY <1>1 DEF Types, Phases, Midway
  <2>2. base' \in [Jobs -> [Lines -> Histories]] /\ priv' \in [Jobs -> [Lines -> Histories]]
    BY <1>1 DEF Types
  <2>3. Types'
    BY <1>1, <2>1, <2>2 DEF Types
  <2> QED
    BY <1>1, <2>3 DEF StoreGrows
<1>4. \A t \in TasksOf(j) : /\ TaskKept(t) /\ JobOf[t] = j /\ LineOf[t] \in Lines
                            /\ MadeOf(t) = {} /\ Outcomes(t) = {} /\ iver[t] = 0
  BY <1>1, TaskAssumption DEF JobKept, TasksOf, TaskKept, VersionOnce, OutcomeKept, Early, Phases, Midway
<1>5. CopyKept(j)' /\ \A t \in TasksOf(j) : MadeOf(t)' = {}
  <2>1. CASE run'[j] = "loaded"
    <3>1. base'[j] = store /\ priv'[j] = store
      BY <1>2, <2>1
    <3>2. \A l \in Lines : Own(j, l)' = {}
      <4> TAKE l \in Lines
      <4> DEFINE n == Len(store[l])
      <4>1. n \in Nat
        BY <1>1, HistoryTypes DEF Types
      <4> HIDE DEF n
      <4>2. (n + 1)..n = {}
        BY <4>1
      <4>3. Own(j, l)' = {store[l][i] : i \in (n + 1)..n}
        BY <3>1 DEF Own, Beyond, n
      <4> QED
        BY <4>2, <4>3
    <3>3. CopyKept(j)'
      <4>1. \A l \in Lines : Growing(store[l]) /\ Len(store[l]) \in Nat
        BY <1>1, HistoryTypes DEF Types, StoreGrows
      <4> QED
        BY <3>1, <3>2, <4>1 DEF CopyKept
    <3> QED
      BY <1>4, <3>2, <3>3 DEF MadeOf
  <2>2. CASE run'[j] = "finish"
    BY <1>1, <1>2, <1>4, <2>2, CopyStays DEF JobKept
  <2> QED
    BY <1>2, <2>1, <2>2
<1>6. StatusKept(j)'
  BY <1>1, <1>2 DEF JobKept, StatusKept, Early, Midway
<1>7. ThreadsKept(j)'
  BY <1>1, <1>2 DEF JobKept, ThreadsKept, Early
<1>8. ASSUME NEW t \in TasksOf(j) PROVE TaskKept(t)'
  <2>1. /\ TaskKept(t) /\ JobOf[t] = j /\ MadeOf(t) = {} /\ Outcomes(t) = {} /\ iver[t] = 0
        /\ MadeOf(t)' = {} /\ Outcomes(t)' = {} /\ LineOf[t] \in Lines
    BY <1>1, <1>4, <1>5, OutcomesStay
  <2>2. \A x \in ThreadsOf(j) : ~At(x, t, {"settle"})'
    BY <1>1 DEF JobKept, ThreadsKept, At, Early
  <2>3. VersionOnce(t)' /\ VersionMade(t)'
    BY <1>1, <1>2, <2>1, <2>2 DEF VersionOnce, VersionMade
  <2>4. SilenceKept(t)'
    BY <1>1, <1>2, <2>1 DEF TaskKept, SilenceKept, FailedItem, Cancelled
  <2>5. ItemKept(t)'
    BY <1>1, <1>2, <2>1 DEF TaskKept, ItemKept, Early
  <2>6. OutcomeKept(t)' /\ NumberKept(t)'
    <3>1. j \notin asked => given[j][LineOf[t]] = <<>>
      BY <1>1, <2>1 DEF JobKept, StatusKept
    <3> QED
      BY <1>1, <1>2, <2>1, <3>1 DEF OutcomeKept, NumberKept
  <2> QED
    BY <2>3, <2>4, <2>5, <2>6 DEF TaskKept
<1>9. \A k \in Jobs \ {j} : Untouched(k)
  BY <1>1, <1>2, OutcomesStay DEF Untouched
<1>10. JobKept(j)'
  BY <1>5, <1>6, <1>7, <1>8 DEF JobKept
<1> QED
  BY <1>3, <1>9, <1>10, OneJobKept

\* What _record_prefailed_items leaves of a task, in the manifest the job loaded.
Stood(t) ==
  /\ \A v, w \in MadeOf(t)' : v = w
  /\ \A v \in MadeOf(t)' : v.status = "failed"
  /\ MadeOf(t)' # {} <=> istat[t] = "failed"
  /\ MadeOf(t)' = {} => iver'[t] = 0
  /\ LET h == base[JobOf[t]][LineOf[t]] IN MaxId(h) = Len(h) => \A v \in MadeOf(t)' : iver'[t] = v.id

LEMMA PrefailedKept ==
  ASSUME Types, NEW j \in Jobs, JobKept(j), run[j] = "loaded", RecordPrefailed(j), base' = base
  PROVE  /\ priv' \in [Jobs -> [Lines -> Histories]] /\ iver' \in [Tasks -> Nat]
         /\ \A k \in Jobs \ {j} : priv'[k] = priv[k]
         /\ \A t \in Tasks : JobOf[t] # j => iver'[t] = iver[t]
         /\ CopyKept(j)'
         /\ \A t \in TasksOf(j) : Stood(t)
<1> DEFINE copy(l) == AppendedAll(base[j][l], [k \in DOMAIN Prefailed(j, l) |->
                                                 Version(Len(base[j][l]) + k, Prefailed(j, l)[k], "failed")])
           number(t) == LET l == LineOf[t]
                        IN IF t \in ToSet(Prefailed(j, l))
                           THEN Len(base[j][l]) + (CHOOSE i \in DOMAIN Prefailed(j, l) : Prefailed(j, l)[i] = t)
                           ELSE iver[t]
<1>1. priv' = [priv EXCEPT ![j] = [l \in Lines |-> copy(l)]] /\ iver' = [t \in Tasks |-> number(t)]
  BY DEF RecordPrefailed
<1>2. \A l \in Lines : base[j][l] \in Histories /\ Growing(base[j][l]) /\ Len(base[j][l]) \in Nat
  <2> TAKE l \in Lines
  <2>1. base[j][l] \in Histories /\ Growing(base[j][l])
    BY DEF Types, JobKept, CopyKept
  <2> QED
    BY <2>1, HistoryTypes
<1>3. /\ \A k \in Jobs \ {j} : priv'[k] = priv[k]
      /\ \A l \in Lines : priv'[j][l] = copy(l) /\ base'[j][l] = base[j][l]
  BY <1>1 DEF Types
<1>4. ASSUME NEW l \in Lines
      PROVE  /\ copy(l) \in Histories /\ Growing(copy(l))
             /\ Len(base[j][l]) <= Len(copy(l)) /\ \A i \in 1..Len(base[j][l]) : copy(l)[i] = base[j][l][i]
             /\ \A v \in Own(j, l)' : v.task \in Refused(j, l) /\ v.status = "failed"
             /\ \A t \in Refused(j, l) : \E v \in Own(j, l)' : v.task = t
             /\ \A v, w \in Own(j, l)' : v.task = w.task => v = w
             /\ MaxId(base[j][l]) = Len(base[j][l]) =>
                  \A k \in DOMAIN Prefailed(j, l) :
                    Version(Len(base[j][l]) + k, Prefailed(j, l)[k], "failed") \in Own(j, l)'
  <2> DEFINE m == copy(l)
             h == base[j][l]
             p == Prefailed(j, l)
  <2>1. Own(j, l)' = Beyond(m, Len(h))
    BY <1>3 DEF Own
  <2>2. p = Prefailed(j, l) /\ m = AppendedAll(h, [k \in DOMAIN p |-> Version(Len(h) + k, p[k], "failed")])
    OBVIOUS
  <2>3. h \in Histories /\ Growing(h)
    BY <1>2
  <2> HIDE DEF m, p, h
  <2>4. /\ m \in Histories /\ Growing(m) /\ StandFor(m, h, Refused(j, l))
        /\ MaxId(h) = Len(h) => \A k \in DOMAIN p : Version(Len(h) + k, p[k], "failed") \in Beyond(m, Len(h))
    BY <2>2, <2>3, RefusedFacts, Zenon
  <2>5. /\ Len(h) <= Len(m) /\ \A i \in 1..Len(h) : m[i] = h[i]
        /\ \A v \in Own(j, l)' : v.task \in Refused(j, l) /\ v.status = "failed"
        /\ \A t \in Refused(j, l) : \E v \in Own(j, l)' : v.task = t
        /\ \A v, w \in Own(j, l)' : v.task = w.task => v = w
        /\ MaxId(h) = Len(h) => \A k \in DOMAIN p : Version(Len(h) + k, p[k], "failed") \in Own(j, l)'
    BY <2>1, <2>4 DEF StandFor
  <2> QED
    BY <2>4, <2>5 DEF m, p, h
<1> HIDE DEF copy
<1>5. CopyKept(j)'
  <2> SUFFICES ASSUME NEW l \in Lines
               PROVE  /\ Growing(base'[j][l]) /\ Growing(priv'[j][l])
                      /\ Len(base'[j][l]) <= Len(priv'[j][l])
                      /\ \A i \in 1..Len(base'[j][l]) : priv'[j][l][i] = base'[j][l][i]
                      /\ \A v \in Own(j, l)' : v.task \in Tasks /\ JobOf[v.task] = j /\ LineOf[v.task] = l
    BY DEF CopyKept
  <2>1. \A v \in Own(j, l)' : v.task \in Tasks /\ JobOf[v.task] = j /\ LineOf[v.task] = l
    BY <1>4 DEF Refused, TasksOf
  <2>2. Growing(base'[j][l]) /\ Growing(priv'[j][l])
    BY <1>2, <1>3, <1>4
  <2>3. Len(base'[j][l]) <= Len(priv'[j][l]) /\ \A i \in 1..Len(base'[j][l]) : priv'[j][l][i] = base'[j][l][i]
    BY <1>3, <1>4
  <2> QED
    BY <2>1, <2>2, <2>3
<1>6. ASSUME NEW t \in Tasks
      PROVE  LET p == Prefailed(j, LineOf[t])
                 i == CHOOSE k \in DOMAIN p : p[k] = t
             IN /\ number(t) = IF t \in ToSet(p) THEN Len(base[j][LineOf[t]]) + i ELSE iver[t]
                /\ t \in ToSet(p) => i \in DOMAIN p /\ p[i] = t /\ i \in Nat
                /\ t \in ToSet(p) <=> t \in Refused(j, LineOf[t])
                /\ number(t) \in Nat
  <2> DEFINE p == Prefailed(j, LineOf[t])
             i == CHOOSE k \in DOMAIN p : p[k] = t
  <2>1. LineOf[t] \in Lines /\ iver[t] \in Nat
    BY TaskAssumption DEF Types
  <2>2. p = Prefailed(j, LineOf[t])
    OBVIOUS
  <2>3. number(t) = IF t \in ToSet(p) THEN Len(base[j][LineOf[t]]) + i ELSE iver[t]
    OBVIOUS
  <2> HIDE DEF p, number
  <2>4. /\ DOMAIN p = 1..Len(p) /\ Len(p) \in Nat /\ \A k \in DOMAIN p : p[k] \in Refused(j, LineOf[t])
        /\ \A u \in Refused(j, LineOf[t]) : \E k \in DOMAIN p : p[k] = u
    BY <2>1, <2>2, PrefailedFacts
  <2>5. t \in ToSet(p) <=> t \in Refused(j, LineOf[t])
    BY <2>4 DEF ToSet
  <2>6. t \in ToSet(p) => i \in DOMAIN p /\ p[i] = t /\ i \in Nat
    BY <2>4 DEF ToSet
  <2>7. number(t) \in Nat
    <3> HIDE DEF i
    <3> QED
      BY <1>2, <2>1, <2>3, <2>6
  <2> QED
    BY <2>3, <2>5, <2>6, <2>7 DEF p
<1> HIDE DEF number
<1>7. \A t \in Tasks : JobOf[t] # j => number(t) = iver[t]
  BY <1>6 DEF Refused, TasksOf
<1>8. ASSUME NEW t \in TasksOf(j) PROVE Stood(t)
  <2> DEFINE l == LineOf[t]
             h == base[j][l]
             p == Prefailed(j, l)
             i == CHOOSE k \in DOMAIN p : p[k] = t
  <2>1. t \in Tasks /\ JobOf[t] = j /\ l \in Lines /\ iver[t] = 0
    BY TaskAssumption DEF JobKept, TasksOf, TaskKept, VersionOnce, Early
  <2>2. MadeOf(t)' = {v \in Own(j, l)' : v.task = t}
    BY <2>1 DEF MadeOf
  <2>3. t \in Refused(j, l) <=> istat[t] = "failed"
    BY <2>1 DEF Refused
  <2>4. /\ \A v, w \in MadeOf(t)' : v = w
        /\ \A v \in MadeOf(t)' : v.status = "failed"
        /\ MadeOf(t)' # {} <=> istat[t] = "failed"
    BY <1>4, <2>1, <2>2, <2>3
  <2>5. /\ number(t) = IF t \in ToSet(p) THEN Len(h) + i ELSE iver[t]
        /\ t \in ToSet(p) => i \in DOMAIN p /\ p[i] = t /\ i \in Nat
        /\ t \in ToSet(p) <=> t \in Refused(j, l)
    BY <1>6, <2>1, Zenon
  <2>6. iver'[t] = number(t)
    BY <1>1, <2>1
  <2>7. MaxId(h) = Len(h) => \A k \in DOMAIN p : Version(Len(h) + k, p[k], "failed") \in Own(j, l)'
    BY <1>4, <2>1
  <2>8. MadeOf(t)' = {} => iver'[t] = 0
    BY <2>1, <2>3, <2>4, <2>5, <2>6
  <2>9. ASSUME MaxId(h) = Len(h), NEW v \in MadeOf(t)' PROVE iver'[t] = v.id
    <3> HIDE DEF i, p, h, l
    <3>1. t \in ToSet(p) /\ i \in DOMAIN p /\ p[i] = t
      BY <2>3, <2>4, <2>5, <2>9
    <3>2. Version(Len(h) + i, t, "failed") \in MadeOf(t)'
      <4>1. Version(Len(h) + i, p[i], "failed") \in Own(j, l)'
        BY <2>7, <2>9, <3>1
      <4>2. Version(Len(h) + i, t, "failed").task = t
        BY DEF Version
      <4> QED
        BY <2>2, <3>1, <4>1, <4>2
    <3>3. v = Version(Len(h) + i, t, "failed")
      BY <2>4, <3>2
    <3>4. v.id = Len(h) + i
      BY <3>3 DEF Version
    <3> QED
      BY <2>5, <2>6, <3>1, <3>4
  <2> QED
    BY <2>1, <2>4, <2>8, <2>9 DEF Stood
<1>9. priv' \in [Jobs -> [Lines -> Histories]]
  <2>1. [l \in Lines |-> copy(l)] \in [Lines -> Histories]
    BY <1>4
  <2> QED
    BY <1>1, <2>1 DEF Types
<1>10. iver' \in [Tasks -> Nat]
  BY <1>1, <1>6
<1> QED
  BY <1>1, <1>3, <1>5, <1>7, <1>8, <1>9, <1>10

\* What a job has when its threads are about to start.
LEMMA LoadedFacts ==
  ASSUME Types, NEW j \in Jobs, JobKept(j), run[j] = "loaded"
  PROVE  /\ \A t \in TasksOf(j) :
              /\ TaskKept(t) /\ t \in Tasks /\ JobOf[t] = j /\ LineOf[t] \in Lines
              /\ iver[t] = 0 /\ MadeOf(t) = {} /\ Outcomes(t) = {}
              /\ t \notin Unroutable => istat[t] # "failed"
              /\ j \notin asked /\ t \in Unroutable => istat[t] = "failed"
              /\ j \notin asked /\ t \notin Unroutable => istat[t] \in {"queued", "active"}
              /\ istat[t] \in {"cancelling", "cancelled"} => Cancelled(j) \/ FailedItem(j)
         /\ \A x \in ThreadsOf(j) : x \in Threads /\ Fits(th[x], j) /\ th[x].pc = "done"
<1>1. \A t \in TasksOf(j) : TaskKept(t) /\ t \in Tasks /\ JobOf[t] = j /\ LineOf[t] \in Lines
  BY TaskAssumption DEF JobKept, TasksOf
<1>2. \A t \in TasksOf(j) : iver[t] = 0 /\ MadeOf(t) = {} /\ Outcomes(t) = {}
  BY <1>1 DEF TaskKept, VersionOnce, OutcomeKept, Early, Phases, Midway
<1>3. \A t \in TasksOf(j) : t \notin Unroutable => istat[t] # "failed"
  BY DEF JobKept, StatusKept, Early
<1>4. ASSUME NEW t \in TasksOf(j)
      PROVE  /\ j \notin asked /\ t \in Unroutable => istat[t] = "failed"
             /\ j \notin asked /\ t \notin Unroutable => istat[t] \in {"queued", "active"}
             /\ istat[t] \in {"cancelling", "cancelled"} => Cancelled(j) \/ FailedItem(j)
  BY <1>1, <1>2 DEF TaskKept, ItemKept, SilenceKept, Early
<1>5. \A x \in ThreadsOf(j) : x \in Threads /\ Fits(th[x], j) /\ th[x].pc = "done"
  BY DEF JobKept, ThreadsKept, ThreadsOf, Early
<1> QED
  BY <1>1, <1>2, <1>3, <1>4, <1>5

LEMMA StartedKept ==
  ASSUME IInv, NEW j \in Jobs, StartJob(j), run' = [run EXCEPT ![j] = "working"]
  PROVE  IInv'
<1> DEFINE begun(x) == [Idle EXCEPT !.pc = IF Runnable(x) = <<>> THEN "done" ELSE "gate", !.rest = Runnable(x)]
<1>1. /\ Types /\ StoreGrows /\ JobKept(j) /\ run[j] = "loaded"
      /\ RecordPrefailed(j) /\ broken' = broken
      /\ th' = [x \in Threads |-> IF x[1] = j THEN begun(x) ELSE th[x]]
      /\ UNCHANGED <<known, jstat, lost, istat, store, base, given, asked, ever>>
  <2>1. Types /\ StoreGrows /\ JobKept(j) /\ run[j] = "loaded"
    BY DEF IInv, StartJob
  <2>2. run'[j] = "working"
    BY <2>1 DEF Types
  <2>3. ~(run' = [run EXCEPT ![j] = "persist"])
    BY <2>1, <2>2 DEF Types
  <2>4. /\ RecordPrefailed(j) /\ broken' = broken
        /\ th' = [x \in Threads |-> IF x[1] = j THEN begun(x) ELSE th[x]]
    BY <2>3, Zenon DEF StartJob
  <2>5. UNCHANGED <<known, jstat, lost, istat, store, base, given, asked, ever>>
    BY Zenon DEF StartJob
  <2> QED
    BY <2>1, <2>4, <2>5, Zenon
<1>2. /\ run'[j] = "working" /\ \A k \in Jobs \ {j} : run'[k] = run[k]
      /\ \A x \in ThreadsOf(j) : th'[x] = begun(x)
      /\ \A x \in Threads : x[1] # j => th'[x] = th[x]
  BY <1>1 DEF Types, ThreadsOf
<1>3. /\ priv' \in [Jobs -> [Lines -> Histories]] /\ iver' \in [Tasks -> Nat]
      /\ \A k \in Jobs \ {j} : priv'[k] = priv[k]
      /\ \A t \in Tasks : JobOf[t] # j => iver'[t] = iver[t]
      /\ CopyKept(j)'
      /\ \A t \in TasksOf(j) : Stood(t)
  BY <1>1, PrefailedKept
<1>4. /\ \A t \in TasksOf(j) :
           /\ TaskKept(t) /\ t \in Tasks /\ JobOf[t] = j /\ LineOf[t] \in Lines
           /\ iver[t] = 0 /\ MadeOf(t) = {} /\ Outcomes(t) = {}
           /\ t \notin Unroutable => istat[t] # "failed"
           /\ j \notin asked /\ t \in Unroutable => istat[t] = "failed"
           /\ j \notin asked /\ t \notin Unroutable => istat[t] \in {"queued", "active"}
           /\ istat[t] \in {"cancelling", "cancelled"} => Cancelled(j) \/ FailedItem(j)
      /\ \A x \in ThreadsOf(j) : x \in Threads /\ Fits(th[x], j) /\ th[x].pc = "done"
  BY <1>1, LoadedFacts
<1>6. ASSUME NEW x \in ThreadsOf(j)
      PROVE  /\ Fits(th'[x], j) /\ th'[x].pc \in {"done", "gate"} /\ (th'[x].pc = "done" => th'[x].rest = <<>>)
             /\ \A t \in Tasks : Has(th'[x], t) => Has(th[x], t) /\ Runs(t)
             /\ \A t \in Tasks : InRest(th[x], t) /\ Runs(t) => InRest(th'[x], t)
  <2> DEFINE n == begun(x)
  <2>1. Fits(th[x], j) /\ th[x].pc = "done" /\ x \in Threads /\ th'[x] = n
    BY <1>2, <1>4
  <2>2. n = [Idle EXCEPT !.pc = IF Runnable(x) = <<>> THEN "done" ELSE "gate", !.rest = Runnable(x)]
    OBVIOUS
  <2> HIDE DEF n
  <2>3. /\ Fits(n, j) /\ n.pc \in {"done", "gate"} /\ (n.pc = "done" => n.rest = <<>>)
        /\ \A t \in Tasks : Has(n, t) => Has(th[x], t) /\ Runs(t)
        /\ \A t \in Tasks : InRest(th[x], t) /\ Runs(t) => InRest(n, t)
    BY <2>1, <2>2, StartedFits
  <2> QED
    BY <2>1, <2>3
<1> HIDE DEF begun
<1>8. Types' /\ StoreGrows'
  <2>1. th' \in [Threads -> ThreadStates]
    <3>1. \A x \in Threads : th'[x] \in ThreadStates
      BY <1>1, <1>2, <1>6 DEF ThreadsOf, Fits, Types
    <3>2. DOMAIN th' = Threads /\ th' = [x \in Threads |-> th'[x]]
      BY <1>1
    <3> QED
      BY <3>1, <3>2
  <2>2. run' \in [Jobs -> Phases]
    BY <1>1 DEF Types, Phases, Midway
  <2>3. Types'
    BY <1>1, <1>3, <2>1, <2>2 DEF Types
  <2> QED
    BY <1>1, <2>3 DEF StoreGrows
<1>9. StatusKept(j)'
  BY <1>1, <1>2 DEF JobKept, StatusKept, Early, Midway
<1>10. ThreadsKept(j)'
  <2>1. \A x, y \in ThreadsOf(j) : x # y => \A t \in Tasks : ~(Has(th'[x], t) /\ Has(th'[y], t))
    BY <1>1, <1>6 DEF JobKept, ThreadsKept
  <2> QED
    BY <1>1, <1>2, <1>6, <2>1 DEF ThreadsKept, Early
<1>11. ASSUME NEW t \in TasksOf(j) PROVE TaskKept(t)'
  <2>1. /\ TaskKept(t) /\ t \in Tasks /\ JobOf[t] = j /\ LineOf[t] \in Lines /\ Outcomes(t) = {}
        /\ Outcomes(t)' = {}
    BY <1>1, <1>4, OutcomesStay
  <2>s. /\ \A v, w \in MadeOf(t)' : v = w
        /\ \A v \in MadeOf(t)' : v.status = "failed"
        /\ MadeOf(t)' # {} <=> istat[t] = "failed"
        /\ MadeOf(t)' = {} => iver'[t] = 0
        /\ Named(t)' /\ t \in Unroutable => \A v \in MadeOf(t)' : iver'[t] = v.id
    BY <1>1, <1>3, <2>1 DEF Stood, Named
  <2>2. VersionOnce(t)'
    <3>1. \A x \in ThreadsOf(j) : Waits(th'[x], t) => MadeOf(t)' = {}
      BY <1>6, <2>1, <2>s DEF Waits, Runs
    <3>2. \A x \in ThreadsOf(j) : ~At(x, t, {"settle"})'
      BY <1>6 DEF At
    <3> QED
      BY <1>1, <1>2, <2>1, <2>s, <3>1, <3>2 DEF VersionOnce, Early
  <2>3. j \notin asked /\ t \notin Unroutable => Runs(t) /\ istat[t] \in {"queued", "active"}
    BY <1>4 DEF Runs
  <2>4. VersionMade(t)'
    <3>1. ASSUME j \notin asked PROVE MadeOf(t)' # {} \/ \E x \in ThreadsOf(j) : Waits(th'[x], t)
      <4>1. CASE t \in Unroutable
        BY <1>4, <2>s, <3>1, <4>1
      <4>2. CASE t \notin Unroutable
        <5>1. PICK x \in ThreadsOf(j) : InRest(th[x], t)
          BY <1>1, <4>2 DEF JobKept, ThreadsKept, Early
        <5>2. InRest(th'[x], t)
          BY <1>6, <2>1, <2>3, <3>1, <4>2, <5>1
        <5>3. th'[x].pc \in {"done", "gate"}
          BY <1>6
        <5>4. Waits(th'[x], t)
          BY <5>2, <5>3 DEF Waits, Has, Decided
        <5> QED
          BY <5>4
      <4> QED
        BY <4>1, <4>2
    <3> QED
      BY <1>1, <1>2, <2>1, <3>1 DEF VersionMade
  <2>5. SilenceKept(t)'
    <3>1. istat[t] \in {"cancelling", "cancelled"} => Cancelled(j) \/ FailedItem(j)
      BY <1>4
    <3>2. (FailedItem(j)' <=> FailedItem(j)) /\ (Cancelled(j)' <=> Cancelled(j))
      BY <1>1 DEF FailedItem, Cancelled
    <3> QED
      BY <1>1, <1>2, <2>1, <2>s, <3>1, <3>2 DEF SilenceKept
  <2>6. ItemKept(t)'
    <3>1. j \notin asked /\ t \notin Unroutable => MadeOf(t)' = {}
      BY <2>3, <2>s DEF Runs
    <3> QED
      BY <1>1, <1>2, <2>1, <2>3, <2>s, <3>1 DEF ItemKept, Early
  <2>7. OutcomeKept(t)'
    BY <1>1, <1>2, <2>1 DEF OutcomeKept
  <2>8. NumberKept(t)'
    BY <1>2, <2>1 DEF NumberKept
  <2> QED
    BY <2>2, <2>4, <2>5, <2>6, <2>7, <2>8 DEF TaskKept
<1>12. ASSUME NEW k \in Jobs \ {j} PROVE Untouched(k)
  <2>1. \A t \in TasksOf(k) : iver'[t] = iver[t] /\ istat'[t] = istat[t] /\ Outcomes(t)' = Outcomes(t)
    BY <1>1, <1>3, OutcomesStay DEF TasksOf
  <2>2. \A x \in ThreadsOf(k) : th'[x] = th[x]
    BY <1>2 DEF ThreadsOf
  <2> QED
    BY <1>1, <1>2, <1>3, <2>1, <2>2 DEF Untouched
<1>13. JobKept(j)'
  BY <1>3, <1>9, <1>10, <1>11 DEF JobKept
<1> QED
  BY <1>8, <1>12, <1>13, OneJobKept

\* The threads could not be started.
LEMMA StoppedKept ==
  ASSUME IInv, NEW j \in Jobs, StartJob(j), run' = [run EXCEPT ![j] = "persist"]
  PROVE  IInv'
<1>1. /\ Types /\ StoreGrows /\ JobKept(j) /\ run[j] = "loaded"
      /\ broken' = broken \cup {j} /\ (RecordPrefailed(j) \/ (priv' = priv /\ iver' = iver))
      /\ UNCHANGED <<known, jstat, lost, istat, store, base, given, th, asked, ever>>
  <2>1. Types /\ StoreGrows /\ JobKept(j) /\ run[j] = "loaded"
    BY DEF IInv, StartJob
  <2>2. run'[j] = "persist"
    BY <2>1 DEF Types
  <2>3. ~(run' = [run EXCEPT ![j] = "working"])
    BY <2>1, <2>2 DEF Types
  <2>4. broken' = broken \cup {j} /\ (RecordPrefailed(j) \/ UNCHANGED <<priv, iver>>) /\ th' = th
    BY <2>3, Zenon DEF StartJob
  <2>5. UNCHANGED <<known, jstat, lost, istat, store, base, given, asked, ever>>
    BY Zenon DEF StartJob
  <2>6. RecordPrefailed(j) \/ (priv' = priv /\ iver' = iver)
    <3>1. CASE RecordPrefailed(j)
      BY <3>1, Zenon
    <3>2. CASE UNCHANGED <<priv, iver>>
      BY <3>2
    <3> QED
      BY <2>4, <3>1, <3>2, Zenon
  <2> QED
    BY <2>1, <2>4, <2>5, <2>6, Zenon
<1>2. run'[j] = "persist" /\ \A k \in Jobs \ {j} : run'[k] = run[k] /\ (k \in broken' <=> k \in broken)
  BY <1>1 DEF Types
<1>4. /\ \A t \in TasksOf(j) :
           /\ TaskKept(t) /\ t \in Tasks /\ JobOf[t] = j /\ LineOf[t] \in Lines
           /\ iver[t] = 0 /\ MadeOf(t) = {} /\ Outcomes(t) = {}
           /\ t \notin Unroutable => istat[t] # "failed"
           /\ j \notin asked /\ t \in Unroutable => istat[t] = "failed"
           /\ j \notin asked /\ t \notin Unroutable => istat[t] \in {"queued", "active"}
           /\ istat[t] \in {"cancelling", "cancelled"} => Cancelled(j) \/ FailedItem(j)
      /\ \A x \in ThreadsOf(j) : x \in Threads /\ Fits(th[x], j) /\ th[x].pc = "done"
  BY <1>1, LoadedFacts
<1>3. /\ priv' \in [Jobs -> [Lines -> Histories]] /\ iver' \in [Tasks -> Nat]
      /\ \A k \in Jobs \ {j} : priv'[k] = priv[k]
      /\ \A t \in Tasks : JobOf[t] # j => iver'[t] = iver[t]
      /\ CopyKept(j)'
      /\ \A t \in TasksOf(j) : Stood(t) \/ (MadeOf(t)' = {} /\ iver'[t] = 0)
  <2>1. CASE RecordPrefailed(j)
    <3>1. /\ priv' \in [Jobs -> [Lines -> Histories]] /\ iver' \in [Tasks -> Nat]
          /\ \A k \in Jobs \ {j} : priv'[k] = priv[k]
          /\ \A t \in Tasks : JobOf[t] # j => iver'[t] = iver[t]
          /\ CopyKept(j)'
          /\ \A t \in TasksOf(j) : Stood(t)
      BY <1>1, <2>1, PrefailedKept
    <3>2. ASSUME NEW t \in TasksOf(j) PROVE Stood(t) \/ (MadeOf(t)' = {} /\ iver'[t] = 0)
      BY <3>1 DEF Stood
    <3> QED
      BY <3>1, <3>2
  <2>2. CASE priv' = priv /\ iver' = iver
    BY <1>1, <1>4, <2>2, CopyStays DEF JobKept, Types
  <2> QED
    BY <1>1, <2>1, <2>2
<1>8. Types' /\ StoreGrows'
  <2>1. run' \in [Jobs -> Phases] /\ broken' \subseteq Jobs
    BY <1>1 DEF Types, Phases, Midway
  <2>2. Types'
    BY <1>1, <1>3, <2>1 DEF Types
  <2> QED
    BY <1>1, <2>2 DEF StoreGrows
<1>9. StatusKept(j)'
  BY <1>1, <1>2 DEF JobKept, StatusKept, Early, Midway
<1>10. ThreadsKept(j)'
  BY <1>1, <1>2, <1>4 DEF JobKept, ThreadsKept, Early
<1>11. ASSUME NEW t \in TasksOf(j) PROVE TaskKept(t)'
  <2>1. /\ TaskKept(t) /\ t \in Tasks /\ JobOf[t] = j /\ LineOf[t] \in Lines /\ Outcomes(t) = {}
        /\ Outcomes(t)' = {}
    BY <1>1, <1>4, OutcomesStay
  <2>s. /\ \A v, w \in MadeOf(t)' : v = w
        /\ \A v \in MadeOf(t)' : v.status = "failed" /\ istat[t] = "failed"
        /\ MadeOf(t)' = {} => iver'[t] = 0
        /\ Named(t)' /\ t \in Unroutable => \A v \in MadeOf(t)' : iver'[t] = v.id
    BY <1>1, <1>3, <2>1 DEF Stood, Named
  <2>2. VersionOnce(t)'
    <3>1. \A x \in ThreadsOf(j) : Waits(th'[x], t) => MadeOf(t)' = {}
      <4> SUFFICES ASSUME NEW x \in ThreadsOf(j), Waits(th[x], t) PROVE istat[t] # "failed"
        BY <1>1, <2>s
      <4>1. Has(th[x], t)
        BY DEF Waits
      <4>2. t \notin Unroutable
        BY <1>4, <2>1, <4>1 DEF Fits
      <4> QED
        BY <1>4, <4>2
    <3>2. \A x \in ThreadsOf(j) : ~At(x, t, {"settle"})'
      BY <1>1, <1>4 DEF At
    <3> QED
      BY <1>1, <1>2, <2>1, <2>s, <3>1, <3>2 DEF VersionOnce, Early
  <2>4. VersionMade(t)'
    BY <1>1, <1>2, <2>1 DEF VersionMade
  <2>5. SilenceKept(t)'
    <3>1. istat[t] \in {"cancelling", "cancelled"} => Cancelled(j) \/ FailedItem(j)
      BY <1>4
    <3>2. (FailedItem(j)' <=> FailedItem(j)) /\ (Cancelled(j)' <=> Cancelled(j))
      BY <1>1 DEF FailedItem, Cancelled
    <3> QED
      BY <1>1, <1>2, <2>1, <2>s, <3>1, <3>2 DEF SilenceKept
  <2>6. ItemKept(t)'
    <3>1. j \notin asked /\ t \notin Unroutable => MadeOf(t)' = {} /\ istat[t] \in {"queued", "active"}
      BY <1>4, <2>s
    <3> QED
      BY <1>1, <1>2, <2>1, <2>s, <3>1 DEF ItemKept, Early
  <2>7. OutcomeKept(t)'
    BY <1>1, <1>2, <2>1 DEF OutcomeKept
  <2>8. NumberKept(t)'
    BY <1>2, <2>1 DEF NumberKept
  <2> QED
    BY <2>2, <2>4, <2>5, <2>6, <2>7, <2>8 DEF TaskKept
<1>12. ASSUME NEW k \in Jobs \ {j} PROVE Untouched(k)
  <2>1. \A t \in TasksOf(k) : iver'[t] = iver[t] /\ istat'[t] = istat[t] /\ Outcomes(t)' = Outcomes(t)
    BY <1>1, <1>3, OutcomesStay DEF TasksOf
  <2> QED
    BY <1>1, <1>2, <1>3, <2>1 DEF Untouched
<1>13. JobKept(j)'
  BY <1>3, <1>9, <1>10, <1>11 DEF JobKept
<1> QED
  BY <1>8, <1>12, <1>13, OneJobKept

\* A job of which nothing can be told any more.
LEMMA VanishKept ==
  ASSUME IInv, NEW j \in Jobs, Vanish(j)
  PROVE  IInv'
<1>1. /\ Types /\ JobKept(j) /\ run[j] = "finish" /\ j \notin known /\ run' = [run EXCEPT ![j] = "done"]
      /\ UNCHANGED <<known, jstat, broken, lost, istat, iver, store, base, priv, given, th, asked, ever>>
  BY DEF Vanish, IInv, itemVars, manifests
<1>2. run'[j] = "done" /\ \A k \in Jobs \ {j} : run'[k] = run[k]
  BY <1>1 DEF Types
<1>3. j \in asked /\ jstat[j] \in Terminal
  BY <1>1 DEF JobKept, StatusKept, Midway
<1>4. Types' /\ StoreGrows'
  <2>1. run' \in [Jobs -> Phases]
    BY <1>1 DEF Types, Phases
  <2>2. Types'
    BY <1>1, <2>1 DEF Types
  <2> QED
    BY <1>1, <2>2 DEF IInv, StoreGrows
<1>5. \A t : MadeOf(t)' = MadeOf(t) /\ Outcomes(t)' = Outcomes(t)
  BY <1>1, CopyStays, OutcomesStay DEF JobKept
<1>6. CopyKept(j)'
  BY <1>1, CopyStays DEF JobKept
<1>7. StatusKept(j)'
  BY <1>1, <1>2, <1>3 DEF JobKept, StatusKept, Midway, Terminal, Early
<1>8. ThreadsKept(j)' /\ \A x \in ThreadsOf(j) : th[x].pc \in {"done", "raised"}
  BY <1>1, <1>2 DEF JobKept, ThreadsKept, Early
<1>9. ASSUME NEW t \in TasksOf(j) PROVE TaskKept(t)'
  <2>1. TaskKept(t) /\ JobOf[t] = j
    BY <1>1 DEF JobKept, TasksOf
  <2>2. \A x \in ThreadsOf(j) : ~At(x, t, {"settle"})' /\ ~At(x, t, {"settle"})
    BY <1>1, <1>8 DEF At
  <2>3. VersionOnce(t)' /\ VersionMade(t)'
    BY <1>1, <1>2, <1>3, <1>5, <2>1, <2>2 DEF TaskKept, VersionOnce, VersionMade, Early
  <2>4. SilenceKept(t)'
    <3>1. jstat[j] = "cancelled" => ~FailedItem(j)
      BY <1>1 DEF JobKept, StatusKept, FailedItem
    <3>2. FailedItem(j)' <=> FailedItem(j)
      BY <1>1 DEF FailedItem
    <3> QED
      BY <1>1, <1>2, <1>5, <2>1, <2>2, <3>1, <3>2 DEF TaskKept, SilenceKept
  <2>5. ItemKept(t)' /\ NumberKept(t)'
    BY <1>1, <1>3, <2>1 DEF ItemKept, NumberKept
  <2>6. OutcomeKept(t)'
    BY <1>1, <1>2, <1>5, <2>1 DEF TaskKept, OutcomeKept
  <2> QED
    BY <2>3, <2>4, <2>5, <2>6 DEF TaskKept
<1>10. \A k \in Jobs \ {j} : Untouched(k)
  BY <1>1, <1>2, <1>5 DEF Untouched
<1>11. JobKept(j)'
  BY <1>6, <1>7, <1>8, <1>9 DEF JobKept
<1> QED
  BY <1>4, <1>10, <1>11, OneJobKept

\* Every step of a job keeps the invariant.
LEMMA JobStepKept ==
  ASSUME IInv, NEW j \in Jobs, JobStep(j)
  PROVE  IInv'
<1>1. CASE StartJob(j)
  <2>1. run' = [run EXCEPT ![j] = "working"] \/ run' = [run EXCEPT ![j] = "persist"]
    BY <1>1 DEF StartJob
  <2> QED
    BY <1>1, <2>1, StartedKept, StoppedKept
<1> QED
  BY <1>1, BeginKept, LoadManifestKept, VanishKept, JoinKept, PersistKept, PersistFailsKept, FinishKept, RenumberKept DEF JobStep

LEMMA StutterKept ==
  ASSUME IInv, UNCHANGED vars
  PROVE  IInv'
<1>1. UNCHANGED <<known, jstat, run, broken, lost, istat, iver, store, base, priv, given, th, asked, ever>>
  BY DEF vars, jobVars, itemVars, manifests
<1>2. Types' /\ StoreGrows'
  BY <1>1 DEF IInv, Types, StoreGrows
<1>3. \A t : Outcomes(t)' = Outcomes(t)
  BY <1>1, OutcomesStay
<1>4. ASSUME NEW j \in Jobs PROVE JobKept(j)'
  <2>1. Untouched(j)
    BY <1>1, <1>3 DEF Untouched
  <2> QED
    BY <2>1, UntouchedKept DEF IInv
<1> QED
  BY <1>2, <1>4 DEF IInv

LEMMA StepKept ==
  ASSUME IInv, [Next]_vars
  PROVE  IInv'
<1>1. ASSUME NEW j \in Jobs, Submit(j) \/ Evict(j) \/ Cancel(j) \/ JobStep(j) PROVE IInv'
  BY <1>1, SubmitKept, EvictKept, CancelKept, JobStepKept
<1>2. ASSUME NEW x \in Threads, ThreadStep(x) \/ Preempted(x) PROVE IInv'
  BY <1>2, ThreadKept
<1>3. ASSUME NEW l \in Lines, DeleteVersion(l) PROVE IInv'
  BY <1>3, DeleteKept
<1>4. CASE UNCHANGED vars
  BY <1>4, StutterKept
<1> QED
  BY <1>1, <1>2, <1>3, <1>4 DEF Next, ManagerNext

-----------------------------------------------------------------------------
(***************************************************************************)
(* The initial states.                                                     *)
(***************************************************************************)
LEMMA FirstHistory ==
  ASSUME NEW l \in Lines, NEW h, h = [i \in DOMAIN History[l] |-> Version(History[l][i], Older, "completed")]
  PROVE  h \in Histories /\ Growing(h)
<1> DEFINE ids == History[l]
<1>1. ids \in Seq(Nat \ {0}) /\ \A i, k \in DOMAIN ids : i < k => ids[i] < ids[k]
  BY HistoryAssumption
<1>2. h = [i \in DOMAIN ids |-> Version(ids[i], Older, "completed")]
  OBVIOUS
<1> HIDE DEF ids
<1>3. Len(ids) \in Nat /\ DOMAIN ids = 1..Len(ids) /\ \A i \in DOMAIN ids : ids[i] \in Nat \ {0}
  BY <1>1
<1>4. \A i \in DOMAIN ids : h[i] \in Versions /\ h[i].id = ids[i]
  BY <1>2, <1>3 DEF Version, Versions, Terminal
<1>5. DOMAIN h = 1..Len(ids) /\ h \in [1..Len(ids) -> Versions]
  BY <1>2, <1>3, <1>4
<1>6. h \in Histories
  BY <1>3, <1>5 DEF Histories
<1>7. Growing(h)
  <2> SUFFICES ASSUME NEW i \in DOMAIN h, NEW k \in DOMAIN h, i < k PROVE h[i].id < h[k].id
    BY DEF Growing
  <2>1. i \in DOMAIN ids /\ k \in DOMAIN ids
    BY <1>3, <1>5
  <2>2. h[i].id = ids[i] /\ h[k].id = ids[k] /\ ids[i] < ids[k]
    BY <1>1, <1>4, <2>1
  <2> QED
    BY <2>2
<1> QED
  BY <1>6, <1>7

LEMMA FirstThread ==
  ASSUME NEW plan \in Plans, NEW x \in Threads, NEW n, n = [Idle EXCEPT !.rest = plan[x]]
  PROVE  /\ Fits(n, x[1]) /\ n.pc = "done"
         /\ \A t : Has(n, t) <=> \E i \in DOMAIN plan[x] : \E k \in DOMAIN plan[x][i] : plan[x][i][k] = t
         /\ \A t : InRest(n, t) <=> Has(n, t)
<1> DEFINE r == plan[x]
<1>1. /\ r \in Seq(Seq(Tasks))
      /\ \A i \in DOMAIN r : \A k \in DOMAIN r[i] : JobOf[r[i][k]] = x[1] /\ r[i][k] \notin Unroutable
      /\ \A i, m \in DOMAIN r : \A k \in DOMAIN r[i], q \in DOMAIN r[m] : r[i][k] = r[m][q] => i = m /\ k = q
  BY PlanAssumption
<1>2. n = [pc |-> "done", rest |-> r, cur |-> <<>>, want |-> 0]
  BY DEF Idle
<1> HIDE DEF r
<1>3. n \in ThreadStates /\ n.pc = "done" /\ n.rest = r /\ n.cur = <<>>
  <2>1. "done" \in Labels /\ 0 \in Nat
    BY DEF Labels
  <2> DEFINE w == [pc |-> "done", rest |-> r, cur |-> <<>>, want |-> 0]
  <2>2. w \in ThreadStates /\ w.pc = "done" /\ w.rest = r /\ w.cur = <<>>
    BY <1>1, <2>1 DEF ThreadStates
  <2>3. n = w
    BY <1>2, Zenon
  <2> HIDE DEF w
  <2> QED
    BY <2>2, <2>3, Zenon
<1>4. \A t : ~InCur(n, t) /\ (InRest(n, t) <=> \E i \in DOMAIN r : \E k \in DOMAIN r[i] : r[i][k] = t)
  BY <1>3 DEF InCur, InRest
<1>5. \A t : (Has(n, t) <=> \E i \in DOMAIN r : \E k \in DOMAIN r[i] : r[i][k] = t) /\ (InRest(n, t) <=> Has(n, t))
  BY <1>4 DEF Has
<1>6. \A t : Has(n, t) => JobOf[t] = x[1] /\ t \notin Unroutable
  BY <1>1, <1>5
<1>7. Once(n)
  <2>1. \A i, k \in DOMAIN n.cur : n.cur[i] = n.cur[k] => i = k
    BY <1>3
  <2>2. \A i, m \in DOMAIN n.rest : \A k \in DOMAIN n.rest[i], q \in DOMAIN n.rest[m] :
          n.rest[i][k] = n.rest[m][q] => i = m /\ k = q
    BY <1>1, <1>3
  <2> QED
    BY <1>4, <2>1, <2>2 DEF Once
<1>8. Fits(n, x[1])
  BY <1>3, <1>6, <1>7 DEF Fits, Serving
<1> QED
  BY <1>3, <1>5, <1>8 DEF r

LEMMA InitKept ==
  ASSUME Init
  PROVE  IInv
<1>1. PICK plan \in Plans : th = [x \in Threads |-> [Idle EXCEPT !.rest = plan[x]]]
  BY DEF Init
<1>2. ASSUME NEW x \in Threads
      PROVE  /\ Fits(th[x], x[1]) /\ th[x].pc = "done"
             /\ \A t : Has(th[x], t) <=> \E i \in DOMAIN plan[x] : \E k \in DOMAIN plan[x][i] : plan[x][i][k] = t
             /\ \A t : InRest(th[x], t) <=> Has(th[x], t)
  <2>1. th[x] = [Idle EXCEPT !.rest = plan[x]]
    BY <1>1
  <2> QED
    BY <2>1, FirstThread
<1>3. \A l \in Lines : store[l] \in Histories /\ Growing(store[l])
  <2> TAKE l \in Lines
  <2>1. store[l] = [i \in DOMAIN History[l] |-> Version(History[l][i], Older, "completed")]
    BY DEF Init
  <2> QED
    BY <2>1, FirstHistory
<1>4. <<>> \in Histories /\ Growing(<<>>) /\ <<>> \in Seq([from : Nat, to : Nat])
  BY DEF Histories, Growing
<1>5. Types /\ StoreGrows
  <2>1. store \in [Lines -> Histories]
    BY <1>3 DEF Init
  <2>2. /\ base \in [Jobs -> [Lines -> Histories]] /\ priv \in [Jobs -> [Lines -> Histories]]
        /\ given \in [Jobs -> [Lines -> Seq([from : Nat, to : Nat])]]
    BY <1>4 DEF Init
  <2>3. th \in [Threads -> ThreadStates]
    BY <1>1, <1>2 DEF Fits
  <2>4. ever \in [Lines -> SUBSET Versions] /\ iver \in [Tasks -> Nat]
    BY DEF Init
  <2>5. /\ known \subseteq Jobs /\ broken \subseteq Jobs /\ lost \subseteq Jobs /\ asked \subseteq Jobs
        /\ jstat \in [Jobs -> {"new", "queued", "running", "cancelling"} \cup Terminal]
        /\ run \in [Jobs -> Phases]
        /\ istat \in [Tasks -> {"queued", "active", "cancelling"} \cup Terminal]
    BY DEF Init, Phases, Early
  <2> QED
    BY <1>3, <2>1, <2>2, <2>3, <2>4, <2>5 DEF Types, StoreGrows
<1>6. ASSUME NEW j \in Jobs PROVE JobKept(j)
  <2>1. /\ run[j] = "new" /\ j \notin known /\ j \notin asked /\ j \notin lost /\ j \notin broken
        /\ \A l \in Lines : base[j][l] = <<>> /\ priv[j][l] = <<>> /\ given[j][l] = <<>>
    BY DEF Init
  <2>2. \A l \in Lines : Own(j, l) = {}
    <3> TAKE l \in Lines
    <3>1. Own(j, l) = {<<>>[i] : i \in (0 + 1)..0}
      BY <2>1 DEF Own, Beyond
    <3> QED
      BY <3>1
  <2>3. CopyKept(j)
    BY <1>4, <2>1, <2>2 DEF CopyKept
  <2>4. StatusKept(j)
    BY <2>1 DEF StatusKept, Init, TasksOf, Early, Midway
  <2>5. ThreadsKept(j)
    <3>1. \A x \in ThreadsOf(j) : x \in Threads /\ x[1] = j
      BY DEF ThreadsOf
    <3>2. \A x, y \in ThreadsOf(j) : x # y => \A t \in Tasks : ~(Has(th[x], t) /\ Has(th[y], t))
      <4> SUFFICES ASSUME NEW x \in ThreadsOf(j), NEW y \in ThreadsOf(j), NEW t \in Tasks,
                          Has(th[x], t), Has(th[y], t)
                   PROVE  x = y
        OBVIOUS
      <4>1. PICK i \in DOMAIN plan[x] : \E k \in DOMAIN plan[x][i] : plan[x][i][k] = t
        BY <1>2, <3>1
      <4>2. PICK m \in DOMAIN plan[y] : \E q \in DOMAIN plan[y][m] : plan[y][m][q] = t
        BY <1>2, <3>1
      <4>3. PICK k \in DOMAIN plan[x][i] : plan[x][i][k] = t
        BY <4>1
      <4>4. PICK q \in DOMAIN plan[y][m] : plan[y][m][q] = t
        BY <4>2
      <4> QED
        BY <3>1, <4>3, <4>4, PlanAssumption
    <3>3. \A t \in TasksOf(j) \ Unroutable : \E x \in ThreadsOf(j) : InRest(th[x], t)
      <4> TAKE t \in TasksOf(j) \ Unroutable
      <4>1. t \in Tasks \ Unroutable /\ JobOf[t] = j
        BY DEF TasksOf
      <4>2. PICK x \in Threads : \E i \in DOMAIN plan[x] : \E k \in DOMAIN plan[x][i] : plan[x][i][k] = t
        BY <4>1, PlanAssumption
      <4>3. Has(th[x], t) /\ InRest(th[x], t)
        BY <1>2, <4>2
      <4>4. x[1] = j
        BY <1>2, <4>1, <4>3 DEF Fits
      <4> QED
        BY <4>3, <4>4 DEF ThreadsOf
    <3> QED
      BY <1>2, <2>1, <3>1, <3>2, <3>3 DEF ThreadsKept
  <2>6. ASSUME NEW t \in TasksOf(j) PROVE TaskKept(t)
    <3>1. /\ t \in Tasks /\ JobOf[t] = j /\ LineOf[t] \in Lines /\ istat[t] = "queued" /\ iver[t] = 0
          /\ ever[LineOf[t]] = {}
      BY TaskAssumption DEF TasksOf, Init
    <3>2. MadeOf(t) = {} /\ Outcomes(t) = {}
      BY <2>2, <3>1 DEF MadeOf, Outcomes
    <3>3. \A x \in ThreadsOf(j) : ~At(x, t, {"settle"})
      BY <1>2 DEF ThreadsOf, At
    <3>4. VersionOnce(t) /\ VersionMade(t)
      BY <2>1, <3>1, <3>2, <3>3 DEF VersionOnce, VersionMade
    <3>5. SilenceKept(t) /\ OutcomeKept(t) /\ NumberKept(t)
      BY <2>1, <3>1, <3>2 DEF SilenceKept, OutcomeKept, NumberKept
    <3>6. ItemKept(t)
      BY <2>1, <3>1, <3>2 DEF ItemKept
    <3> QED
      BY <3>4, <3>5, <3>6 DEF TaskKept
  <2> QED
    BY <2>3, <2>4, <2>5, <2>6 DEF JobKept
<1> QED
  BY <1>5, <1>6 DEF IInv

-----------------------------------------------------------------------------
(***************************************************************************)
(* What the invariant says of the properties.                              *)
(***************************************************************************)
LEMMA VersionsFollow ==
  ASSUME IInv
  PROVE  VersionsKept
<1>1. TypeOK
  <2>1. ASSUME NEW x \in Threads
        PROVE  /\ th[x].pc \in Labels /\ th[x].cur \in Seq(Tasks) /\ th[x].want \in Nat
               /\ th[x].pc \notin {"done", "raised", "gate"} =>
                    th[x].cur # <<>> /\ JobOf[Head(th[x].cur)] = x[1] /\ run[x[1]] = "working"
    <3>1. x[1] \in Jobs /\ x \in ThreadsOf(x[1])
      BY DEF Threads, ThreadsOf
    <3>2. Fits(th[x], x[1]) /\ (th[x].pc \notin {"done", "raised"} => run[x[1]] = "working")
      BY <3>1 DEF IInv, JobKept, ThreadsKept
    <3>3. th[x].pc \in Labels /\ th[x].cur \in Seq(Tasks) /\ th[x].want \in Nat
      BY <3>2 DEF Fits, ThreadStates
    <3>4. ASSUME th[x].pc \notin {"done", "raised", "gate"}
          PROVE  th[x].cur # <<>> /\ JobOf[Head(th[x].cur)] = x[1]
      <4>1. th[x].cur # <<>>
        BY <3>2, <3>3, <3>4 DEF Fits, Serving
      <4>2. Head(th[x].cur) = th[x].cur[1] /\ 1 \in DOMAIN th[x].cur /\ th[x].cur[1] \in Tasks
        BY <3>3, <4>1
      <4>3. Has(th[x], th[x].cur[1])
        BY <4>2 DEF Has, InCur
      <4> QED
        BY <3>2, <4>1, <4>2, <4>3 DEF Fits
    <3> QED
      BY <3>2, <3>3, <3>4
  <2> QED
    BY <2>1 DEF IInv, Types, TypeOK, Histories, Labels, Phases, Early, Midway
<1>2. BaselineKept
  <2> SUFFICES ASSUME NEW j \in Jobs, NEW l \in Lines PROVE IsPrefix(base[j][l], priv[j][l])
    BY DEF BaselineKept
  <2> DEFINE s == base[j][l]
             p == priv[j][l]
  <2>1. s \in Histories /\ p \in Histories /\ Len(s) <= Len(p) /\ \A i \in 1..Len(s) : p[i] = s[i]
    BY DEF IInv, Types, JobKept, CopyKept
  <2> HIDE DEF s, p
  <2>2. SubSeq(s, 1, Len(s)) = SubSeq(p, 1, Len(s))
    BY <2>1 DEF Histories
  <2>3. IsPrefix(s, p)
    BY <2>1, <2>2 DEF IsPrefix
  <2> QED
    BY <2>3 DEF s, p
<1>3. IdsIncrease
  BY DEF IInv, StoreGrows, Growing, IdsIncrease
<1> QED
  BY <1>1, <1>2, <1>3 DEF VersionsKept

LEMMA OutcomeFollows ==
  ASSUME IInv
  PROVE  OneOutcome
<1> SUFFICES ASSUME NEW j \in Jobs, run[j] = "done", j \notin lost, NEW t \in TasksOf(j)
             PROVE  /\ Cardinality(Outcomes(t)) <= 1
                    /\ j \notin asked \cup broken => Outcomes(t) # {}
  BY DEF OneOutcome
<1>1. TaskKept(t) /\ JobOf[t] = j
  BY DEF IInv, JobKept, TasksOf
<1>2. \A v, w \in Outcomes(t) : v = w
  BY <1>1 DEF TaskKept, OutcomeKept
<1>3. Cardinality(Outcomes(t)) <= 1
  <2>1. CASE Outcomes(t) = {}
    BY <2>1, FS_EmptySet
  <2>2. CASE Outcomes(t) # {}
    <3>1. PICK v : Outcomes(t) = {v}
      BY <1>2, <2>2
    <3>2. Cardinality({v}) = 1
      BY FS_Singleton
    <3> QED
      BY <3>1, <3>2
  <2> QED
    BY <2>1, <2>2
<1>4. j \notin asked \cup broken => Outcomes(t) # {}
  BY <1>1 DEF TaskKept, VersionMade, OutcomeKept
<1> QED
  BY <1>3, <1>4

LEMMA ItemFollows ==
  ASSUME IInv
  PROVE  HonestItems
<1> SUFFICES ASSUME NEW t \in Tasks, run[JobOf[t]] = "done", JobOf[t] \notin lost \cup asked, Alone(t), Named(t)
             PROVE  ItemIsHonest(t)
  BY DEF HonestItems
<1>1. JobOf[t] \in Jobs /\ LineOf[t] \in Lines /\ t \in TasksOf(JobOf[t])
  BY TaskAssumption DEF TasksOf
<1>2. NumberKept(t) /\ given[JobOf[t]][LineOf[t]] = <<>>
  BY <1>1 DEF IInv, JobKept, TaskKept, StatusKept
<1>3. \A u : <<>> # <<u>>
  OBVIOUS
<1> QED
  BY <1>2, <1>3 DEF NumberKept, ItemIsHonest

LEMMA SilenceFollows ==
  ASSUME IInv
  PROVE  CancelledStaysSilent
<1> SUFFICES ASSUME NEW j \in Jobs, run[j] = "done", jstat[j] = "cancelled", NEW t \in TasksOf(j), istat[t] = "cancelled",
                    NEW v \in Outcomes(t)
             PROVE  v.status # "completed"
  BY DEF CancelledStaysSilent
<1>1. TaskKept(t) /\ JobOf[t] = j
  BY DEF IInv, JobKept, TasksOf
<1>2. \A w \in MadeOf(t) : w.status # "completed"
  BY <1>1 DEF TaskKept, SilenceKept
<1>3. \E w \in MadeOf(t) : v.status = w.status
  BY <1>1 DEF TaskKept, OutcomeKept
<1> QED
  BY <1>2, <1>3

-----------------------------------------------------------------------------
LEMMA Invariance == Spec => []IInv
<1>1. Init => IInv
  BY InitKept
<1>2. IInv /\ [Next]_vars => IInv'
  BY StepKept
<1> QED
  BY <1>1, <1>2, PTL DEF Spec

\* Concurrent jobs, cancellations and deletions leave each line's history in
\* order, and persist_manifest_delta never meets a working copy that lost what
\* the job had loaded.
THEOREM VersionsStay == Spec => []VersionsKept
<1>1. IInv => VersionsKept
  BY VersionsFollow
<1> QED
  BY <1>1, Invariance, PTL

\* However often a line is retried, swept or taken back, its task leaves one
\* version in the manifest at most, and one exactly if nothing stopped the job.
THEOREM OneVersionEach == Spec => []OneOutcome
<1>1. IInv => OneOutcome
  BY OutcomeFollows
<1> QED
  BY <1>1, Invariance, PTL

\* After the merge an item names the version its task has in the manifest,
\* whatever numbers other jobs took while this one worked.
THEOREM ItemsHonest == Spec => []HonestItems
<1>1. IInv => HonestItems
  BY ItemFollows
<1> QED
  BY <1>1, Invariance, PTL

\* A cancelled item of a cancelled job has no completed version in the manifest.
THEOREM CancelledSilent == Spec => []CancelledStaysSilent
<1>1. IInv => CancelledStaysSilent
  BY SilenceFollows
<1> QED
  BY <1>1, Invariance, PTL
=============================================================================
