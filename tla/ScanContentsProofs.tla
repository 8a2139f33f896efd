--------------------------- MODULE ScanContentsProofs --------------------------
(***************************************************************************)
(* Proofs about what a scan is asked to do and what its findings become:   *)
(* ModulePlanner, for requests of any length, and FindingLifecycle, for    *)
(* every number of candidates, recorders, observations and other events.   *)
(*                                                                         *)
(* A list of the planner being a function on some numbers, what happens to *)
(* it is a matter of sets and orders, and no induction over sequences is   *)
(* needed.                                                                 *)
(***************************************************************************)
EXTENDS ModulePlanner, FindingLifecycle, FiniteSetTheorems, WellFoundedInduction, TLAPS

--------------------------------------------------------------------------------
(***************************************************************************)
(* The words: where the canonical order puts them, and in which group.     *)
(***************************************************************************)
LEMMA Places ==
    /\ DOMAIN Canonical = 1..46 /\ Len(Canonical) = 46
    /\ DOMAIN AllModules = 1..42 /\ \A i \in 1..42 : Canonical[i] = AllModules[i]
    /\ Canonical[43] = "asn_discovery" /\ Canonical[44] = "no_asn_discovery"
    /\ Canonical[45] = "no_subdomain_brute" /\ Canonical[46] = "single_endpoint"
BY DEF Canonical, AllModules, Switches

\* What detectors need comes first, they come next, and the verification behind them.
LEMMA ParamsComeFirst == \A i \in 1..42 : AllModules[i] \in Params => i <= 8
BY DEF AllModules, Params

LEMMA DetectorsComeNext ==
    \A i \in 1..42 : AllModules[i] \in Detectors =>
        i >= 10 /\ (AllModules[i] # "monitor" => i <= 40)
BY DEF AllModules, Detectors, ParamDetectors, WebDetectors

LEMMA VerifyComesLast == AllModules[41] = "verify"
BY DEF AllModules

LEMMA ModulesOnce == \A i, j \in 1..42 : AllModules[i] = AllModules[j] => i = j
BY DEF AllModules

LEMMA ModulesAreNoTokens ==
    \A i \in 1..42 : /\ AllModules[i] \notin Passthrough
                     /\ AllModules[i] \notin {"asn_discovery", "no_asn_discovery",
                                              "no_subdomain_brute", "single_endpoint"}
BY DEF AllModules, Passthrough

LEMMA CanonicalOnce == \A i, j \in 1..46 : Canonical[i] = Canonical[j] => i = j
<1> SUFFICES ASSUME NEW i \in 1..46, NEW j \in 1..46, Canonical[i] = Canonical[j], i # j
             PROVE  FALSE
  OBVIOUS
<1>1. CASE i \in 1..42 /\ j \in 1..42
  BY <1>1, Places, ModulesOnce
<1>2. CASE i \in 1..42 /\ j \in 43..46
  <2>1. Canonical[j] \in {"asn_discovery", "no_asn_discovery", "no_subdomain_brute", "single_endpoint"}
    BY <1>2, Places
  <2> QED
    BY <1>2, <2>1, Places, ModulesAreNoTokens
<1>3. CASE j \in 1..42 /\ i \in 43..46
  <2>1. Canonical[i] \in {"asn_discovery", "no_asn_discovery", "no_subdomain_brute", "single_endpoint"}
    BY <1>3, Places
  <2> QED
    BY <1>3, <2>1, Places, ModulesAreNoTokens
<1>4. CASE i \in 43..46 /\ j \in 43..46
  BY <1>4, Places
<1> QED
  BY <1>1, <1>2, <1>3, <1>4

LEMMA CanonicalIsNoToken == \A i \in 1..46 : Canonical[i] \notin Passthrough
<1>1. \A i \in 43..46 : Canonical[i] \notin Passthrough
  BY Places DEF Passthrough
<1> QED
  BY <1>1, Places, ModulesAreNoTokens

LEMMA ModulesArePlaced ==
    \A m \in Modules : \E i \in 1..42 : AllModules[i] = m /\ Canonical[i] = m
BY Places DEF Modules, Range

LEMMA ModulesAreCanonical ==
    \A i \in 1..42 : i \in 1..46 /\ Canonical[i] = AllModules[i] /\ AllModules[i] \in Modules
BY Places DEF Modules, Range

\* A detector stands behind all it needs, and before the verification.
LEMMA DetectorsBetween ==
    /\ \A i, j \in 1..42 : AllModules[i] \in Params /\ AllModules[j] \in Detectors => i < j
    /\ \A j \in 1..42 : AllModules[j] \in Detectors /\ AllModules[j] # "monitor" => j < 41
<1>1. ASSUME NEW i \in 1..42, NEW j \in 1..42, i <= 8, j >= 10 PROVE i < j
  BY <1>1
<1>2. ASSUME NEW j \in 1..42, j <= 40 PROVE j < 41
  BY <1>2
<1> QED
  BY <1>1, <1>2, ParamsComeFirst, DetectorsComeNext

LEMMA Needs ==
    /\ \A m : Requires(m) \subseteq Params
    /\ Params \subseteq Modules /\ "verify" \in Modules /\ Detectors \subseteq Modules
    /\ Params \cap Detectors = {} /\ "verify" \notin Detectors /\ "verify" \notin Params
    /\ "subdomain_enum" \notin Params \cup Detectors \cup {"verify"}
<1>1. ASSUME NEW m PROVE Requires(m) \subseteq Params
  <2>1. {"http_probe"} \subseteq Params /\ {"http_probe", "js_analysis"} \subseteq Params
    BY DEF Params
  <2>2. CASE m \in ParamDetectors
    <3>1. m \notin WebDetectors /\ m # "monitor"
      BY <2>2 DEF ParamDetectors, WebDetectors
    <3> QED
      BY <2>2, <3>1 DEF Requires
  <2>3. CASE m \notin ParamDetectors /\ m \in WebDetectors
    <3>1. m # "monitor"
      BY <2>3 DEF WebDetectors
    <3> QED
      BY <2>1, <2>3, <3>1 DEF Requires
  <2>4. CASE m \notin ParamDetectors /\ m \notin WebDetectors /\ m = "monitor"
    BY <2>1, <2>4 DEF Requires
  <2>5. CASE m \notin ParamDetectors /\ m \notin WebDetectors /\ m # "monitor"
    BY <2>5 DEF Requires
  <2> QED
    BY <2>2, <2>3, <2>4, <2>5
<1>2. Params \subseteq Modules /\ "verify" \in Modules /\ Detectors \subseteq Modules
  BY DEF Modules, Range, AllModules, Params, Detectors, ParamDetectors, WebDetectors
<1>3. /\ Params \cap Detectors = {} /\ "verify" \notin Detectors /\ "verify" \notin Params
      /\ "subdomain_enum" \notin Params \cup Detectors \cup {"verify"}
  BY DEF Params, Detectors, ParamDetectors, WebDetectors
<1> QED
  BY <1>1, <1>2, <1>3

\* A detector never shares a group with what it needs.
LEMMA GroupsApart ==
    /\ \A m \in Params : Group(m) \in {0, 1}
    /\ \A m \in Detectors : Group(m) \in {0, 2, 3}
    /\ Group("verify") = 0
<1>1. \A m \in Params : Group(m) \in {0, 1}
  BY DEF Params, Group
<1>2. \A m \in Detectors : Group(m) \in {0, 2, 3}
  BY DEF Detectors, ParamDetectors, WebDetectors, Group
<1> QED
  BY <1>1, <1>2 DEF Group

--------------------------------------------------------------------------------
(***************************************************************************)
(* Phases.                                                                 *)
(***************************************************************************)
LEMMA HasLeast ==
    ASSUME NEW S, S \subseteq Nat, S # {}
    PROVE  \E x \in S : \A y \in S : x <= y
<1> DEFINE R == OpToRel(<, Nat)
<1>1. \A x, y \in Nat : <<x, y>> \in R <=> x < y
  BY DEF OpToRel
<1>2. IsWellFoundedOn(R, Nat)
  BY NatLessThanWellFounded
<1> HIDE DEF R
<1>3. PICK x \in S : \A y \in S : ~(<<y, x>> \in R)
  BY <1>2, WFMin
<1>4. ASSUME NEW y \in S PROVE x <= y
  <2>1. x \in Nat /\ y \in Nat
    OBVIOUS
  <2>2. ~(y < x)
    BY <1>1, <1>3, <2>1
  <2> QED
    BY <2>1, <2>2
<1> QED
  BY <1>4

\* Between a module and a later one that is in no group, or in another, a phase starts.
LEMMA PhaseStartsBetween ==
    ASSUME NEW L, DOMAIN L \subseteq Nat, NEW i \in DOMAIN L, NEW j \in DOMAIN L, i < j,
           Group(L[j]) = 0 \/ Group(L[j]) # Group(L[i])
    PROVE  \E k \in DOMAIN L : i < k /\ k <= j /\ StartsPhase(L, k)
<1>1. CASE Group(L[j]) = 0
  BY <1>1 DEF StartsPhase
<1>2. CASE Group(L[j]) # Group(L[i])
  <2> DEFINE S == {k \in DOMAIN L : i < k /\ k <= j /\ Group(L[k]) # Group(L[i])}
  <2>1. S \subseteq Nat /\ j \in S
    BY <1>2
  <2>2. PICK k \in S : \A x \in S : k <= x
    BY <2>1, HasLeast
  <2>3. ASSUME NEW p \in DOMAIN L, p < k, \A q \in DOMAIN L : ~(p < q /\ q < k)
        PROVE  Group(L[p]) # Group(L[k])
    <3>1. i \in Nat /\ p \in Nat /\ k \in Nat /\ i < k /\ k <= j /\ j \in Nat
      BY <2>2
    <3>2. i <= p
      BY <2>3, <3>1
    <3>3. CASE p = i
      BY <2>2, <3>3
    <3>4. CASE i < p
      <4>1. p \notin S
        BY <2>2, <2>3, <3>1
      <4>2. Group(L[p]) = Group(L[i])
        BY <2>3, <3>1, <3>4, <4>1
      <4> QED
        BY <2>2, <4>2
    <3> QED
      BY <3>1, <3>2, <3>3, <3>4
  <2>4. StartsPhase(L, k)
    BY <2>2, <2>3 DEF StartsPhase
  <2> QED
    BY <2>2, <2>4
<1> QED
  BY <1>1, <1>2

LEMMA PhasesAreCounted ==
    ASSUME NEW L, DOMAIN L \subseteq Nat, IsFiniteSet(DOMAIN L),
           NEW i \in DOMAIN L, NEW j \in DOMAIN L, i < j,
           Group(L[j]) = 0 \/ Group(L[j]) # Group(L[i])
    PROVE  PhaseOf(L, i) < PhaseOf(L, j)
<1> DEFINE S(x) == {k \in DOMAIN L : k <= x /\ StartsPhase(L, k)}
<1>1. PICK k \in DOMAIN L : i < k /\ k <= j /\ StartsPhase(L, k)
  BY PhaseStartsBetween
<1>2. i \in Nat /\ j \in Nat /\ k \in Nat /\ \A x \in DOMAIN L : x \in Nat
  OBVIOUS
<1>3. S(i) \subseteq S(j)
  BY <1>2
<1>4. k \in S(j) /\ k \notin S(i)
  BY <1>1, <1>2
<1>5. IsFiniteSet(S(j))
  BY FS_Subset
<1>6. /\ IsFiniteSet(S(i)) /\ Cardinality(S(i)) <= Cardinality(S(j))
      /\ Cardinality(S(i)) = Cardinality(S(j)) => S(i) = S(j)
  BY <1>3, <1>5, FS_Subset
<1>7. Cardinality(S(i)) \in Nat /\ Cardinality(S(j)) \in Nat
  BY <1>5, <1>6, FS_CardinalityType
<1>8. Cardinality(S(i)) # Cardinality(S(j))
  BY <1>4, <1>6
<1> HIDE DEF S
<1>9. Cardinality(S(i)) < Cardinality(S(j))
  BY <1>6, <1>7, <1>8
<1> QED
  BY <1>9 DEF S, PhaseOf

--------------------------------------------------------------------------------
(***************************************************************************)
(* Lists.                                                                  *)
(***************************************************************************)
LEMMA ThoseAre ==
    ASSUME NEW L, NEW words
    PROVE  /\ \A i : i \in DOMAIN Those(L, words) <=> i \in DOMAIN L /\ L[i] \in words
           /\ \A i \in DOMAIN Those(L, words) : Those(L, words)[i] = L[i]
BY DEF Those, Restrict

LEMMA Behind ==
    \A n \in Nat : /\ \A i \in 1..46 : i \in 1..(46 + n)
                    /\ \A k \in 1..n : /\ 46 + k \in 1..(46 + n) /\ 46 + k \notin 1..46
                                       /\ (46 + k) - 46 = k /\ ~(46 + k <= 46)
OBVIOUS

\* Of equal words the first is kept, and no word is lost.
LEMMA NormalizedIs ==
    ASSUME NEW s \in Seq(Words)
    PROVE  /\ DOMAIN Normalized(s) \subseteq 1..Len(s)
           /\ \A i, j \in DOMAIN Normalized(s) : Normalized(s)[i] = Normalized(s)[j] => i = j
           /\ Range(Normalized(s)) = Range(s)
<1> DEFINE N == Normalized(s)
<1>1. /\ DOMAIN N = {i \in 1..Len(s) : \A j \in 1..(i - 1) : s[j] # s[i]}
      /\ \A i \in DOMAIN N : N[i] = s[i]
      /\ DOMAIN s = 1..Len(s) /\ Len(s) \in Nat
  BY DEF Normalized, Restrict
<1> HIDE DEF N
<1>2. ASSUME NEW i \in DOMAIN N, NEW j \in DOMAIN N, N[i] = N[j] PROVE i = j
  <2>1. s[i] = s[j] /\ i \in 1..Len(s) /\ j \in 1..Len(s)
    BY <1>1, <1>2
  <2>2. ~(i < j)
    BY <1>1, <2>1
  <2>3. ~(j < i)
    BY <1>1, <2>1
  <2> QED
    BY <2>1, <2>2, <2>3
<1>3. Range(N) \subseteq Range(s)
  BY <1>1 DEF Range
<1>4. ASSUME NEW w \in Range(s) PROVE w \in Range(N)
  <2> DEFINE S == {i \in 1..Len(s) : s[i] = w}
  <2>1. S \subseteq Nat /\ S # {}
    BY <1>1 DEF Range
  <2>2. PICK k \in S : \A i \in S : k <= i
    BY <2>1, HasLeast
  <2>3. \A j \in 1..(k - 1) : s[j] # s[k]
    BY <1>1, <2>2
  <2>4. k \in DOMAIN N /\ N[k] = w
    BY <1>1, <2>2, <2>3
  <2> QED
    BY <2>4 DEF Range
<1> QED
  BY <1>1, <1>2, <1>3, <1>4 DEF N

--------------------------------------------------------------------------------
(***************************************************************************)
(* A request with a detector: the plan, and what is executed of it.        *)
(***************************************************************************)
LEMMA PlanIs ==
    ASSUME NEW N, NEW n \in Nat, DOMAIN N \subseteq 1..n, Range(N) \cap Detectors # {},
           \A i, j \in DOMAIN N : N[i] = N[j] => i = j
    PROVE  LET P == PlanModules(N) IN
           /\ DOMAIN P \subseteq 1..(46 + n)
           /\ \A i \in 1..46 : i \in DOMAIN P <=> Canonical[i] \in Planned(N)
           /\ \A i \in DOMAIN P \cap 1..46 : P[i] = Canonical[i]
           /\ \A i \in DOMAIN P \ 1..46 : P[i] \in Passthrough
           /\ \A i, j \in DOMAIN P : P[i] = P[j] => i = j
<1> DEFINE A == InOrder(Planned(N) \ Passthrough)
           B == Those(N, Passthrough)
           P == PlanModules(N)
<1>2. /\ \A i : i \in DOMAIN A <=> i \in 1..46 /\ Canonical[i] \in Planned(N) \ Passthrough
      /\ \A i \in DOMAIN A : A[i] = Canonical[i]
  <2> DEFINE W == Planned(N) \ Passthrough
  <2>1. A = Those(Canonical, W)
    BY DEF InOrder
  <2> HIDE DEF W, A
  <2>2. /\ \A i : i \in DOMAIN A <=> i \in DOMAIN Canonical /\ Canonical[i] \in W
        /\ \A i \in DOMAIN A : A[i] = Canonical[i]
    BY <2>1, ThoseAre
  <2>3. DOMAIN Canonical = 1..46
    BY Places
  <2> QED
    BY <2>2, <2>3 DEF W
<1>3. /\ \A i : i \in DOMAIN B <=> i \in DOMAIN N /\ N[i] \in Passthrough
      /\ \A i \in DOMAIN B : B[i] = N[i]
  BY ThoseAre
<1>4. P = Followed(A, 46, B)
  BY Places DEF PlanModules
<1> HIDE DEF A, B, P
<1>5. /\ \A i : i \in DOMAIN P <=> i \in DOMAIN A \/ \E k \in DOMAIN B : i = 46 + k
      /\ \A i \in DOMAIN P : P[i] = IF i <= 46 THEN A[i] ELSE B[i - 46]
  BY <1>4 DEF Followed
<1>6. DOMAIN P \subseteq 1..(46 + n)
  <2>1. DOMAIN B \subseteq 1..n /\ DOMAIN A \subseteq 1..46
    BY <1>2, <1>3
  <2> QED
    BY <1>5, <2>1, Behind
<1>7. \A i \in 1..46 : i \in DOMAIN P <=> Canonical[i] \in Planned(N)
  <2>1. ASSUME NEW i \in 1..46 PROVE i \in DOMAIN P <=> i \in DOMAIN A
    BY <1>3, <1>5
  <2> QED
    BY <1>2, <2>1, CanonicalIsNoToken
<1>8. \A i \in DOMAIN P \cap 1..46 : i \in DOMAIN A /\ P[i] = Canonical[i]
  BY <1>2, <1>3, <1>5
<1>9. \A i \in DOMAIN P \ 1..46 : /\ i - 46 \in DOMAIN B /\ P[i] = N[i - 46]
                                  /\ P[i] \in Passthrough /\ i \in Nat
  <2> SUFFICES ASSUME NEW i \in DOMAIN P, i \notin 1..46
               PROVE  /\ i - 46 \in DOMAIN B /\ P[i] = N[i - 46]
                      /\ P[i] \in Passthrough /\ i \in Nat
    OBVIOUS
  <2>1. PICK k \in DOMAIN B : i = 46 + k
    BY <1>2, <1>5
  <2>2. k \in 1..n
    BY <1>3
  <2>3. i - 46 = k /\ ~(i <= 46) /\ i \in 1..(46 + n)
    BY <2>1, <2>2, Behind
  <2> QED
    BY <1>3, <1>5, <2>3
<1>10. ASSUME NEW i \in DOMAIN P, NEW j \in DOMAIN P, P[i] = P[j] PROVE i = j
  <2>1. CASE i \in 1..46 /\ j \in 1..46
    BY <1>8, <1>10, <2>1, CanonicalOnce
  <2>2. CASE i \in 1..46 /\ j \notin 1..46
    BY <1>8, <1>9, <1>10, <2>2, CanonicalIsNoToken
  <2>3. CASE i \notin 1..46 /\ j \in 1..46
    BY <1>8, <1>9, <1>10, <2>3, CanonicalIsNoToken
  <2>4. CASE i \notin 1..46 /\ j \notin 1..46
    <3>1. /\ i - 46 \in DOMAIN N /\ P[i] = N[i - 46] /\ i \in Nat
          /\ j - 46 \in DOMAIN N /\ P[j] = N[j - 46] /\ j \in Nat
      BY <1>3, <1>9, <2>4
    <3>2. i - 46 = j - 46
      BY <1>10, <3>1
    <3> QED
      BY <3>1, <3>2
  <2> QED
    BY <2>1, <2>2, <2>3, <2>4
<1> QED
  BY <1>6, <1>7, <1>8, <1>9, <1>10 DEF P

\* What is taken out when a task starts is neither a detector nor what one needs.
Kept(P, haveUrls) ==
    {m \in Modules \union {"speed_normal"} :
        ~((haveUrls /\ "single_endpoint" \in Range(P)) /\ m = "subdomain_enum")}

LEMMA ExecutedIs ==
    ASSUME NEW s, NEW haveUrls
    PROVE  LET P == PlanModules(Normalized(s))
               R == Executed(s, haveUrls) IN
           /\ \A i : i \in DOMAIN R <=> i \in DOMAIN P /\ P[i] \in Kept(P, haveUrls)
           /\ \A i \in DOMAIN R : R[i] = P[i]
BY ThoseAre DEF Executed, Stripped, Kept

\* PlanFeedsDetectors for one request.
Feeds(s, haveUrls) ==
    LET run == Executed(s, haveUrls)
        before(m, n) == \E i, j \in DOMAIN run :
                            run[i] = m /\ run[j] = n /\ PhaseOf(run, i) < PhaseOf(run, j) IN
    /\ \A i, j \in DOMAIN run : run[i] = run[j] => i = j
    /\ \A m \in Range(run) \cap Detectors :
          /\ m \in Range(s)
          /\ \A c \in Requires(m) : before(c, m)
          /\ m # "monitor" => before(m, "verify")
    /\ "subdomain_enum" \in Range(run) => "subdomain_enum" \in Range(s)
    /\ Range(s) \cap Modules \subseteq Range(run) \union {"subdomain_enum"}

LEMMA FeedsWithoutDetector ==
    ASSUME NEW s \in Seq(Words), NEW haveUrls \in BOOLEAN, Range(s) \cap Detectors = {}
    PROVE  Feeds(s, haveUrls)
<1> DEFINE N == Normalized(s)
           R == Executed(s, haveUrls)
<1>1. /\ \A i, j \in DOMAIN N : N[i] = N[j] => i = j
      /\ Range(N) = Range(s)
  BY NormalizedIs
<1>2. PlanModules(N) = N
  BY <1>1 DEF PlanModules
<1>3. /\ \A i : i \in DOMAIN R <=> i \in DOMAIN N /\ N[i] \in Kept(N, haveUrls)
      /\ \A i \in DOMAIN R : R[i] = N[i]
  BY <1>2, ExecutedIs
<1> HIDE DEF N, R
<1>4. Range(R) \subseteq Range(s)
  BY <1>1, <1>3 DEF Range
<1>5. Modules \subseteq Kept(N, haveUrls) \cup {"subdomain_enum"}
  BY DEF Kept
<1>6. Range(s) \cap Modules \subseteq Range(R) \union {"subdomain_enum"}
  <2> SUFFICES ASSUME NEW m \in Range(N), m \in Modules, m # "subdomain_enum"
               PROVE  m \in Range(R)
    BY <1>1
  <2>1. PICK i \in DOMAIN N : N[i] = m
    BY DEF Range
  <2>2. i \in DOMAIN R /\ R[i] = m
    BY <1>3, <1>5, <2>1
  <2> QED
    BY <2>2 DEF Range
<1> QED
  BY <1>1, <1>3, <1>4, <1>6 DEF Feeds, R

LEMMA FeedsWithDetector ==
    ASSUME NEW s \in Seq(Words), NEW haveUrls \in BOOLEAN, Range(s) \cap Detectors # {}
    PROVE  Feeds(s, haveUrls)
<1> DEFINE N == Normalized(s)
           P == PlanModules(N)
           R == Executed(s, haveUrls)
<1>1. /\ Range(N) = Range(s)
      /\ \A i, j \in DOMAIN N : N[i] = N[j] => i = j
  BY NormalizedIs
<1> HIDE DEF N
<1>n. PICK n \in Nat : DOMAIN N \subseteq 1..n
  <2>1. Len(s) \in Nat
    OBVIOUS
  <2>2. DOMAIN N \subseteq 1..Len(s)
    BY NormalizedIs DEF N
  <2> QED
    BY <2>1, <2>2
<1>2. /\ DOMAIN P \subseteq 1..(46 + n)
      /\ \A i \in 1..46 : i \in DOMAIN P <=> Canonical[i] \in Planned(N)
      /\ \A i \in DOMAIN P \cap 1..46 : P[i] = Canonical[i]
      /\ \A i \in DOMAIN P \ 1..46 : P[i] \in Passthrough
      /\ \A i, j \in DOMAIN P : P[i] = P[j] => i = j
  BY <1>1, <1>n, PlanIs
<1>3. /\ \A i : i \in DOMAIN R <=> i \in DOMAIN P /\ P[i] \in Kept(P, haveUrls)
      /\ \A i \in DOMAIN R : R[i] = P[i]
  BY ExecutedIs DEF N
<1> DEFINE K == Kept(P, haveUrls)
<1>4. Modules \subseteq K \cup {"subdomain_enum"}
  BY DEF Kept
<1> HIDE DEF P, R, K
<1>6. DOMAIN R \subseteq Nat /\ IsFiniteSet(DOMAIN R)
  <2>1. IsFiniteSet(1..(46 + n))
    BY FS_Interval
  <2>2. DOMAIN R \subseteq 1..(46 + n)
    BY <1>2, <1>3
  <2> QED
    BY <2>1, <2>2, FS_Subset
<1>7. \A i, j \in DOMAIN R : R[i] = R[j] => i = j
  BY <1>2, <1>3
\* A planned module but enumeration is in the run, where the canonical order puts it.
<1>8. \A i \in 1..42 : AllModules[i] \in Planned(N) /\ AllModules[i] # "subdomain_enum"
                        => i \in DOMAIN R /\ R[i] = AllModules[i]
  <2> SUFFICES ASSUME NEW i \in 1..42, AllModules[i] \in Planned(N), AllModules[i] # "subdomain_enum"
               PROVE  i \in DOMAIN R /\ R[i] = AllModules[i]
    OBVIOUS
  <2>1. i \in DOMAIN P /\ P[i] = AllModules[i]
    <3>1. i \in 1..46 /\ Canonical[i] = AllModules[i]
      BY ModulesAreCanonical
    <3> QED
      BY <1>2, <3>1
  <2>2. AllModules[i] \in Modules
    BY ModulesAreCanonical
  <2>3. P[i] \in K
    BY <1>4, <2>1, <2>2
  <2> QED
    BY <1>3, <2>1, <2>3 DEF K
\* A module of the run is planned.
<1>9. \A i \in DOMAIN R : R[i] \in Modules => i \in 1..42 /\ R[i] = AllModules[i] /\ R[i] \in Planned(N)
  <2> SUFFICES ASSUME NEW i \in DOMAIN R, R[i] \in Modules
               PROVE  i \in 1..42 /\ R[i] = AllModules[i] /\ R[i] \in Planned(N)
    OBVIOUS
  <2>1. PICK k \in 1..42 : Canonical[k] = R[i] /\ AllModules[k] = R[i]
    BY ModulesArePlaced
  <2>2. i \in 1..46
    BY <1>2, <1>3, <2>1, ModulesAreNoTokens
  <2>3. R[i] = Canonical[i] /\ Canonical[i] \in Planned(N)
    BY <1>2, <1>3, <2>2
  <2>4. i = k
    <3>1. k \in 1..46 /\ Canonical[k] = Canonical[i]
      BY <2>1, <2>3
    <3> QED
      BY <2>2, <3>1, CanonicalOnce
  <2> QED
    BY <2>1, <2>3, <2>4
<1>10. Planned(N) \subseteq Range(s) \cup Params \cup {"verify"} /\ "verify" \in Planned(N)
       /\ Range(s) \subseteq Planned(N) /\ \A m \in Range(s) : Requires(m) \subseteq Planned(N)
  <2>1. Planned(N) = Range(s) \cup {"verify"} \cup UNION {Requires(m) : m \in Range(s)}
    BY <1>1 DEF Planned
  <2>2. \A x : x \in Planned(N) <=> \/ x \in Range(s) \/ x = "verify"
                                   \/ \E m \in Range(s) : x \in Requires(m)
    BY <2>1
  <2> QED
    BY <2>2, Needs
<1>11. ASSUME NEW i \in DOMAIN R, NEW j \in DOMAIN R, i < j,
              Group(R[j]) = 0 \/ Group(R[j]) # Group(R[i])
       PROVE  PhaseOf(R, i) < PhaseOf(R, j)
  BY <1>6, <1>11, PhasesAreCounted
<1>12. ASSUME NEW m \in Range(R) \cap Detectors
       PROVE  /\ m \in Range(s)
              /\ \A c \in Requires(m) : \E i, j \in DOMAIN R :
                    R[i] = c /\ R[j] = m /\ PhaseOf(R, i) < PhaseOf(R, j)
              /\ m # "monitor" => \E i, j \in DOMAIN R :
                    R[i] = m /\ R[j] = "verify" /\ PhaseOf(R, i) < PhaseOf(R, j)
  <2>1. PICK j \in DOMAIN R : R[j] = m
    BY DEF Range
  <2>2. j \in 1..42 /\ AllModules[j] = m /\ m \in Planned(N)
    BY <1>9, <2>1, Needs
  <2>3. m \in Range(s)
    BY <1>10, <2>2, Needs
  <2>5. ASSUME NEW c \in Requires(m)
        PROVE  \E i \in DOMAIN R : R[i] = c /\ PhaseOf(R, i) < PhaseOf(R, j)
    <3>2. c \in Params /\ c \in Planned(N)
      BY <1>10, <2>3, Needs
    <3>3. PICK i \in 1..42 : AllModules[i] = c
      BY <3>2, Needs, ModulesArePlaced
    <3>4. i \in DOMAIN R /\ R[i] = c
      BY <1>8, <3>2, <3>3, Needs
    <3>5. Group(m) = 0 \/ Group(m) # Group(c)
      BY <3>2, GroupsApart
    <3>6. i < j
      BY <2>2, <3>2, <3>3, DetectorsBetween
    <3> QED
      BY <1>11, <2>1, <3>4, <3>5, <3>6
  <2>6. ASSUME m # "monitor"
        PROVE  \E k \in DOMAIN R : R[k] = "verify" /\ PhaseOf(R, j) < PhaseOf(R, k)
    <3>1. 41 \in DOMAIN R /\ R[41] = "verify"
      BY <1>8, <1>10, VerifyComesLast
    <3>2. j < 41
      BY <2>2, <2>6, DetectorsBetween
    <3> QED
      BY <1>11, <3>1, <3>2, GroupsApart
  <2> QED
    BY <2>1, <2>3, <2>5, <2>6
<1>13. "subdomain_enum" \in Range(R) => "subdomain_enum" \in Range(s)
  <2> SUFFICES ASSUME NEW i \in DOMAIN R, R[i] = "subdomain_enum"
               PROVE  "subdomain_enum" \in Range(s)
    BY DEF Range
  <2>1. "subdomain_enum" \in Modules
    BY DEF Modules, Range, AllModules
  <2>2. "subdomain_enum" \in Planned(N)
    BY <1>9, <2>1
  <2> QED
    BY <1>10, <2>2, Needs
<1>14. Range(s) \cap Modules \subseteq Range(R) \union {"subdomain_enum"}
  <2> SUFFICES ASSUME NEW m \in Range(s) \cap Modules, m # "subdomain_enum"
               PROVE  m \in Range(R)
    OBVIOUS
  <2>1. PICK i \in 1..42 : AllModules[i] = m
    BY ModulesArePlaced
  <2>2. i \in DOMAIN R /\ R[i] = m
    BY <1>8, <1>10, <2>1
  <2> QED
    BY <2>2 DEF Range
<1> QED
  BY <1>7, <1>12, <1>13, <1>14 DEF Feeds, R

--------------------------------------------------------------------------------
Requested == request \in Seq(Words)

\* Whatever an operator ticks, however much and in whatever order: no phase starts before
\* the phases that fill the tables its detectors read have ended, findings are verified
\* after the detectors that make them, each module runs once, and nothing runs that was
\* neither ticked nor is needed (PlanModules, moduleRequires, parallelPhaseIndices).
THEOREM PlansFeed == PlannerSpec => []PlanFeedsDetectors
<1>1. PlannerInit => Requested
  BY DEF PlannerInit, Requested
<1>2. Requested /\ [PlannerNext]_request => Requested'
  BY DEF PlannerNext, Tick, Requested
<1>3. Requested => PlanFeedsDetectors
  <2> SUFFICES ASSUME Requested PROVE \A haveUrls \in BOOLEAN : Feeds(request, haveUrls)
    BY DEF PlanFeedsDetectors, Feeds
  <2> QED
    BY FeedsWithDetector, FeedsWithoutDetector DEF Requested
<1> QED
  BY <1>1, <1>2, <1>3, PTL DEF PlannerSpec

--------------------------------------------------------------------------------
(***************************************************************************)
(* FindingLifecycle.                                                       *)
(***************************************************************************)
Proven == {"VERIFIED", "CONFIRMED"}
Goals == {"VERIFYING", "VERIFIED", "CONFIRMED", "REJECTED", "INCONCLUSIVE"}

\* A state that somebody holds of a candidate is one that it has been in (b), if it is
\* not the first.
Known(b, c, s) == s = "DETECTED" \/ s \in b[c]

\* A transition about to be swapped in is legal, and leaves no terminal state but to
\* reopen a rejection.
Legal(w) ==
    IF w.goal = "DETECTED" THEN w.from \in Reopenable
    ELSE w.goal \in Goals /\ w.from \in LegalFrom(w.goal) /\ w.from \notin Terminal

\* What a recorder has in hand.
WorkOK(b, w) ==
    /\ w.pc # "idle" => w.c \in Candidates
    /\ w.pc = "read" => w.goal \in Goals
    /\ w.pc = "reopen" => w.goal = "DETECTED"
    /\ w.pc = "cas" => Legal(w) /\ Known(b, w.c, w.from)
    /\ w.pc = "audit" => /\ w.from \in States /\ w.goal \in Goals \union {"DETECTED"}
                         /\ w.goal \in b[w.c]
    /\ w.pc = "project" => w.goal \in Goals /\ w.goal \in b[w.c]
    /\ w.pc = "upsert" => Known(b, w.c, w.state)

\* A recorder goes on with the same candidate, or rests.
Follows(w, v) == w.pc = "idle" \/ (v.pc # "idle" /\ w.c = v.c)

\* A row that names a candidate shows a state of it that is known; a row that names
\* none was there before.
RowOK(b, x) == x.link # NoCand => x.lifecycle = "LEGACY" \/ Known(b, x.link, x.lifecycle)
RowsOK ==
    /\ RowOK(been, row) /\ RowOK(been, scorer.seen)
    /\ row.status # Absent /\ row.link = NoCand => vouched
    /\ scorer.on => scorer.seen.status # Absent

\* What a recorder works on has been stored.
Stored == \A r \in Recorders : rec[r].pc # "idle" => cand[rec[r].c].status # Absent

LifeInv ==
    /\ LifeTypeOK
    /\ \A c \in Candidates : cand[c].status = Absent \/ Known(been, c, cand[c].status)
    /\ Stored
    /\ \A r \in Recorders : WorkOK(been, rec[r])
    /\ RowsOK
    /\ FindingsAreProven

--------------------------------------------------------------------------------
(* What the operators of the model return. *)

\* A recorder goes on to verify, or to show the state it holds.
LEMMA OnwardIs ==
    ASSUME LifeTypeOK, NEW r \in Recorders, NEW s \in States \union {Absent}
    PROVE  /\ Onward(r, s) \in Works /\ Onward(r, s).c = rec[r].c
           /\ \/ Onward(r, s).pc = "upsert" /\ Onward(r, s).state = s
              \/ Onward(r, s).pc = "read" /\ Onward(r, s).goal = "VERIFYING"
<1> DEFINE calm == [rec[r] EXCEPT !.from = Absent, !.ver = 0]
<1>1. calm \in Works /\ calm.c = rec[r].c
  BY DEF LifeTypeOK, Works
<1>2. Onward(r, s) = IF rec[r].verdict = "detected" \/ s = "CONFIRMED"
                     THEN [calm EXCEPT !.pc = "upsert", !.goal = "DETECTED", !.state = s]
                     ELSE [calm EXCEPT !.pc = "read", !.goal = "VERIFYING"]
  BY DEF Onward
<1> HIDE DEF calm
<1>3. {"DETECTED", "VERIFYING"} \subseteq States
  BY DEF States
<1>4. CASE rec[r].verdict = "detected" \/ s = "CONFIRMED"
  <2>1. Onward(r, s) = [calm EXCEPT !.pc = "upsert", !.goal = "DETECTED", !.state = s]
    BY <1>2, <1>4
  <2> QED
    BY <1>1, <1>3, <2>1 DEF Works
<1>5. CASE ~(rec[r].verdict = "detected" \/ s = "CONFIRMED")
  <2>1. Onward(r, s) = [calm EXCEPT !.pc = "read", !.goal = "VERIFYING"]
    BY <1>2, <1>5
  <2> QED
    BY <1>1, <1>3, <2>1 DEF Works
<1> QED
  BY <1>4, <1>5

\* After a transition, made or not, a recorder goes for the next one, or shows the
\* state that it was given.
LEMMA ReturnedIs ==
    ASSUME LifeTypeOK, NEW r \in Recorders, NEW s \in States \union {Absent}
    PROVE  /\ Returned(r, s) \in Works /\ Returned(r, s).c = rec[r].c
           /\ \/ Returned(r, s).pc = "upsert" /\ Returned(r, s).state = s
              \/ Returned(r, s).pc = "read" /\ Returned(r, s).goal \in Goals
<1> DEFINE next == CASE rec[r].goal = "VERIFYING" /\ s # "CONFIRMED" ->
                        (CASE rec[r].verdict = "verified" -> "VERIFIED"
                           [] rec[r].verdict = "rejected" -> "REJECTED"
                           [] OTHER -> "INCONCLUSIVE")
                  [] rec[r].goal = "VERIFIED" /\ s = "VERIFIED" -> "CONFIRMED"
                  [] OTHER -> Absent
           calm == [rec[r] EXCEPT !.from = Absent, !.ver = 0]
<1>1. next \in Goals \union {Absent}
  BY DEF Goals
<1>2. Returned(r, s) = IF next = Absent
                       THEN [calm EXCEPT !.pc = "upsert", !.goal = "DETECTED", !.state = s]
                       ELSE [calm EXCEPT !.pc = "read", !.goal = next]
  BY DEF Returned
<1>3. calm \in Works /\ calm.c = rec[r].c
  BY DEF LifeTypeOK, Works
<1> HIDE DEF next, calm
<1>4. Goals \subseteq States /\ "DETECTED" \in States
  BY DEF Goals, States
<1>5. CASE next = Absent
  <2>1. Returned(r, s) = [calm EXCEPT !.pc = "upsert", !.goal = "DETECTED", !.state = s]
    BY <1>2, <1>5
  <2> QED
    BY <1>3, <1>4, <2>1 DEF Works
<1>6. CASE next # Absent
  BY <1>1, <1>2, <1>3, <1>4, <1>6 DEF Works
<1> QED
  BY <1>5, <1>6

\* The status that a state gives a row.
LEMMA StatusForIs ==
    ASSUME NEW s
    PROVE  /\ StatusFor(s) \in {Absent, "finding", "rejected", "duplicate", "candidate"}
           /\ StatusFor(s) = "finding" <=> s \in Proven
           /\ StatusFor(s) = "rejected" <=> s = "REJECTED"
BY DEF StatusFor, Proven, Absent

\* What is known, held and shown stays so while candidates only gain states.
LEMMA WorkStays ==
    ASSUME NEW b, NEW d, \A c \in Candidates : b[c] \subseteq d[c],
           NEW w, WorkOK(b, w)
    PROVE  WorkOK(d, w)
BY DEF WorkOK, Known, Legal

LEMMA RowStays ==
    ASSUME NEW b, NEW d, \A c \in Candidates : b[c] \subseteq d[c],
           NEW x \in FindingRows, RowOK(b, x)
    PROVE  RowOK(d, x)
BY DEF RowOK, Known, FindingRows

--------------------------------------------------------------------------------
(* Types and what is known. *)

LEMMA InitLife == LifeInit => LifeInv
<1> SUFFICES ASSUME LifeInit PROVE LifeInv
  OBVIOUS
<1>1. {NoRow, LegacyRow} \subseteq FindingRows /\ Resting \in Works
  BY DEF NoRow, LegacyRow, FindingRows, Resting, Works, States, Verdicts, Absent
<1>2. /\ NoRow.link = NoCand /\ LegacyRow.link = NoCand /\ NoRow.status = Absent
      /\ NotScoring.seen = NoRow /\ ~NotScoring.on
      /\ NotScoring \in [on : BOOLEAN, seen : FindingRows]
  BY <1>1 DEF NoRow, LegacyRow, NotScoring
<1>3. WorkOK(been, Resting)
  BY DEF WorkOK, Resting
<1>4. LifeTypeOK
  BY <1>1, <1>2 DEF LifeInit, LifeTypeOK
<1>5. RowsOK /\ FindingsAreProven
  BY <1>2 DEF LifeInit, RowsOK, RowOK, FindingsAreProven
<1>6. Stored
  BY DEF LifeInit, Stored, Resting
<1> QED
  BY <1>3, <1>4, <1>5, <1>6 DEF LifeInit, LifeInv, Known

\* A step of a recorder that changes nothing but what it does.
LEMMA OnlyRecorder ==
    ASSUME LifeInv, NEW r \in Recorders, NEW w \in Works, WorkOK(been, w), Goto(r, w),
           Follows(w, rec[r]),
           UNCHANGED <<cand, trail, row, scorer, been, vouched>>,
           records' \in Nat, others' \in Nat
    PROVE  LifeInv'
<1>1. rec' = [rec EXCEPT ![r] = w]
  BY DEF Goto
<1>2. LifeTypeOK'
  BY <1>1 DEF LifeInv, LifeTypeOK
<1>3. \A q \in Recorders : WorkOK(been', rec'[q])
  BY <1>1 DEF LifeInv, LifeTypeOK
<1>4. Stored'
  BY <1>1 DEF LifeInv, LifeTypeOK, Stored, Follows
<1> QED
  BY <1>2, <1>3, <1>4 DEF LifeInv, Known, RowsOK, RowOK, FindingsAreProven

LEMMA LookKeeps ==
    ASSUME LifeInv, NEW r \in Recorders,
           Look(r) \/ ReopenRead(r) \/ LookAgain(r) \/ Read(r) \/ SwapLost(r) \/ Abandon(r)
    PROVE  LifeInv'
<1> DEFINE c == rec[r].c
           s == cand[c].status
<1>0. LifeTypeOK /\ WorkOK(been, rec[r]) /\ rec[r] \in Works /\ rec[r].pc # "idle"
  BY DEF LifeInv, LifeTypeOK, Look, ReopenRead, LookAgain, Read, SwapLost, Abandon, At
<1>1. c \in Candidates /\ s \in States \union {Absent} /\ Known(been, c, s)
  BY <1>0 DEF WorkOK, LifeInv, LifeTypeOK, Stored
<1>2. CASE Look(r)
  <2>1. c \in Candidates /\ s \in States \union {Absent} /\ Known(been, c, s)
    BY <1>1, <1>2 DEF Look, At
  <2>2. CASE s \in Reopenable
    <3> DEFINE w == [rec[r] EXCEPT !.pc = "reopen", !.goal = "DETECTED"]
    <3>1. w \in Works /\ WorkOK(been, w) /\ Follows(w, rec[r])
      BY <1>0, <2>1 DEF Works, States, WorkOK, Follows
    <3> QED
      BY <1>0, <1>2, <2>2, <3>1, OnlyRecorder DEF Look, LifeTypeOK
  <2>3. CASE s \notin Reopenable
    <3>1. Onward(r, s) \in Works /\ WorkOK(been, Onward(r, s)) /\ Follows(Onward(r, s), rec[r])
      BY <1>0, <2>1, OnwardIs DEF WorkOK, Goals, Follows
    <3> QED
      BY <1>0, <1>2, <2>3, <3>1, OnlyRecorder DEF Look, LifeTypeOK
  <2> QED
    BY <2>2, <2>3
<1>3. CASE ReopenRead(r)
  <2>1. c \in Candidates /\ s \in States \union {Absent} /\ Known(been, c, s) /\ cand[c].ver \in Nat
    BY <1>0, <1>1, <1>3 DEF ReopenRead, At, LifeTypeOK
  <2>2. CASE s \in Reopenable
    <3> DEFINE w == [rec[r] EXCEPT !.pc = "cas", !.from = s, !.ver = cand[c].ver]
    <3>1. w \in Works /\ WorkOK(been, w) /\ Follows(w, rec[r])
      BY <1>0, <1>3, <2>1, <2>2 DEF Works, WorkOK, Legal, ReopenRead, At, Follows
    <3> QED
      BY <1>0, <1>3, <2>2, <3>1, OnlyRecorder DEF ReopenRead, LifeTypeOK
  <2>3. CASE s \notin Reopenable
    <3> DEFINE w == [rec[r] EXCEPT !.pc = "look again"]
    <3>1. w \in Works /\ WorkOK(been, w) /\ Follows(w, rec[r])
      BY <1>0, <2>1 DEF Works, WorkOK, Follows
    <3> QED
      BY <1>0, <1>3, <2>3, <3>1, OnlyRecorder DEF ReopenRead, LifeTypeOK
  <2> QED
    BY <2>2, <2>3
<1>4. CASE LookAgain(r)
  <2>1. c \in Candidates /\ s \in States \union {Absent} /\ Known(been, c, s)
    BY <1>1, <1>4 DEF LookAgain, At
  <2>2. Onward(r, s) \in Works /\ WorkOK(been, Onward(r, s)) /\ Follows(Onward(r, s), rec[r])
    BY <1>0, <2>1, OnwardIs DEF WorkOK, Goals, Follows
  <2> QED
    BY <1>0, <1>4, <2>2, OnlyRecorder DEF LookAgain, LifeTypeOK
<1>5. CASE Read(r)
  <2>1. c \in Candidates /\ s \in States \union {Absent} /\ Known(been, c, s) /\ cand[c].ver \in Nat
    BY <1>0, <1>1, <1>5 DEF Read, At, LifeTypeOK
  <2> DEFINE over == s = rec[r].goal \/ s \in Terminal \/ s \notin LegalFrom(rec[r].goal)
  <2>2. CASE over
    <3>1. Returned(r, s) \in Works /\ WorkOK(been, Returned(r, s)) /\ Follows(Returned(r, s), rec[r])
      BY <1>0, <2>1, ReturnedIs DEF WorkOK, Follows
    <3> QED
      BY <1>0, <1>5, <2>2, <3>1, OnlyRecorder DEF Read, LifeTypeOK
  <2>3. CASE ~over
    <3> DEFINE w == [rec[r] EXCEPT !.pc = "cas", !.from = s, !.ver = cand[c].ver]
    <3>1. w \in Works /\ w.pc = "cas" /\ w.c = c /\ w.from = s /\ w.goal = rec[r].goal
      BY <1>0, <2>1 DEF Works
    <3>2. rec[r].goal \in Goals
      BY <1>0, <1>5 DEF Read, At, WorkOK
    <3>3. WorkOK(been, w) /\ Follows(w, rec[r])
      BY <1>0, <2>1, <2>3, <3>1, <3>2 DEF WorkOK, Legal, Goals, Follows
    <3> QED
      BY <1>0, <1>5, <2>3, <3>1, <3>3, OnlyRecorder DEF Read, LifeTypeOK
  <2> QED
    BY <2>2, <2>3
<1>6. CASE SwapLost(r)
  <2>1. /\ c \in Candidates /\ rec[r].from \in States \union {Absent}
        /\ Known(been, c, rec[r].from)
    BY <1>0, <1>1, <1>6 DEF SwapLost, At, Works, WorkOK
  <2>2. CASE rec[r].goal = "DETECTED"
    <3> DEFINE w == [rec[r] EXCEPT !.pc = "look again"]
    <3>1. w \in Works /\ WorkOK(been, w) /\ Follows(w, rec[r])
      BY <1>0, <2>1 DEF Works, WorkOK, Follows
    <3> QED
      BY <1>0, <1>6, <2>2, <3>1, OnlyRecorder DEF SwapLost, LifeTypeOK
  <2>3. CASE rec[r].goal # "DETECTED"
    <3>1. Returned(r, rec[r].from) \in Works /\ WorkOK(been, Returned(r, rec[r].from)) /\ Follows(Returned(r, rec[r].from), rec[r])
      BY <1>0, <2>1, ReturnedIs DEF WorkOK, Follows
    <3> QED
      BY <1>0, <1>6, <2>3, <3>1, OnlyRecorder DEF SwapLost, LifeTypeOK
  <2> QED
    BY <2>2, <2>3
<1>7. CASE Abandon(r)
  <2>1. Resting \in Works /\ WorkOK(been, Resting) /\ Follows(Resting, rec[r])
    BY DEF Resting, Works, WorkOK, States, Verdicts, Absent, Follows
  <2> QED
    BY <1>0, <1>7, <2>1, OnlyRecorder DEF Abandon, LifeTypeOK
<1> QED
  BY <1>2, <1>3, <1>4, <1>5, <1>6, <1>7

\* A new observation.
LEMMA StoreKeeps ==
    ASSUME LifeInv, NEW r \in Recorders, NEW c \in Candidates, NEW v \in Verdicts,
           NEW visible \in BOOLEAN, Store(r, c, v, visible)
    PROVE  LifeInv'
<1> DEFINE w == [Resting EXCEPT !.pc = "look", !.c = c, !.verdict = v, !.visible = visible]
<1>1. w \in Works /\ WorkOK(been, w)
  BY DEF Resting, Works, WorkOK, States, Verdicts, Absent
<1>2. rec' = [rec EXCEPT ![r] = w]
  BY DEF Store, Goto
<1> HIDE DEF w
<1>3. cand' \in [Candidates -> [status : States \union {Absent}, ver : Nat]]
  <2>1. [status |-> "DETECTED", ver |-> 0] \in [status : States \union {Absent}, ver : Nat]
    BY DEF States
  <2> QED
    BY <2>1 DEF Store, LifeInv, LifeTypeOK
<1>4. LifeTypeOK'
  BY <1>1, <1>2, <1>3 DEF Store, LifeInv, LifeTypeOK
<1>5. \A x \in Candidates : cand'[x].status = Absent \/ Known(been, x, cand'[x].status)
  BY DEF Store, LifeInv, LifeTypeOK, Known
<1>6. \A q \in Recorders : WorkOK(been, rec'[q])
  BY <1>1, <1>2 DEF LifeInv, LifeTypeOK
<1>7. Stored'
  <2>1. \A x \in Candidates : cand[x].status # Absent => cand'[x].status # Absent
    BY DEF Store, LifeInv, LifeTypeOK
  <2>2. cand'[c].status # Absent /\ w.c = c
    BY DEF Store, LifeInv, LifeTypeOK, Absent, w, Resting
  <2> QED
    BY <1>2, <2>1, <2>2 DEF LifeInv, LifeTypeOK, Stored, WorkOK
<1> QED
  BY <1>4, <1>5, <1>6, <1>7 DEF Store, LifeInv, RowsOK, FindingsAreProven

\* A transition swapped in.
LEMMA SwapKeeps ==
    ASSUME LifeInv, NEW r \in Recorders, Swap(r)
    PROVE  LifeInv'
<1> DEFINE c == rec[r].c
           g == rec[r].goal
           w == [rec[r] EXCEPT !.pc = "audit"]
<1>1. /\ LifeTypeOK /\ WorkOK(been, rec[r]) /\ rec[r] \in Works /\ rec[r].pc = "cas"
  BY DEF LifeInv, LifeTypeOK, Swap, At
<1>2. /\ c \in Candidates /\ Legal(rec[r]) /\ g \in States
      /\ rec[r].from \in States
  BY <1>1 DEF WorkOK, Works, Legal, LegalFrom, Reopenable, Goals, States
<1>3. /\ cand' = [cand EXCEPT ![c] = [status |-> g, ver |-> cand[c].ver + 1]]
      /\ been' = [been EXCEPT ![c] = been[c] \union {g}]
      /\ rec' = [rec EXCEPT ![r] = w]
  BY <1>1, <1>2 DEF Swap, Goto, LifeTypeOK
<1>4. /\ \A x \in Candidates : been[x] \subseteq been'[x]
      /\ g \in been'[c]
  BY <1>1, <1>2, <1>3 DEF LifeTypeOK
<1>5. w \in Works /\ WorkOK(been', w)
  <2>1. w \in Works /\ w.pc = "audit" /\ w.c = c /\ w.goal = g /\ w.from = rec[r].from
    BY <1>1 DEF Works
  <2>2. g \in Goals \union {"DETECTED"}
    BY <1>2 DEF Legal
  <2> QED
    BY <1>2, <1>4, <2>1, <2>2 DEF WorkOK
<1>6. LifeTypeOK'
  <2>1. [status |-> g, ver |-> cand[c].ver + 1] \in [status : States \union {Absent}, ver : Nat]
    BY <1>1, <1>2 DEF LifeTypeOK
  <2>2. been[c] \union {g} \in SUBSET States
    BY <1>1, <1>2 DEF LifeTypeOK
  <2>3. cand' \in [Candidates -> [status : States \union {Absent}, ver : Nat]]
    BY <1>1, <1>2, <1>3, <2>1 DEF LifeTypeOK
  <2>4. been' \in [Candidates -> SUBSET States]
    BY <1>1, <1>2, <1>3, <2>2 DEF LifeTypeOK
  <2>5. rec' \in [Recorders -> Works]
    BY <1>1, <1>3, <1>5 DEF LifeTypeOK
  <2> QED
    BY <1>1, <2>3, <2>4, <2>5 DEF Swap, LifeTypeOK
<1>7. \A x \in Candidates : cand'[x].status = Absent \/ Known(been', x, cand'[x].status)
  BY <1>1, <1>3, <1>4 DEF LifeInv, LifeTypeOK, Known
<1>8. \A q \in Recorders : WorkOK(been', rec'[q])
  <2>1. \A q \in Recorders : WorkOK(been', rec[q])
    BY <1>4, WorkStays DEF LifeInv
  <2> QED
    BY <1>1, <1>3, <1>5, <2>1 DEF LifeTypeOK
<1>9. RowsOK'
  <2>1. RowOK(been', row) /\ RowOK(been', scorer.seen)
    BY <1>1, <1>4, RowStays DEF LifeInv, RowsOK, LifeTypeOK
  <2> QED
    BY <2>1 DEF Swap, LifeInv, RowsOK
<1>10. FindingsAreProven'
  BY <1>1, <1>4 DEF Swap, LifeInv, FindingsAreProven, LifeTypeOK, FindingRows
<1>11. Stored'
  <2>1. g # Absent /\ w.c = c
    BY <1>1, <1>2 DEF States, Absent, Works
  <2> QED
    BY <1>1, <1>3, <2>1 DEF LifeInv, LifeTypeOK, Stored, WorkOK
<1> QED
  BY <1>6, <1>7, <1>8, <1>9, <1>10, <1>11 DEF LifeInv

\* The audit entry of a transition.
LEMMA AuditKeeps ==
    ASSUME LifeInv, NEW r \in Recorders, Audit(r)
    PROVE  LifeInv'
<1> DEFINE e == [c |-> rec[r].c, from |-> rec[r].from, to |-> rec[r].goal, ver |-> rec[r].ver + 1]
           w == IF rec[r].goal = "DETECTED" THEN Onward(r, "DETECTED")
                ELSE [rec[r] EXCEPT !.pc = "project"]
<1>1. LifeTypeOK /\ WorkOK(been, rec[r]) /\ rec[r] \in Works /\ rec[r].pc = "audit"
  BY DEF LifeInv, LifeTypeOK, Audit, At
<1>2. e \in [c : Candidates, from : States, to : States, ver : Nat]
  <2>1. /\ rec[r].c \in Candidates /\ rec[r].from \in States
        /\ rec[r].goal \in States
    BY <1>1 DEF WorkOK, Works
  <2>2. rec[r].ver \in Nat
    BY <1>1 DEF Works
  <2> QED
    BY <2>1, <2>2
<1>3. w \in Works /\ WorkOK(been, w)
  <2>1. CASE rec[r].goal = "DETECTED"
    <3>1. "DETECTED" \in States \union {Absent}
      BY DEF States
    <3> QED
      BY <1>1, <2>1, <3>1, OnwardIs DEF WorkOK, Goals, Known
  <2>2. CASE rec[r].goal # "DETECTED"
    BY <1>1, <2>2 DEF WorkOK, Works
  <2> QED
    BY <2>1, <2>2
<1>4. rec' = [rec EXCEPT ![r] = w] /\ trail' = trail \union {e}
  BY DEF Audit, Goto
<1> HIDE DEF w, e
<1>5. LifeTypeOK'
  BY <1>1, <1>2, <1>3, <1>4 DEF Audit, LifeTypeOK
<1>6. \A q \in Recorders : WorkOK(been', rec'[q])
  BY <1>1, <1>3, <1>4 DEF Audit, LifeInv, LifeTypeOK
<1>7. Stored'
  <2>1. w.pc # "idle" => w.c = rec[r].c
    <3>1. "DETECTED" \in States \union {Absent}
      BY DEF States
    <3> QED
      BY <1>1, <3>1, OnwardIs DEF w, Works
  <2> QED
    BY <1>1, <1>4, <2>1 DEF Audit, LifeInv, LifeTypeOK, Stored
<1> QED
  BY <1>5, <1>6, <1>7 DEF Audit, LifeInv, Known, RowsOK, RowOK, FindingsAreProven

\* A step of a recorder that writes the row of its candidate.
LEMMA RowWritten ==
    ASSUME LifeInv, NEW r \in Recorders, NEW w \in Works, WorkOK(been, w), Goto(r, w),
           Follows(w, rec[r]),
           NEW x \in FindingRows, row' = x, RowOK(been, x),
           x.status # Absent /\ x.link = NoCand => vouched,
           x.status = "finding" /\ ~vouched /\ x.link # NoCand => been[x.link] \cap Proven # {},
           UNCHANGED <<cand, trail, scorer, been, vouched, records, others>>
    PROVE  LifeInv'
<1>1. rec' = [rec EXCEPT ![r] = w]
  BY DEF Goto
<1>2. LifeTypeOK'
  BY <1>1 DEF LifeInv, LifeTypeOK
<1>3. \A q \in Recorders : WorkOK(been', rec'[q])
  BY <1>1 DEF LifeInv, LifeTypeOK
<1>4. RowsOK'
  BY DEF LifeInv, RowsOK, RowOK
<1>5. FindingsAreProven'
  BY DEF FindingsAreProven, Proven
<1>6. Stored'
  BY <1>1 DEF LifeInv, LifeTypeOK, Stored, Follows
<1> QED
  BY <1>2, <1>3, <1>4, <1>5, <1>6 DEF LifeInv, Known

LEMMA ProjectKeeps ==
    ASSUME LifeInv, NEW r \in Recorders, Project(r)
    PROVE  LifeInv'
<1> DEFINE c == rec[r].c
           s == rec[r].goal
           x == Projected(c, s)
<1>1. LifeTypeOK /\ WorkOK(been, rec[r]) /\ rec[r] \in Works /\ rec[r].pc = "project"
  BY DEF LifeInv, LifeTypeOK, Project, At
<1>2. c \in Candidates /\ s \in Goals /\ s \in been[c] /\ s \in States \union {Absent}
  BY <1>1 DEF WorkOK, Works
<1>3. /\ Returned(r, s) \in Works /\ WorkOK(been, Returned(r, s))
      /\ Follows(Returned(r, s), rec[r])
  BY <1>1, <1>2, ReturnedIs DEF WorkOK, Known, Follows
<1>4. CASE x = row
  BY <1>1, <1>3, <1>4, RowWritten
     DEF Project, LifeInv, LifeTypeOK, RowsOK, FindingsAreProven, Proven
<1>5. CASE x # row
  <2>1. /\ row.status # Absent /\ row.link \in {c, NoCand}
        /\ x = [status |-> IF StatusFor(s) = Absent THEN row.status ELSE StatusFor(s),
                lifecycle |-> s, link |-> c]
    BY <1>5 DEF Projected
  <2>2. x \in FindingRows /\ RowOK(been, x) /\ x.link = c /\ c # NoCand
    BY <1>1, <1>2, <2>1, StatusForIs, LifecycleAssumption
       DEF FindingRows, RowOK, Known, LifeTypeOK, Goals, States
  <2>3. ASSUME x.status = "finding", ~vouched PROVE been[c] \cap Proven # {}
    <3>1. CASE StatusFor(s) = Absent
      <4>1. row.status = "finding"
        BY <2>1, <2>3, <3>1
      <4>2. row.link = c
        BY <2>1, <2>3 DEF LifeInv, RowsOK
      <4> QED
        BY <2>2, <2>3, <4>1, <4>2 DEF LifeInv, FindingsAreProven, Proven
    <3>2. CASE StatusFor(s) # Absent
      BY <1>2, <2>1, <2>3, <3>2, StatusForIs
    <3> QED
      BY <3>1, <3>2
  <2> QED
    BY <1>3, <2>2, <2>3, RowWritten DEF Project
<1> QED
  BY <1>4, <1>5

LEMMA UpsertKeeps ==
    ASSUME LifeInv, NEW r \in Recorders, Upsert(r)
    PROVE  LifeInv'
<1> DEFINE c == rec[r].c
           s == rec[r].state
           x == Upserted(c, s, rec[r].visible)
<1>1. LifeTypeOK /\ WorkOK(been, rec[r]) /\ rec[r] \in Works /\ rec[r].pc = "upsert"
  BY DEF LifeInv, LifeTypeOK, Upsert, At
<1>2. c \in Candidates /\ c # NoCand /\ Known(been, c, s) /\ s \in States
  BY <1>1, LifecycleAssumption DEF WorkOK, Works, Known, States, LifeTypeOK
<1>3. Resting \in Works /\ WorkOK(been, Resting) /\ Follows(Resting, rec[r])
  BY DEF Resting, Works, WorkOK, States, Verdicts, Absent, Follows
<1>4. CASE x = row
  BY <1>1, <1>3, <1>4, RowWritten
     DEF Upsert, LifeInv, LifeTypeOK, RowsOK, FindingsAreProven, Proven
<1>5. CASE x = [status |-> "finding", lifecycle |-> s, link |-> c] /\ s \in Proven
  <2>1. x \in FindingRows /\ RowOK(been, x) /\ x.link = c
    BY <1>2, <1>5 DEF FindingRows, RowOK, Proven, States
  <2>2. s \in been[c]
    BY <1>2, <1>5 DEF Known, Proven, Absent
  <2> QED
    BY <1>2, <1>3, <1>5, <2>1, <2>2, RowWritten DEF Upsert
<1>6. CASE x = [row EXCEPT !.status = "rejected", !.lifecycle = s] /\ s = "REJECTED" /\ row.link = c
  <2>1. x \in FindingRows /\ RowOK(been, x) /\ x.link = c /\ x.status = "rejected"
    BY <1>1, <1>2, <1>6 DEF FindingRows, RowOK, LifeTypeOK, States
  <2> QED
    BY <1>2, <1>3, <2>1, RowWritten DEF Upsert
<1>7. CASE x = [status |-> "candidate", lifecycle |-> s, link |-> c]
  <2>1. x \in FindingRows /\ RowOK(been, x) /\ x.link = c /\ x.status = "candidate"
    BY <1>2, <1>7 DEF FindingRows, RowOK
  <2> QED
    BY <1>2, <1>3, <2>1, RowWritten DEF Upsert
<1>8. \/ x = row
      \/ x = [status |-> "finding", lifecycle |-> s, link |-> c] /\ s \in Proven
      \/ x = [row EXCEPT !.status = "rejected", !.lifecycle = s] /\ s = "REJECTED" /\ row.link = c
      \/ x = [status |-> "candidate", lifecycle |-> s, link |-> c]
  BY StatusForIs DEF Upserted
<1> QED
  BY <1>4, <1>5, <1>6, <1>7, <1>8

LEMMA ScorerKeeps ==
    ASSUME LifeInv, ScoreRead \/ ScoreWrite \/ Triage
    PROVE  LifeInv'
<1>0. LifeTypeOK /\ RowsOK /\ FindingsAreProven
  BY DEF LifeInv
<1>1. CASE ScoreRead
  <2>1. LifeTypeOK'
    BY <1>0, <1>1 DEF ScoreRead, LifeTypeOK
  <2> QED
    BY <1>0, <1>1, <2>1 DEF ScoreRead, LifeInv, Stored, Known, RowsOK, RowOK, FindingsAreProven
<1>2. CASE ScoreWrite
  <2>1. PICK high \in BOOLEAN : row' = [row EXCEPT !.status = Scored(scorer.seen, high)]
    BY <1>2 DEF ScoreWrite
  <2>2. Scored(scorer.seen, high) \in {"rejected", "finding", "candidate"}
    BY DEF Scored
  <2>3. row' \in FindingRows /\ row'.lifecycle = row.lifecycle /\ row'.link = row.link
        /\ row'.status = Scored(scorer.seen, high)
    BY <1>0, <2>1, <2>2 DEF LifeTypeOK, FindingRows, Absent
  <2>4. NotScoring \in [on : BOOLEAN, seen : FindingRows] /\ RowOK(been, NotScoring.seen)
        /\ ~NotScoring.on
    BY DEF NotScoring, NoRow, FindingRows, RowOK, Absent
  <2>5. LifeTypeOK'
    BY <1>0, <1>2, <2>3, <2>4 DEF ScoreWrite, LifeTypeOK
  <2>6. RowsOK'
    BY <1>0, <1>2, <2>3, <2>4 DEF ScoreWrite, RowsOK, RowOK
  <2>7. FindingsAreProven'
    <3>1. SUFFICES ASSUME row'.status = "finding", ~vouched', row'.link # NoCand
                   PROVE  been'[row'.link] \cap {"VERIFIED", "CONFIRMED"} # {}
      BY DEF FindingsAreProven
    <3>2. row = scorer.seen /\ been' = been
      BY <1>2, <3>1 DEF ScoreWrite
    <3>3. row.lifecycle \in {"CONFIRMED", "VERIFIED"}
      BY <2>3, <3>1, <3>2 DEF Scored, Pending
    <3>4. row.lifecycle \in been[row.link]
      BY <1>0, <2>3, <3>1, <3>3 DEF RowsOK, RowOK, Known
    <3> QED
      BY <2>3, <3>2, <3>3, <3>4
  <2> QED
    BY <1>2, <2>5, <2>6, <2>7 DEF ScoreWrite, LifeInv, Stored, Known
<1>3. CASE Triage
  <2>1. row' \in FindingRows /\ row'.lifecycle = row.lifecycle /\ row'.link = row.link
    BY <1>0, <1>3 DEF Triage, LifeTypeOK, FindingRows
  <2>2. LifeTypeOK'
    BY <1>0, <1>3, <2>1 DEF Triage, LifeTypeOK
  <2> QED
    BY <1>0, <1>3, <2>1, <2>2 DEF Triage, LifeInv, Stored, Known, RowsOK, RowOK, FindingsAreProven
<1> QED
  BY <1>1, <1>2, <1>3

LEMMA StepLife == LifeInv /\ [LifeNext]_lifeVars => LifeInv'
<1> SUFFICES ASSUME LifeInv, [LifeNext]_lifeVars PROVE LifeInv'
  OBVIOUS
<1>1. ASSUME NEW r \in Recorders, NEW c \in Candidates, NEW v \in Verdicts,
             NEW visible \in BOOLEAN, Store(r, c, v, visible)
      PROVE  LifeInv'
  BY <1>1, StoreKeeps
<1>2. ASSUME NEW r \in Recorders, RecorderStep(r) PROVE LifeInv'
  BY <1>2, LookKeeps, SwapKeeps, AuditKeeps, ProjectKeeps, UpsertKeeps DEF RecorderStep
<1>3. ASSUME NEW r \in Recorders, Abandon(r) PROVE LifeInv'
  BY <1>3, LookKeeps
<1>4. CASE ScoreRead \/ ScoreWrite \/ Triage
  BY <1>4, ScorerKeeps
<1>5. CASE UNCHANGED lifeVars
  BY <1>5 DEF lifeVars, LifeInv, LifeTypeOK, Stored, Known, WorkOK, Legal, RowsOK, RowOK,
              FindingsAreProven
<1> QED
  BY <1>1, <1>2, <1>3, <1>4, <1>5 DEF LifeNext

LEMMA AlwaysLife == LifeSpec => []LifeInv
<1>1. LifeInit => LifeInv
  BY InitLife
<1>2. LifeInv /\ [LifeNext]_lifeVars => LifeInv'
  BY StepLife
<1> QED
  BY <1>1, <1>2, PTL DEF LifeSpec

\* The variables keep their types.
THEOREM LifeTypeCorrect == LifeSpec => []LifeTypeOK
<1>1. LifeInv => LifeTypeOK
  BY DEF LifeInv
<1> QED
  BY <1>1, AlwaysLife, PTL

\* No detection, inconclusive result or score alone makes a finding: a row that shows
\* a candidate as one shows one that a verifier proved, or is vouched for otherwise.
THEOREM FindingsProven == LifeSpec => []FindingsAreProven
<1>1. LifeInv => FindingsAreProven
  BY DEF LifeInv
<1> QED
  BY <1>1, AlwaysLife, PTL

--------------------------------------------------------------------------------
(* What no step does. *)

\* Only a legal transition, swapped in on the state that was read, moves a candidate.
LEMMA OnlyLegalMoves ==
    ASSUME LifeInv, LifeNext, NEW c \in Candidates, cand[c].status # Absent,
           cand'[c].status # cand[c].status
    PROVE  cand[c].status \notin Terminal \/ cand[c].status \in Reopenable
<1>1. PICK r \in Recorders : Swap(r)
  <2>1. ASSUME NEW r \in Recorders, NEW d \in Candidates, NEW v \in Verdicts,
               NEW visible \in BOOLEAN, Store(r, d, v, visible)
        PROVE  FALSE
    BY <2>1 DEF Store, LifeInv, LifeTypeOK
  <2>2. ASSUME NEW r \in Recorders, RecorderStep(r), ~Swap(r) PROVE FALSE
    BY <2>2 DEF RecorderStep, Look, ReopenRead, LookAgain, Read, SwapLost, Audit, Project, Upsert
  <2>3. ASSUME NEW r \in Recorders, Abandon(r) PROVE FALSE
    BY <2>3 DEF Abandon
  <2>4. CASE ScoreRead \/ ScoreWrite \/ Triage
    BY <2>4 DEF ScoreRead, ScoreWrite, Triage
  <2> QED
    BY <2>1, <2>2, <2>3, <2>4 DEF LifeNext
<1>2. rec[r].c = c
  BY <1>1 DEF Swap, LifeInv, LifeTypeOK
<1>3. cand[c].status = rec[r].from /\ Legal(rec[r])
  BY <1>1, <1>2 DEF Swap, At, Matches, LifeInv, WorkOK
<1> QED
  BY <1>3 DEF Legal

\* Proven evidence stays, whatever a late or stale verifier concludes.
THEOREM ConfirmedStays == LifeSpec => ConfirmedIsSticky
<1>1. LifeInv /\ [LifeNext]_lifeVars =>
         [\A c \in Candidates : cand[c].status = "CONFIRMED" => cand'[c].status = "CONFIRMED"]_lifeVars
  <2> SUFFICES ASSUME LifeInv, LifeNext, NEW c \in Candidates, cand[c].status = "CONFIRMED"
               PROVE  cand'[c].status = "CONFIRMED"
    OBVIOUS
  <2> QED
    BY OnlyLegalMoves DEF Terminal, Reopenable, Absent
<1> QED
  BY <1>1, AlwaysLife, PTL DEF LifeSpec, ConfirmedIsSticky

\* A finding is struck out only for its own candidate, and only if that was rejected.
THEOREM RejectionSpares == LifeSpec => RejectionSparesOthers
<1>1. LifeInv /\ [LifeNext]_lifeVars => [OwnRejectionOnly]_lifeVars
  <2> SUFFICES ASSUME LifeInv, LifeNext, row.status = "finding", row'.status = "rejected",
                      UNCHANGED scorer
               PROVE  row.link # NoCand /\ "REJECTED" \in been[row.link]
    BY DEF OwnRejectionOnly
  <2>1. ~ScoreWrite
    BY DEF ScoreWrite, NotScoring
  <2>2. PICK r \in Recorders : Project(r) \/ Upsert(r)
    <3>1. ASSUME NEW r \in Recorders, NEW c \in Candidates, NEW v \in Verdicts,
                 NEW visible \in BOOLEAN, Store(r, c, v, visible)
          PROVE  FALSE
      BY <3>1 DEF Store
    <3>2. ASSUME NEW r \in Recorders, RecorderStep(r), ~(Project(r) \/ Upsert(r)) PROVE FALSE
      BY <3>2 DEF RecorderStep, Look, ReopenRead, LookAgain, Read, Swap, SwapLost, Audit
    <3>3. ASSUME NEW r \in Recorders, Abandon(r) PROVE FALSE
      BY <3>3 DEF Abandon
    <3>4. ~ScoreRead /\ ~Triage
      BY DEF ScoreRead, Triage, LifeInv, LifeTypeOK, FindingRows
    <3> QED
      BY <2>1, <3>1, <3>2, <3>3, <3>4 DEF LifeNext
  <2>3. LifeTypeOK /\ WorkOK(been, rec[r]) /\ rec[r] \in Works
    BY DEF LifeInv, LifeTypeOK
  <2>4. CASE Project(r)
    <3>1. /\ row' # row /\ row' = Projected(rec[r].c, rec[r].goal)
          /\ rec[r].goal \in been[rec[r].c] /\ rec[r].c \in Candidates
      BY <2>3, <2>4 DEF Project, At, WorkOK
    <3>2. /\ row'.status = IF StatusFor(rec[r].goal) = Absent THEN row.status
                           ELSE StatusFor(rec[r].goal)
          /\ row.link = rec[r].c \/ (row.link = NoCand /\ Adopts(rec[r].goal))
      BY <3>1 DEF Projected
    <3>3. rec[r].goal = "REJECTED"
      BY <3>2, StatusForIs
    <3> QED
      BY <3>1, <3>2, <3>3, LifecycleAssumption DEF Adopts
  <2>5. CASE Upsert(r)
    <3>1. /\ row' # row /\ row' = Upserted(rec[r].c, rec[r].state, rec[r].visible)
          /\ Known(been, rec[r].c, rec[r].state) /\ rec[r].c \in Candidates
      BY <2>3, <2>5 DEF Upsert, At, WorkOK
    <3>2. row.link = rec[r].c /\ rec[r].state = "REJECTED"
      BY <3>1 DEF Upserted
    <3> QED
      BY <3>1, <3>2, LifecycleAssumption DEF Known
  <2> QED
    BY <2>2, <2>4, <2>5
<1> QED
  BY <1>1, AlwaysLife, PTL DEF LifeSpec, RejectionSparesOthers

--------------------------------------------------------------------------------
(* The audit trail.  A transition that was swapped in and not yet entered counts *)
(* as an entry: the swap decides the story, the entry only tells it.             *)

Owed(w) == [c |-> w.c, from |-> w.from, to |-> w.goal, ver |-> w.ver + 1]
Entries == trail \union {Owed(rec[r]) : r \in {q \in Recorders : rec[q].pc = "audit"}}

StoryOK ==
    /\ \A c \in Candidates : cand[c].status = Absent => cand[c].ver = 0
    /\ \A e \in Entries :
          /\ e.ver >= 1 /\ e.ver <= cand[e.c].ver
          /\ e.ver = cand[e.c].ver => e.to = cand[e.c].status
          /\ \A f \in Entries : f.c = e.c =>
                (f.ver = e.ver => f = e) /\ (f.ver = e.ver + 1 => f.from = e.to)

LEMMA EntriesTyped ==
    ASSUME LifeInv
    PROVE  Entries \subseteq [c : Candidates, from : States, to : States, ver : Nat]
<1> SUFFICES ASSUME NEW r \in Recorders, rec[r].pc = "audit"
             PROVE  Owed(rec[r]) \in [c : Candidates, from : States, to : States, ver : Nat]
  BY DEF Entries, LifeInv, LifeTypeOK
<1>1. rec[r] \in Works /\ WorkOK(been, rec[r])
  BY DEF LifeInv, LifeTypeOK
<1>2. /\ rec[r].c \in Candidates /\ rec[r].from \in States
      /\ rec[r].goal \in States
  BY <1>1 DEF WorkOK, Works
<1>3. rec[r].ver \in Nat
  BY <1>1 DEF Works
<1> QED
  BY <1>2, <1>3 DEF Owed

\* A step that makes no transition keeps the story.
LEMMA NothingNew ==
    ASSUME StoryOK, cand' = cand, Entries' \subseteq Entries
    PROVE  StoryOK'
BY DEF StoryOK

\* A recorder that does not come from a swap owes nothing new.
LEMMA OwesNothingNew ==
    ASSUME LifeInv, NEW r \in Recorders, NEW w, Goto(r, w), w.pc # "audit", trail' = trail
    PROVE  Entries' \subseteq Entries
BY DEF Goto, Entries, LifeInv, LifeTypeOK

LEMMA RecorderTellsNothing ==
    ASSUME LifeInv, StoryOK, NEW r \in Recorders,
           Look(r) \/ ReopenRead(r) \/ LookAgain(r) \/ Read(r) \/ SwapLost(r) \/ Abandon(r)
              \/ Project(r) \/ Upsert(r)
    PROVE  StoryOK'
<1> DEFINE c == rec[r].c
           s == cand[c].status
<1>1. LifeTypeOK /\ rec[r] \in Works /\ rec[r].pc # "idle" /\ c \in Candidates
  BY DEF LifeInv, LifeTypeOK, WorkOK, Look, ReopenRead, LookAgain, Read, SwapLost, Abandon, Project,
         Upsert, At
<1>2. s \in States \union {Absent} /\ rec[r].from \in States \union {Absent}
      /\ rec[r].goal \in States \union {Absent}
  BY <1>1 DEF LifeTypeOK, Works
<1>3. ASSUME NEW w, Goto(r, w), w.pc # "audit", trail' = trail, cand' = cand PROVE StoryOK'
  BY <1>3, OwesNothingNew, NothingNew
<1>4. CASE Look(r)
  <2>1. [rec[r] EXCEPT !.pc = "reopen", !.goal = "DETECTED"].pc # "audit" /\ Onward(r, s).pc # "audit"
    BY <1>1, <1>2, OnwardIs DEF Works
  <2> QED
    BY <1>3, <1>4, <2>1 DEF Look
<1>5. CASE ReopenRead(r)
  <2>1. /\ [rec[r] EXCEPT !.pc = "cas", !.from = s, !.ver = cand[c].ver].pc # "audit"
        /\ [rec[r] EXCEPT !.pc = "look again"].pc # "audit"
    BY <1>1 DEF Works
  <2> QED
    BY <1>3, <1>5, <2>1 DEF ReopenRead
<1>6. CASE LookAgain(r)
  BY <1>1, <1>2, <1>3, <1>6, OnwardIs DEF LookAgain
<1>7. CASE Read(r)
  <2>1. /\ [rec[r] EXCEPT !.pc = "cas", !.from = s, !.ver = cand[c].ver].pc # "audit"
        /\ Returned(r, s).pc # "audit"
    BY <1>1, <1>2, ReturnedIs DEF Works
  <2> QED
    BY <1>3, <1>7, <2>1 DEF Read
<1>8. CASE SwapLost(r)
  <2>1. /\ [rec[r] EXCEPT !.pc = "look again"].pc # "audit"
        /\ Returned(r, rec[r].from).pc # "audit"
    BY <1>1, <1>2, ReturnedIs DEF Works
  <2> QED
    BY <1>3, <1>8, <2>1 DEF SwapLost
<1>9. CASE Abandon(r)
  BY <1>3, <1>9 DEF Abandon, Resting
<1>10. CASE Project(r)
  BY <1>1, <1>2, <1>3, <1>10, ReturnedIs DEF Project
<1>11. CASE Upsert(r)
  BY <1>3, <1>11 DEF Upsert, Resting
<1> QED
  BY <1>4, <1>5, <1>6, <1>7, <1>8, <1>9, <1>10, <1>11

\* A swap on the version that was read adds the next chapter, and there is one.
LEMMA SwapAddsOne ==
    ASSUME LifeInv, StoryOK, NEW r \in Recorders, Swap(r)
    PROVE  StoryOK'
<1> DEFINE c == rec[r].c
           new == Owed(rec[r])
           w == [rec[r] EXCEPT !.pc = "audit"]
<1>1. /\ LifeTypeOK /\ rec[r] \in Works /\ c \in Candidates /\ rec[r].pc = "cas"
  BY DEF LifeInv, LifeTypeOK, WorkOK, Swap, At
<1>2. /\ cand[c].status = rec[r].from /\ cand[c].ver = rec[r].ver /\ rec[r].ver \in Nat
      /\ cand' = [cand EXCEPT ![c] = [status |-> rec[r].goal, ver |-> cand[c].ver + 1]]
  <2>1. cand[c] = [status |-> rec[r].from, ver |-> rec[r].ver]
    BY DEF Swap, Matches
  <2>2. rec[r].ver \in Nat
    BY <1>1 DEF Works
  <2>3. cand' = [cand EXCEPT ![c] = [status |-> rec[r].goal, ver |-> cand[c].ver + 1]]
    BY DEF Swap
  <2> QED
    BY <2>1, <2>2, <2>3
<1>3. /\ new.c = c /\ new.from = cand[c].status /\ new.to = cand'[c].status
      /\ new.ver = cand[c].ver + 1 /\ cand'[c].ver = cand[c].ver + 1
  BY <1>1, <1>2 DEF Owed, LifeTypeOK
<1>4. Owed(w) = new
  BY <1>1 DEF Owed, Works
<1>5. Entries' \subseteq Entries \union {new}
  <2>1. rec' = [rec EXCEPT ![r] = w] /\ trail' = trail
    BY DEF Swap, Goto
  <2> HIDE DEF w, new
  <2> QED
    BY <1>1, <1>4, <2>1 DEF Entries, LifeTypeOK
<1>6. \A x \in Candidates : x # c => cand'[x] = cand[x]
  BY <1>1, <1>2 DEF LifeTypeOK
<1>7. \A e \in Entries : e.c \in Candidates /\ e.ver \in Nat
  BY EntriesTyped
<1> HIDE DEF new, w
<1>8. \A e \in Entries : e.c = c => e.ver <= cand[c].ver /\ (e.ver = cand[c].ver => e.to = new.from)
  BY <1>3 DEF StoryOK
<1>9. \A e \in Entries : e.ver >= 1 /\ e.ver <= cand'[e.c].ver /\
                         (e.ver = cand'[e.c].ver => e.to = cand'[e.c].status)
  <2> TAKE e \in Entries
  <2>1. CASE e.c = c
    BY <1>2, <1>3, <1>7, <1>8, <2>1 DEF StoryOK
  <2>2. CASE e.c # c
    BY <1>6, <1>7, <2>2 DEF StoryOK
  <2> QED
    BY <2>1, <2>2
<1>10. \A x \in Candidates : cand'[x].status = Absent => cand'[x].ver = 0
  <2>1. rec[r].goal # Absent
    BY <1>1 DEF Works, States, Absent
  <2>2. cand'[c].status = rec[r].goal
    BY <1>1, <1>2 DEF LifeTypeOK
  <2> QED
    BY <1>6, <2>1, <2>2 DEF StoryOK
<1>11. ASSUME NEW e \in Entries \union {new}, NEW f \in Entries \union {new}, f.c = e.c
       PROVE  (f.ver = e.ver => f = e) /\ (f.ver = e.ver + 1 => f.from = e.to)
  <2>1. CASE e \in Entries /\ f \in Entries
    BY <1>11, <2>1 DEF StoryOK
  <2>2. CASE e = new /\ f = new
    BY <1>2, <1>3, <2>2
  <2>3. CASE e = new /\ f \in Entries
    BY <1>2, <1>3, <1>7, <1>8, <1>11, <2>3
  <2>4. CASE e \in Entries /\ f = new
    BY <1>2, <1>3, <1>7, <1>8, <1>11, <2>4
  <2> QED
    BY <2>1, <2>2, <2>3, <2>4
<1>12. /\ new.ver >= 1 /\ new.ver <= cand'[new.c].ver
       /\ new.to = cand'[new.c].status
  BY <1>2, <1>3
<1> QED
  BY <1>5, <1>9, <1>10, <1>11, <1>12 DEF StoryOK

LEMMA StepStory == LifeInv /\ StoryOK /\ [LifeNext]_lifeVars => StoryOK'
<1> SUFFICES ASSUME LifeInv, StoryOK, [LifeNext]_lifeVars PROVE StoryOK'
  OBVIOUS
<1>1. ASSUME NEW r \in Recorders, NEW c \in Candidates, NEW v \in Verdicts,
             NEW visible \in BOOLEAN, Store(r, c, v, visible)
      PROVE  StoryOK'
  <2> DEFINE w == [Resting EXCEPT !.pc = "look", !.c = c, !.verdict = v, !.visible = visible]
  <2>1. w.pc # "audit"
    BY DEF Resting
  <2>2. Entries' \subseteq Entries
    BY <1>1, <2>1, OwesNothingNew DEF Store
  <2>3. \A x \in Candidates : cand'[x].ver = cand[x].ver
                              /\ (cand[x].status # Absent => cand'[x].status = cand[x].status)
                              /\ (cand'[x].status = Absent => cand[x].status = Absent)
    BY <1>1 DEF Store, LifeInv, LifeTypeOK, StoryOK
  <2>4. \A e \in Entries : e.c \in Candidates /\ e.ver \in Nat /\ cand[e.c].status # Absent
    BY EntriesTyped DEF StoryOK
  <2> QED
    BY <2>2, <2>3, <2>4 DEF StoryOK
<1>2. ASSUME NEW r \in Recorders, RecorderStep(r) PROVE StoryOK'
  <2>1. CASE Audit(r)
    <3>1. trail' = trail \union {Owed(rec[r])} /\ Owed(rec[r]) \in Entries
      BY <2>1 DEF Audit, At, Owed, Entries
    <3>2. rec' \in [Recorders -> Works] /\ \A q \in Recorders : q # r => rec'[q] = rec[q]
      BY <2>1, AuditKeeps DEF LifeInv, LifeTypeOK, Audit, Goto
    <3>3. rec'[r].pc # "audit"
      <4>1. "DETECTED" \in States \union {Absent} /\ LifeTypeOK /\ rec[r] \in Works
        BY DEF States, LifeInv, LifeTypeOK
      <4>2. Onward(r, "DETECTED").pc # "audit" /\ [rec[r] EXCEPT !.pc = "project"].pc # "audit"
        BY <4>1, OnwardIs DEF Works
      <4>3. \/ rec' = [rec EXCEPT ![r] = Onward(r, "DETECTED")]
            \/ rec' = [rec EXCEPT ![r] = [rec[r] EXCEPT !.pc = "project"]]
        BY <2>1 DEF Audit, Goto
      <4> QED
        BY <4>1, <4>2, <4>3 DEF LifeTypeOK
    <3>4. Entries' \subseteq Entries
      BY <3>1, <3>2, <3>3 DEF Entries
    <3> QED
      BY <2>1, <3>4, NothingNew DEF Audit
  <2> QED
    BY <1>2, <2>1, RecorderTellsNothing, SwapAddsOne DEF RecorderStep
<1>3. ASSUME NEW r \in Recorders, Abandon(r) PROVE StoryOK'
  BY <1>3, RecorderTellsNothing
<1>4. CASE ScoreRead \/ ScoreWrite \/ Triage \/ UNCHANGED lifeVars
  <2>1. trail' = trail /\ rec' = rec /\ cand' = cand
    BY <1>4 DEF ScoreRead, ScoreWrite, Triage, lifeVars
  <2> QED
    BY <2>1, NothingNew DEF Entries
<1> QED
  BY <1>1, <1>2, <1>3, <1>4 DEF LifeNext

\* The audit trail tells one story per candidate: a version has one entry, and the
\* entries of successive versions join, up to the state that the candidate is in.
THEOREM OneStory == LifeSpec => []TrailIsOneStory
<1>1. LifeInit => LifeInv /\ StoryOK
  BY InitLife DEF LifeInit, StoryOK, Entries, Resting
<1>2. (LifeInv /\ StoryOK) /\ [LifeNext]_lifeVars => (LifeInv /\ StoryOK)'
  BY StepLife, StepStory
<1>3. LifeInv /\ StoryOK => TrailIsOneStory
  BY DEF StoryOK, TrailIsOneStory, Entries
<1> QED
  BY <1>1, <1>2, <1>3, PTL DEF LifeSpec
================================================================================
