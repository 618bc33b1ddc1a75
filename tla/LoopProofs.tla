----------------------------- MODULE LoopProofs -----------------------------
(***************************************************************************)
(* Proofs about bounded loops, their evidence, the token rollup and the    *)
(* advice that proposes loops.                                             *)
(***************************************************************************)
EXTENDS Loops, FiniteOrders

-----------------------------------------------------------------------------
(* Advice: what is listed once.                                            *)

\* A sequence over S without repetitions.
Once(list, S) == list \in Seq(S) /\ \A i, j \in DOMAIN list : list[i] = list[j] => i = j
In(list) == {list[i] : i \in DOMAIN list}

LEMMA WiderSeq == ASSUME NEW S, NEW T, S \subseteq T, NEW s \in Seq(S) PROVE s \in Seq(T)
<1>1. PICK n \in Nat : s \in [1 .. n -> S]
  OBVIOUS
<1>2. s \in [1 .. n -> T]
  BY <1>1
<1> QED BY <1>2

\* sorted() lists every member once.
LEMMA SortedOnce ==
  ASSUME NEW R, NEW S, IsFiniteSet(S), Orders(R, S)
  PROVE  Once(Sorted(S, R), S) /\ In(Sorted(S, R)) = S
<1>1. Sorted(S, R) = Sorting(S, R)
  BY DEF Sorted, Sorting, Preceding
<1>2. Cardinality(S) \in Nat /\ Lists(Sorting(S, R), S, R)
  BY SortingLists
<1>3. /\ \A i, j \in 1 .. Cardinality(S) : Sorting(S, R)[i] = Sorting(S, R)[j] => i = j
      /\ \A x \in S : \E i \in 1 .. Cardinality(S) : Sorting(S, R)[i] = x
  BY <1>2, ListingIsWhole
<1>4. PICK s : s = Sorting(S, R)
  OBVIOUS
<1>5. PICK n \in Nat : n = Cardinality(S)
  BY <1>2
<1>6. s \in [1 .. n -> S]
  BY <1>2, <1>4, <1>5 DEF Lists
<1>7. s \in Seq(S) /\ DOMAIN s = 1 .. n
  BY <1>6
<1>8. Once(s, S) /\ In(s) = S
  BY <1>3, <1>4, <1>5, <1>6, <1>7 DEF Once, In
<1> QED BY <1>1, <1>4, <1>8

\* The beginning of a list that lists once does so.
LEMMA UptoIs ==
  ASSUME NEW S, NEW list \in Seq(S), NEW n \in Nat
  PROVE  /\ Upto(list, n) \in Seq(S) /\ Len(Upto(list, n)) <= Len(list) /\ Len(Upto(list, n)) \in Nat
         /\ \A i \in 1 .. Len(Upto(list, n)) : Upto(list, n)[i] = list[i]
<1>1. PICK k \in 0 .. Len(list) : k = IF Len(list) < n THEN Len(list) ELSE n
  OBVIOUS
<1>2. Upto(list, n) = SubSeq(list, 1, k)
  BY <1>1 DEF Upto
<1>3. SubSeq(list, 1, k) \in Seq(S) /\ Len(SubSeq(list, 1, k)) = k /\ \A i \in 1 .. k : SubSeq(list, 1, k)[i] = list[i]
  OBVIOUS
<1> QED BY <1>1, <1>2, <1>3

LEMMA JoinedOnce ==
  ASSUME NEW S, NEW a, NEW b, Once(a, S), Once(b, S), In(a) \cap In(b) = {}
  PROVE  Once(a \o b, S) /\ In(a \o b) = In(a) \cup In(b)
<1>1. a \in Seq(S) /\ b \in Seq(S) /\ Len(a) \in Nat /\ Len(b) \in Nat
  BY DEF Once
<1>2. PICK c : c = a \o b
  OBVIOUS
<1>3. /\ c \in Seq(S) /\ DOMAIN c = 1 .. Len(a) + Len(b)
      /\ \A i \in 1 .. Len(a) + Len(b) : c[i] = IF i <= Len(a) THEN a[i] ELSE b[i - Len(a)]
  BY <1>1, <1>2
<1>4. ASSUME NEW i \in DOMAIN c, NEW j \in DOMAIN c, c[i] = c[j] PROVE i = j
  <2>1. CASE i <= Len(a) /\ j <= Len(a)
    BY <1>1, <1>3, <1>4, <2>1 DEF Once
  <2>2. CASE ~(i <= Len(a)) /\ ~(j <= Len(a))
    <3>1. i - Len(a) \in DOMAIN b /\ j - Len(a) \in DOMAIN b
      BY <1>1, <1>3, <2>2
    <3>2. b[i - Len(a)] = b[j - Len(a)]
      BY <1>1, <1>3, <1>4, <2>2
    <3>3. i - Len(a) = j - Len(a)
      BY <3>1, <3>2 DEF Once
    <3> QED BY <1>1, <1>3, <3>3
  <2>3. CASE i <= Len(a) /\ ~(j <= Len(a))
    <3>1. i \in DOMAIN a /\ j - Len(a) \in DOMAIN b
      BY <1>1, <1>3, <2>3
    <3>2. a[i] = b[j - Len(a)]
      BY <1>1, <1>3, <1>4, <2>3
    <3> QED BY <3>1, <3>2 DEF In
  <2>4. CASE ~(i <= Len(a)) /\ j <= Len(a)
    <3>1. j \in DOMAIN a /\ i - Len(a) \in DOMAIN b
      BY <1>1, <1>3, <2>4
    <3>2. a[j] = b[i - Len(a)]
      BY <1>1, <1>3, <1>4, <2>4
    <3> QED BY <3>1, <3>2 DEF In
  <2> QED BY <2>1, <2>2, <2>3, <2>4
<1>5. In(c) \subseteq In(a) \cup In(b)
  <2> SUFFICES ASSUME NEW i \in DOMAIN c PROVE c[i] \in In(a) \cup In(b)
    BY DEF In
  <2>1. CASE i <= Len(a)
    <3>1. i \in DOMAIN a /\ c[i] = a[i]
      BY <1>1, <1>3, <2>1
    <3> QED BY <3>1 DEF In
  <2>2. CASE ~(i <= Len(a))
    <3>1. i - Len(a) \in DOMAIN b /\ c[i] = b[i - Len(a)]
      BY <1>1, <1>3, <2>2
    <3> QED BY <3>1 DEF In
  <2> QED BY <2>1, <2>2
<1>6. In(a) \subseteq In(c)
  <2> SUFFICES ASSUME NEW i \in DOMAIN a PROVE a[i] \in In(c)
    BY DEF In
  <2>1. i \in DOMAIN c /\ c[i] = a[i]
    BY <1>1, <1>3
  <2> QED BY <2>1 DEF In
<1>7. In(b) \subseteq In(c)
  <2> SUFFICES ASSUME NEW i \in DOMAIN b PROVE b[i] \in In(c)
    BY DEF In
  <2>1. i + Len(a) \in DOMAIN c /\ c[i + Len(a)] = b[i]
    BY <1>1, <1>3
  <2> QED BY <2>1 DEF In
<1> QED BY <1>2, <1>3, <1>4, <1>5, <1>6, <1>7 DEF Once

-----------------------------------------------------------------------------
(* Advice: the two lists.                                                  *)

AdviceTyped == seen \in [AdviceRow -> LoadedRow] /\ autonomy \in BOOLEAN

LEMMA ScoreTyped ==
  ASSUME NEW r \in LoadedRow
  PROVE  AdviceOn(r) # NoAdvice => RankScore(r) \in Int
<1>1. SUFFICES ASSUME AdviceOn(r) # NoAdvice PROVE RankScore(r) \in Int
  OBVIOUS
<1>2. PICK k \in DOMAIN KindWeight, s \in DOMAIN SeverityWeight, a \in DOMAIN ActWeight :
        AdviceOn(r) = [kind |-> k, severity |-> s, act |-> a]
  BY <1>1 DEF AdviceOn, KindWeight, SeverityWeight, ActWeight
<1>3. KindWeight[k] \in Int /\ SeverityWeight[s] \in Int /\ ActWeight[a] \in Int
  BY DEF KindWeight, SeverityWeight, ActWeight
<1>4. r.priority \in Nat
  BY DEF LoadedRow
<1> QED BY <1>2, <1>3, <1>4 DEF RankScore

\* Two keys, the second a number that tells rows apart, order them.
LEMMA KeyedOrder ==
  ASSUME NEW S, S \subseteq Nat, NEW K \in [S -> Int], NEW R,
         \A i, j \in S : <<i, j>> \in R <=> K[i] < K[j] \/ (K[i] = K[j] /\ i < j)
  PROVE  Orders(R, S)
<1>2. \A i, j \in S : i # j => <<i, j>> \in R \/ <<j, i>> \in R
  <2> SUFFICES ASSUME NEW i \in S, NEW j \in S, i # j PROVE <<i, j>> \in R \/ <<j, i>> \in R
    OBVIOUS
  <2>1. i \in Nat /\ j \in Nat /\ K[i] \in Int /\ K[j] \in Int
    OBVIOUS
  <2> QED BY <2>1
<1>3. \A i, j, k \in S : <<i, j>> \in R /\ <<j, k>> \in R => <<i, k>> \in R
  OBVIOUS
<1>4. \A i \in S : <<i, i>> \notin R
  OBVIOUS
<1> QED BY <1>2, <1>3, <1>4 DEF Orders

LEMMA SuggestionsOnce ==
  ASSUME AdviceTyped
  PROVE  Once(Suggestions, AdviceRow)
<1> USE AdviceAssumption
<1>1. Advised \subseteq AdviceRow /\ IsFiniteSet(Advised) /\ Advised \subseteq Nat
  <2>1. Advised \subseteq AdviceRow
    BY DEF Advised
  <2> QED BY <2>1, FS_Subset
<1>2. \A w \in Advised : RankScore(seen[w]) \in Int
  BY ScoreTyped DEF Advised, AdviceTyped
<1>3. PICK K : K = [w \in Advised |-> -RankScore(seen[w])]
  OBVIOUS
<1>4. K \in [Advised -> Int]
  BY <1>2, <1>3
<1>5. ASSUME NEW i \in Advised, NEW j \in Advised
      PROVE <<i, j>> \in ByScore <=> K[i] < K[j] \/ (K[i] = K[j] /\ i < j)
  <2>1. PICK a \in Int, b \in Int : a = RankScore(seen[i]) /\ b = RankScore(seen[j])
    BY <1>2
  <2>2. <<i, j>> \in ByScore <=> a > b \/ (a = b /\ i < j)
    BY <2>1 DEF ByScore
  <2>3. K[i] = -a /\ K[j] = -b
    BY <1>3, <2>1
  <2> QED BY <2>1, <2>2, <2>3
<1>6. Orders(ByScore, Advised)
  BY <1>1, <1>4, <1>5, KeyedOrder
<1>7. Once(Sorted(Advised, ByScore), Advised)
  BY <1>1, <1>6, SortedOnce
<1>8. PICK list : list = Sorted(Advised, ByScore)
  OBVIOUS
<1>9. list \in Seq(AdviceRow) /\ \A i, j \in DOMAIN list : list[i] = list[j] => i = j
  BY <1>1, <1>7, <1>8, WiderSeq DEF Once
<1>10. Suggestions = Upto(list, SupervisorLimit)
  BY <1>8 DEF Suggestions
<1>11. PICK s : s = Suggestions
  OBVIOUS
<1>12. s \in Seq(AdviceRow) /\ Len(s) <= Len(list) /\ \A i \in 1 .. Len(s) : s[i] = list[i]
  BY <1>9, <1>10, <1>11, UptoIs
<1>13. \A i, j \in DOMAIN s : s[i] = s[j] => i = j
  BY <1>9, <1>12
<1> QED BY <1>11, <1>12, <1>13 DEF Once

\* The rows of the first list, the rows of the second.
LEMMA SupervisorOnce ==
  ASSUME AdviceTyped
  PROVE  /\ Once(FromSupervisor, AdviceRow)
         /\ \A w \in In(FromSupervisor) : MissingContract(seen[w])
<1>1. PICK s : s = Suggestions
  OBVIOUS
<1>2. s \in Seq(AdviceRow) /\ \A i, j \in DOMAIN s : s[i] = s[j] => i = j
  BY <1>1, SuggestionsOnce DEF Once
<1>3. PICK M : M = {i \in DOMAIN s : MissingContract(seen[s[i]])}
  OBVIOUS
<1>4. PICK R : R = {p \in M \X M : p[1] < p[2]}
  OBVIOUS
<1>5. M \subseteq Nat /\ M \subseteq DOMAIN s
  BY <1>2, <1>3
<1>6. IsFiniteSet(M)
  <2>1. DOMAIN s = 1 .. Len(s) /\ Len(s) \in Nat
    BY <1>2
  <2>2. IsFiniteSet(1 .. Len(s))
    BY <2>1, FS_Interval
  <2> QED BY <1>5, <2>1, <2>2, FS_Subset
<1>7. Orders(R, M)
  BY <1>4, <1>5 DEF Orders
<1>8. PICK places : places = Sorted(M, R)
  OBVIOUS
<1>9. places \in Seq(M) /\ \A i, j \in DOMAIN places : places[i] = places[j] => i = j
  BY <1>6, <1>7, <1>8, SortedOnce DEF Once
<1>10. FromSupervisor = [n \in DOMAIN places |-> s[places[n]]]
  BY <1>1, <1>3, <1>4, <1>8 DEF FromSupervisor
<1>11. PICK f : f = FromSupervisor
  OBVIOUS
<1>12. DOMAIN places = 1 .. Len(places) /\ Len(places) \in Nat /\ \A n \in DOMAIN places : places[n] \in M
  BY <1>9
<1>13. \A n \in DOMAIN places : s[places[n]] \in AdviceRow
  <2>1. \A i \in DOMAIN s : s[i] \in AdviceRow
    BY <1>2
  <2> QED BY <1>5, <1>12, <2>1
<1>14. f \in Seq(AdviceRow) /\ DOMAIN f = DOMAIN places
  BY <1>10, <1>11, <1>12, <1>13
<1>15. \A i, j \in DOMAIN f : f[i] = f[j] => i = j
  <2> SUFFICES ASSUME NEW i \in DOMAIN f, NEW j \in DOMAIN f, f[i] = f[j] PROVE i = j
    OBVIOUS
  <2>1. places[i] \in DOMAIN s /\ places[j] \in DOMAIN s /\ s[places[i]] = s[places[j]]
    BY <1>5, <1>10, <1>11, <1>12, <1>14
  <2>2. places[i] = places[j]
    BY <1>2, <2>1
  <2> QED BY <1>9, <1>14, <2>2
<1>16. \A n \in DOMAIN f : MissingContract(seen[f[n]])
  <2> SUFFICES ASSUME NEW n \in DOMAIN f PROVE MissingContract(seen[f[n]])
    OBVIOUS
  <2>1. places[n] \in M /\ f[n] = s[places[n]]
    BY <1>10, <1>11, <1>12, <1>14
  <2> QED BY <1>3, <2>1
<1> QED BY <1>11, <1>14, <1>15, <1>16 DEF Once, In

Needy(w) == seen[w].status \in OpenStatuses /\ ~seen[w].sparse /\ MissingContract(seen[w])

LEMMA DoctorOnce ==
  ASSUME AdviceTyped
  PROVE  Once(FromDoctor, AdviceRow) /\ In(FromDoctor) = {w \in AdviceRow \ In(FromSupervisor) : Needy(w)}
<1> USE AdviceAssumption
<1>1. PICK C : C = {w \in AdviceRow \ In(FromSupervisor) : Needy(w)}
  OBVIOUS
<1>2. FromDoctor = Sorted(C, ByPriority(C))
  BY <1>1 DEF FromDoctor, NotProposed, In, Needy
<1>3. C \subseteq Nat /\ IsFiniteSet(C) /\ C \subseteq AdviceRow
  BY <1>1, FS_Subset
<1>4. PICK K : K = [w \in C |-> seen[w].priority]
  OBVIOUS
<1>5. K \in [C -> Int]
  <2> SUFFICES ASSUME NEW w \in C PROVE seen[w].priority \in Int
    BY <1>4
  <2>1. seen[w] \in LoadedRow
    BY <1>3 DEF AdviceTyped
  <2> QED BY <2>1 DEF LoadedRow
<1>6. \A i, j \in C : <<i, j>> \in ByPriority(C) <=> K[i] < K[j] \/ (K[i] = K[j] /\ i < j)
  BY <1>4 DEF ByPriority
<1>7. Orders(ByPriority(C), C)
  BY <1>3, <1>5, <1>6, KeyedOrder
<1>8. Once(FromDoctor, C) /\ In(FromDoctor) = C
  BY <1>2, <1>3, <1>7, SortedOnce
<1>9. FromDoctor \in Seq(AdviceRow)
  BY <1>3, <1>8, WiderSeq DEF Once
<1> QED BY <1>1, <1>8, <1>9 DEF Once

-----------------------------------------------------------------------------
(* Advice: no needy row is lost.                                           *)

LEMMA ProposeIsWhole ==
  ASSUME AdviceTyped, Propose
  PROVE  AdviceTyped' /\ NeedyIsProposed'
<1> USE AdviceAssumption
<1>1. PICK all : all = FromSupervisor \o FromDoctor
  OBVIOUS
<1>2. Once(all, AdviceRow) /\ In(all) = In(FromSupervisor) \cup In(FromDoctor)
  <2>1. PICK a, b : a = FromSupervisor /\ b = FromDoctor
    OBVIOUS
  <2>2. Once(a, AdviceRow) /\ Once(b, AdviceRow) /\ In(b) = {w \in AdviceRow \ In(a) : Needy(w)}
    BY <2>1, SupervisorOnce, DoctorOnce
  <2>3. In(a) \cap In(b) = {}
    BY <2>2
  <2>4. Once(a \o b, AdviceRow) /\ In(a \o b) = In(a) \cup In(b)
    BY <2>2, <2>3, JoinedOnce
  <2> QED BY <1>1, <2>1, <2>4
<1>3. PICK shown : shown = Upto(all, ProposalLimit)
  OBVIOUS
<1>4. all \in Seq(AdviceRow) /\ \A i, j \in DOMAIN all : all[i] = all[j] => i = j
  BY <1>2 DEF Once
<1>5. /\ shown \in Seq(AdviceRow) /\ Len(shown) <= Len(all) /\ Len(shown) \in Nat
      /\ \A i \in 1 .. Len(shown) : shown[i] = all[i]
  BY <1>3, <1>4, UptoIs
<1>6. DOMAIN shown = 1 .. Len(shown) /\ DOMAIN all = 1 .. Len(all) /\ Len(all) \in Nat
  BY <1>4, <1>5
<1>7. /\ seen' = seen /\ autonomy' = autonomy
      /\ report'.proposals = shown
      /\ report'.limited = {all[i] : i \in Len(shown) + 1 .. Len(all)}
      /\ \A w \in report'.dropped : ~MissingContract(seen[w])
  BY <1>1, <1>3 DEF Propose
<1>8. \A i \in DOMAIN all : MissingContract(seen[all[i]])
  <2> SUFFICES ASSUME NEW i \in DOMAIN all PROVE MissingContract(seen[all[i]])
    OBVIOUS
  <2>1. all[i] \in In(FromSupervisor) \cup In(FromDoctor)
    BY <1>2 DEF In
  <2>2. CASE all[i] \in In(FromSupervisor)
    BY <2>2, SupervisorOnce
  <2>3. CASE all[i] \in In(FromDoctor)
    BY <2>3, DoctorOnce DEF Needy
  <2> QED BY <2>1, <2>2, <2>3
<1>9. \A i, j \in DOMAIN shown : shown[i] = shown[j] => i = j
  BY <1>4, <1>5, <1>6
<1>10. ASSUME NEW i \in DOMAIN shown
       PROVE MissingContract(seen[shown[i]]) /\ shown[i] \notin report'.limited \cup report'.dropped
  <2>1. i \in DOMAIN all /\ shown[i] = all[i] /\ MissingContract(seen[shown[i]])
    BY <1>5, <1>6, <1>8
  <2>2. shown[i] \notin report'.limited
    <3> SUFFICES ASSUME NEW j \in Len(shown) + 1 .. Len(all), all[j] = all[i] PROVE FALSE
      BY <1>7, <2>1
    <3>1. j \in DOMAIN all /\ j # i
      BY <1>5, <1>6
    <3> QED BY <1>4, <2>1, <3>1
  <2> QED BY <1>7, <2>1, <2>2
<1>11. ASSUME NEW w \in AdviceRow, Needy(w)
       PROVE (\E i \in DOMAIN shown : shown[i] = w) \/ w \in report'.limited
  <2>1. w \in In(all)
    BY <1>2, <1>11, DoctorOnce
  <2>2. PICK i \in DOMAIN all : all[i] = w
    BY <2>1 DEF In
  <2>3. CASE i <= Len(shown)
    BY <1>5, <1>6, <2>2, <2>3
  <2>4. CASE ~(i <= Len(shown))
    <3>1. i \in Len(shown) + 1 .. Len(all)
      BY <1>5, <1>6, <2>4
    <3> QED BY <1>7, <2>2, <3>1
  <2> QED BY <2>3, <2>4
<1>12. AdviceTyped'
  BY <1>7 DEF AdviceTyped
<1>13. \A r : MissingContract(r)' <=> MissingContract(r)
  BY DEF MissingContract
<1> QED BY <1>7, <1>9, <1>10, <1>11, <1>12 DEF NeedyIsProposed, Needy, MissingContract

LEMMA AdviceKept ==
  /\ AdviceInit => AdviceTyped /\ NeedyIsProposed
  /\ AdviceTyped /\ NeedyIsProposed /\ [AdviceNext]_adviceVars => AdviceTyped' /\ NeedyIsProposed'
<1>1. AdviceInit => AdviceTyped /\ NeedyIsProposed
  BY AdviceAssumption DEF AdviceInit, AdviceTyped, NeedyIsProposed, NoReport
<1>2. ASSUME AdviceTyped, NeedyIsProposed, [AdviceNext]_adviceVars PROVE AdviceTyped' /\ NeedyIsProposed'
  <2>1. CASE Propose
    BY <1>2, <2>1, ProposeIsWhole
  <2>2. CASE UNCHANGED adviceVars
    BY <1>2, <2>2 DEF adviceVars, AdviceTyped, NeedyIsProposed, MissingContract
  <2> QED BY <1>2, <2>1, <2>2 DEF AdviceNext
<1> QED BY <1>1, <1>2

-----------------------------------------------------------------------------
(* The rollup: what deduplication leaves.                                  *)

RollupRow ==
  [source : {"coord_events", "run_events"}, id : Nat, usage : UsageId \cup {NoUsage},
   run : RunId \cup {"none"}, tokens : Nat]
\* The rows of a rollup: finitely many, each known by its log and id.
RollupRows(N) ==
  /\ N \subseteq RollupRow /\ IsFiniteSet(N)
  /\ \A e, f \in N : e.source = f.source /\ e.id = f.id => e = f
  /\ \A e \in N : e.source = "run_events" => e.run \in RunId

NamedIn(N) == {e \in N : e.usage # NoUsage}
AliasedIn(N) == {e \in N \ NamedIn(N) : e.source = "run_events" /\ Cardinality(Aliases[e.run]) > 1}
GroupIn(N, e) == {f \in AliasedIn(N) : f.run \in Aliases[e.run] /\ f.tokens = e.tokens}
MirroredIn(N, e) == Cardinality(GroupIn(N, e)) = 2 /\ {f.run : f \in GroupIn(N, e)} = Aliases[e.run]

LEMMA DedupeIs ==
  ASSUME NEW N
  PROVE  DedupeEvents(N) =
           (N \ (NamedIn(N) \cup AliasedIn(N)))
           \cup {e \in NamedIn(N) : \A f \in NamedIn(N) : f.usage = e.usage => Preferred(e, f)}
           \cup {e \in AliasedIn(N) : MirroredIn(N, e) => \A f \in GroupIn(N, e) : e.id <= f.id}
BY DEF DedupeEvents, NamedIn, AliasedIn, GroupIn, MirroredIn

LEMMA DedupeTells ==
  ASSUME NEW N, NEW e
  PROVE  e \in DedupeEvents(N) <=>
           \/ e \in N /\ e \notin NamedIn(N) /\ e \notin AliasedIn(N)
           \/ e \in NamedIn(N) /\ \A f \in NamedIn(N) : f.usage = e.usage => Preferred(e, f)
           \/ e \in AliasedIn(N) /\ (MirroredIn(N, e) => \A f \in GroupIn(N, e) : e.id <= f.id)
BY DedupeIs

\* A named usage is counted once.
LEMMA NamedOnce ==
  ASSUME NEW N, RollupRows(N), NEW e \in DedupeEvents(N), NEW f \in DedupeEvents(N),
         e.usage = f.usage, e.usage # NoUsage
  PROVE  e = f
<1>1. e \in N /\ f \in N
  BY DedupeTells DEF NamedIn, AliasedIn
<1>2. e \in NamedIn(N) /\ f \in NamedIn(N) /\ e \notin AliasedIn(N) /\ f \notin AliasedIn(N)
  BY <1>1 DEF NamedIn, AliasedIn
<1>3. Preferred(e, f) /\ Preferred(f, e)
  BY <1>2, DedupeTells
<1>4. e.source = f.source /\ e.id <= f.id /\ f.id <= e.id
  BY <1>3 DEF Preferred
<1>5. e.id \in Nat /\ f.id \in Nat
  BY <1>1 DEF RollupRows, RollupRow
<1> QED BY <1>1, <1>4, <1>5 DEF RollupRows

\* The preferred one of a usage stays; it is of the run events if any is.
LEMMA NamedStays ==
  ASSUME NEW N, RollupRows(N), NEW e \in NamedIn(N)
  PROVE  \E f \in DedupeEvents(N) : f.usage = e.usage /\ (e.source = "run_events" => f.source = "run_events")
<1> DEFINE Same == {f \in NamedIn(N) : f.usage = e.usage}
           FromRuns == {f \in Same : f.source = "run_events"}
<1>1. \A f \in Same : f \in N /\ f.id \in Nat /\ f.source \in {"coord_events", "run_events"}
  BY DEF NamedIn, RollupRows, RollupRow
<1>2. ASSUME NEW T \in SUBSET Same, T # {} PROVE \E f \in T : \A g \in T : f.id <= g.id
  <2>1. PICK ids : ids = {f.id : f \in T}
    OBVIOUS
  <2>2. ids \subseteq Nat /\ ids # {}
    BY <1>1, <1>2, <2>1
  <2>3. PICK i \in ids : \A j \in ids : i <= j
    BY <2>2, LeastNat
  <2>4. PICK f \in T : f.id = i
    BY <2>1
  <2> QED BY <2>1, <2>3, <2>4
<1>3. CASE FromRuns # {}
  <2>1. PICK f \in FromRuns : \A g \in FromRuns : f.id <= g.id
    BY <1>2, <1>3
  <2>2. \A g \in NamedIn(N) : g.usage = f.usage => Preferred(f, g)
    BY <1>1, <2>1 DEF Preferred
  <2>3. f \in DedupeEvents(N)
    BY <2>2, DedupeTells
  <2> QED BY <2>3
<1>4. CASE FromRuns = {}
  <2>1. e \in Same /\ e.source # "run_events"
    BY <1>4
  <2>2. PICK f \in Same : \A g \in Same : f.id <= g.id
    BY <1>2, <2>1
  <2>3. \A g \in NamedIn(N) : g.usage = f.usage => Preferred(f, g)
    BY <1>1, <1>4, <2>2 DEF Preferred
  <2>4. f \in DedupeEvents(N)
    BY <2>3, DedupeTells
  <2> QED BY <2>1, <2>4
<1> QED BY <1>3, <1>4

LEMMA AliasesClosed ==
  ASSUME NEW r \in RunId, NEW q \in Aliases[r]
  PROVE  r \in Aliases[r] /\ Aliases[q] = Aliases[r] /\ q \in RunId
BY LoopsAssumption

\* Of the unnamed, only the later of two mirrors is left out.
LEMMA MirrorStays ==
  ASSUME NEW N, RollupRows(N), NEW e \in N, e \notin DedupeEvents(N), e.usage = NoUsage
  PROVE  \E f \in DedupeEvents(N) :
           f.usage = NoUsage /\ f.tokens = e.tokens /\ f.id < e.id /\ f.run # e.run
<1>1. e \in AliasedIn(N) /\ MirroredIn(N, e) /\ \E f \in GroupIn(N, e) : ~(e.id <= f.id)
  BY DedupeTells DEF NamedIn
<1>2. PICK f \in GroupIn(N, e) : ~(e.id <= f.id)
  BY <1>1
<1>3. f \in AliasedIn(N) /\ f.run \in Aliases[e.run] /\ f.tokens = e.tokens
  BY DEF GroupIn
<1>4. /\ e.run \in RunId /\ f.run \in RunId /\ e.id \in Nat /\ f.id \in Nat
      /\ e.usage = NoUsage /\ f.usage = NoUsage /\ Cardinality(Aliases[e.run]) > 1
  BY <1>1, <1>3 DEF AliasedIn, NamedIn, RollupRows, RollupRow
<1>5. e.run \in Aliases[e.run] /\ Aliases[f.run] = Aliases[e.run]
  BY <1>3, <1>4, AliasesClosed
<1>6. PICK G : G = GroupIn(N, e)
  OBVIOUS
<1>7. GroupIn(N, f) = G
  BY <1>3, <1>5, <1>6 DEF GroupIn
<1>8. G = {e, f}
  <2>1. e \in G /\ f \in G /\ e # f
    <3>1. e \in G
      BY <1>1, <1>5, <1>6 DEF GroupIn
    <3>2. f \in G
      BY <1>2, <1>6
    <3>3. e.id # f.id
      BY <1>2, <1>4
    <3> QED BY <3>1, <3>2, <3>3
  <2>2. IsFiniteSet(G)
    <3>1. G \subseteq N
      BY <1>6 DEF GroupIn, AliasedIn
    <3> QED BY <3>1, FS_Subset DEF RollupRows
  <2>3. Cardinality(G) = 2
    BY <1>1, <1>6 DEF MirroredIn
  <2>4. IsFiniteSet({e}) /\ Cardinality({e}) = 1
    BY FS_Singleton
  <2>5. Cardinality({e} \cup {f}) = 2
    <3>1. f \notin {e}
      BY <2>1
    <3>2. Cardinality({e} \cup {f}) = Cardinality({e}) + 1
      BY <2>4, <3>1, FS_AddElement
    <3> QED BY <2>4, <3>2
  <2>6. {e} \cup {f} \subseteq G
    BY <2>1
  <2>7. {e} \cup {f} = G
    BY <2>2, <2>3, <2>5, <2>6, FS_Subset
  <2> QED BY <2>7
<1>9. f.run # e.run
  <2> SUFFICES ASSUME f.run = e.run PROVE FALSE
    OBVIOUS
  <2>1. Aliases[e.run] = {g.run : g \in G}
    BY <1>1, <1>6 DEF MirroredIn
  <2>2. {g.run : g \in G} = {e.run}
    BY <1>8
  <2>3. Cardinality({e.run}) = 1
    BY FS_Singleton
  <2> QED BY <1>4, <2>1, <2>2, <2>3
<1>10. f.id < e.id
  BY <1>2, <1>4
<1>11. \A g \in GroupIn(N, f) : f.id <= g.id
  BY <1>4, <1>7, <1>8, <1>10
<1>12. f \in DedupeEvents(N)
  BY <1>3, <1>11, DedupeTells
<1> QED BY <1>3, <1>4, <1>9, <1>10, <1>12

-----------------------------------------------------------------------------
(* The table of run events.                                                *)

EventKey ==
  ({"lifecycle"} \X Verb) \cup ({"usage"} \X UsageId) \cup ({"bare"} \X Nat)
    \cup ({"receipt"} \X RunId \X Nat)
\* Tokens are recorded under a usage, or bare.
Tells(key, tokens) ==
  /\ tokens > 0 <=> key[1] \in {"usage", "bare"}
  /\ key[1] = "usage" => \E u \in UsageId : key = UsageKey(u)
RunEvent == [key : EventKey, run : RunId, thread : {"s", Unthreaded}, seq : Nat, tokens : Nat]
ThreadUpTo(i) == {j \in ByThread("s") : j <= i}

TableInv ==
  /\ runEvents \in Seq(RunEvent)
  /\ \A i \in EventIds : Tells(runEvents[i].key, runEvents[i].tokens)
  /\ \A i, j \in EventIds : runEvents[i].key = runEvents[j].key => i = j
  /\ \A i \in ByThread("s") : runEvents[i].seq = Cardinality(ThreadUpTo(i))

LEMMA EventIdsFinite ==
  ASSUME TableInv
  PROVE  Len(runEvents) \in Nat /\ EventIds = 1 .. Len(runEvents) /\ IsFiniteSet(EventIds)
<1>1. Len(runEvents) \in Nat /\ EventIds = 1 .. Len(runEvents)
  BY DEF TableInv, EventIds
<1>2. IsFiniteSet(1 .. Len(runEvents))
  BY <1>1, FS_Interval
<1> QED BY <1>1, <1>2

\* What is on record stays as it is; the key asked for is on record afterwards.
Records(key, tokens) ==
  /\ TableInv'
  /\ \A i \in EventIds : i \in EventIds' /\ runEvents'[i] = runEvents[i]
  /\ \E i \in EventIds' : runEvents'[i].key = key

LEMMA RecordKeeps ==
  ASSUME TableInv, NEW key \in EventKey, NEW run \in RunId, NEW thread \in {"s", Unthreaded}, NEW tokens \in Nat,
         Tells(key, tokens), RecordRunEvent(key, run, thread, tokens)
  PROVE  Records(key, tokens)
<1>1. CASE Recorded(key) # {}
  <2>1. runEvents' = runEvents
    BY <1>1 DEF RecordRunEvent
  <2>2. PICK i \in EventIds : runEvents[i].key = key
    BY <1>1 DEF Recorded
  <2> QED BY <2>1, <2>2 DEF Records, TableInv, EventIds, ByThread, ThreadUpTo
<1>2. CASE Recorded(key) = {}
  <2>1. PICK n \in Nat : n = Len(runEvents)
    BY EventIdsFinite
  <2>2. PICK s : s = NextSeq(ScopeOf([key |-> key, run |-> run, thread |-> thread, seq |-> 0, tokens |-> tokens]))
    OBVIOUS
  <2>3. PICK e : e = [key |-> key, run |-> run, thread |-> thread, seq |-> s, tokens |-> tokens]
    OBVIOUS
  <2>4. runEvents' = Append(runEvents, e)
    BY <1>2, <2>2, <2>3 DEF RecordRunEvent
  <2>5. runEvents \in Seq(RunEvent) /\ EventIds = 1 .. n /\ IsFiniteSet(EventIds)
    BY <2>1, EventIdsFinite DEF TableInv
  <2>6. s \in Nat
    <3>1. PICK c : c = ScopeOf([key |-> key, run |-> run, thread |-> thread, seq |-> 0, tokens |-> tokens])
      OBVIOUS
    <3>2. IsFiniteSet({i \in EventIds : ScopeOf(runEvents[i]) = c})
      BY <2>5, FS_Subset
    <3>3. Cardinality({i \in EventIds : ScopeOf(runEvents[i]) = c}) \in Nat
      BY <3>2, FS_CardinalityType
    <3> QED BY <2>2, <3>1, <3>3 DEF NextSeq
  <2>7. e \in RunEvent
    BY <2>3, <2>6 DEF RunEvent
  <2>8. /\ runEvents' \in Seq(RunEvent) /\ EventIds' = 1 .. n + 1
        /\ runEvents'[n + 1] = e /\ \A i \in 1 .. n : runEvents'[i] = runEvents[i]
    BY <2>1, <2>4, <2>5, <2>7 DEF EventIds
  <2>9. \A i \in EventIds' : i = n + 1 \/ i \in EventIds
    BY <2>1, <2>5, <2>8
  <2>10. \A i \in EventIds : i \in EventIds' /\ runEvents'[i] = runEvents[i]
    BY <2>5, <2>8
  <2>11. \A i \in EventIds' : Tells(runEvents'[i].key, runEvents'[i].tokens)
    <3> SUFFICES ASSUME NEW i \in EventIds' PROVE Tells(runEvents'[i].key, runEvents'[i].tokens)
      OBVIOUS
    <3>1. CASE i \in EventIds
      BY <2>10, <3>1 DEF TableInv
    <3>2. CASE i = n + 1
      <4>1. runEvents'[i].key = key /\ runEvents'[i].tokens = tokens
        BY <2>3, <2>8, <3>2
      <4> QED BY <4>1
    <3> QED BY <2>9, <3>1, <3>2
  <2>12. \A i, j \in EventIds' : runEvents'[i].key = runEvents'[j].key => i = j
    <3>1. \A i \in EventIds : runEvents[i].key # key
      BY <1>2 DEF Recorded
    <3> QED BY <2>3, <2>8, <2>9, <2>10, <3>1 DEF TableInv
  <2>13. \A i \in EventIds : i \in ByThread("s")' <=> i \in ByThread("s")
    BY <2>10 DEF ByThread
  <2>14. n + 1 \in ByThread("s")' <=> thread = "s"
    BY <2>3, <2>8 DEF ByThread
  <2>15. ASSUME NEW i \in EventIds PROVE ThreadUpTo(i)' = ThreadUpTo(i)
    <3>1. \A j \in EventIds' : j <= i => j \in EventIds
      BY <2>1, <2>5, <2>9
    <3>2. \A j \in EventIds : j \in ByThread("s")' <=> j \in ByThread("s")
      BY <2>13
    <3>3. ByThread("s")' \subseteq EventIds' /\ ByThread("s") \subseteq EventIds
      BY DEF ByThread
    <3> QED BY <3>1, <3>2, <3>3 DEF ThreadUpTo
  <2>16. ASSUME thread = "s" PROVE s = Cardinality(ThreadUpTo(n + 1)')
    <3>1. PICK B : B = ByThread("s")
      OBVIOUS
    <3>2. B \subseteq EventIds /\ IsFiniteSet(B)
      BY <2>5, <3>1, FS_Subset DEF ByThread
    <3>3. s = Cardinality(B) + 1
      <4>1. ScopeOf([key |-> key, run |-> run, thread |-> thread, seq |-> 0, tokens |-> tokens]) = <<"thread", "s">>
        BY <2>16 DEF ScopeOf, Unthreaded
      <4>2. \A i \in EventIds : ScopeOf(runEvents[i]) = <<"thread", "s">> <=> runEvents[i].thread = "s"
        <5> SUFFICES ASSUME NEW i \in EventIds
                     PROVE  ScopeOf(runEvents[i]) = <<"thread", "s">> <=> runEvents[i].thread = "s"
          OBVIOUS
        <5>1. CASE runEvents[i].thread = Unthreaded
          <6>1. ScopeOf(runEvents[i])[1] = "run"
            BY <5>1 DEF ScopeOf
          <6> QED BY <5>1, <6>1 DEF Unthreaded
        <5>2. CASE runEvents[i].thread # Unthreaded
          <6>1. ScopeOf(runEvents[i]) = <<"thread", runEvents[i].thread>>
            BY <5>2 DEF ScopeOf
          <6> QED BY <6>1
        <5> QED BY <5>1, <5>2
      <4>3. {i \in EventIds : ScopeOf(runEvents[i]) = <<"thread", "s">>} = B
        BY <3>1, <4>2 DEF ByThread
      <4> QED BY <2>2, <4>1, <4>3 DEF NextSeq
    <3>4. ThreadUpTo(n + 1)' = B \cup {n + 1}
      <4>1. \A i \in EventIds' : i <= n + 1
        BY <2>1, <2>8
      <4>2. ByThread("s")' \subseteq EventIds'
        BY DEF ByThread
      <4>3. ThreadUpTo(n + 1)' = ByThread("s")'
        BY <4>1, <4>2 DEF ThreadUpTo
      <4>4. n + 1 \in ByThread("s")'
        BY <2>14, <2>16
      <4> QED BY <2>9, <2>10, <2>13, <3>1, <3>2, <4>2, <4>3, <4>4
    <3>5. n + 1 \notin B
      BY <2>1, <2>5, <3>2
    <3> QED BY <3>2, <3>3, <3>4, <3>5, FS_AddElement
  <2>17. \A i \in ByThread("s")' : runEvents'[i].seq = Cardinality(ThreadUpTo(i)')
    <3> SUFFICES ASSUME NEW i \in ByThread("s")' PROVE runEvents'[i].seq = Cardinality(ThreadUpTo(i)')
      OBVIOUS
    <3>1. i \in EventIds'
      BY DEF ByThread
    <3>2. CASE i \in EventIds
      BY <2>10, <2>13, <2>15, <3>2 DEF TableInv
    <3>3. CASE i = n + 1
      BY <2>3, <2>8, <2>14, <2>16, <3>3
    <3> QED BY <2>9, <3>1, <3>2, <3>3
  <2>18. n + 1 \in EventIds' /\ runEvents'[n + 1].key = key
    BY <2>1, <2>3, <2>8
  <2>19. TableInv'
    BY <2>8, <2>11, <2>12, <2>17 DEF TableInv
  <2> QED BY <2>10, <2>18, <2>19 DEF Records
<1> QED BY <1>1, <1>2

-----------------------------------------------------------------------------
(* Evidence.                                                               *)

Report == [usage : UsageId \cup {NoUsage}, tokens : Nat]
OnRecord(u) == \E i \in EventIds : runEvents[i].key = UsageKey(u)

EvidenceInv ==
  /\ TableInv
  /\ recorder \in [Recorder -> UsageId \cup {NoUsage}]
  /\ answered \subseteq UsageId /\ \A u \in answered : OnRecord(u)
  /\ reported \in Seq(Report)

\* An append keeps the evidence; the usage it was for may be answered.
LEMMA AppendKeepsEvidence ==
  ASSUME EvidenceInv, NEW key, NEW tokens, Records(key, tokens),
         recorder' \in [Recorder -> UsageId \cup {NoUsage}], reported' = reported,
         \A u \in answered' : u \in answered \/ (u \in UsageId /\ key = UsageKey(u))
  PROVE  EvidenceInv'
<1>1. \A u \in answered' : u \in UsageId
  BY DEF EvidenceInv
<1>2. ASSUME NEW u \in answered' PROVE OnRecord(u)'
  <2>1. CASE u \in answered
    <3>1. PICK i \in EventIds : runEvents[i].key = UsageKey(u)
      BY <2>1 DEF EvidenceInv, OnRecord
    <3>2. i \in EventIds' /\ runEvents'[i] = runEvents[i]
      BY DEF Records
    <3> QED BY <3>1, <3>2 DEF OnRecord, UsageKey
  <2>2. CASE key = UsageKey(u)
    <3>1. PICK i \in EventIds' : runEvents'[i].key = key
      BY DEF Records
    <3> QED BY <2>2, <3>1 DEF OnRecord, UsageKey
  <2> QED BY <2>1, <2>2
<1> QED BY <1>1, <1>2 DEF EvidenceInv, Records

LEMMA SameTable ==
  ASSUME TableInv, UNCHANGED runEvents
  PROVE  TableInv' /\ \A u : OnRecord(u) => OnRecord(u)'
BY DEF TableInv, EventIds, ByThread, ThreadUpTo, OnRecord, UsageKey

LEMMA UnchangedKeepsEvidence ==
  ASSUME EvidenceInv, UNCHANGED <<runEvents, answered>>,
         recorder' \in [Recorder -> UsageId \cup {NoUsage}], reported' \in Seq(Report)
  PROVE  EvidenceInv'
BY SameTable DEF EvidenceInv

LEMMA LooksKeepsEvidence ==
  ASSUME EvidenceInv, NEW r \in Recorder, NEW u \in UsageId, LooksForUsage(r, u)
  PROVE  EvidenceInv'
<1>1. CASE Recorded(UsageKey(u)) # {}
  <2>1. answered' = answered \cup {u} /\ recorder' = recorder /\ reported' = reported /\ runEvents' = runEvents
    BY <1>1 DEF LooksForUsage
  <2>2. OnRecord(u)
    BY <1>1 DEF Recorded, OnRecord
  <2> QED BY <2>1, <2>2, SameTable DEF EvidenceInv
<1>2. CASE Recorded(UsageKey(u)) = {}
  <2>1. recorder' = [recorder EXCEPT ![r] = u] /\ UNCHANGED <<runEvents, answered, reported>>
    BY <1>2 DEF LooksForUsage
  <2>2. recorder' \in [Recorder -> UsageId \cup {NoUsage}]
    BY <2>1 DEF EvidenceInv
  <2> QED BY <2>1, <2>2, UnchangedKeepsEvidence DEF EvidenceInv
<1> QED BY <1>1, <1>2

LEMMA UsageKeepsEvidence ==
  ASSUME EvidenceInv, NEW r \in Recorder, NEW run \in RunId, NEW n \in Nat, n > 0, RecordsUsage(r, run, n)
  PROVE  EvidenceInv'
<1>1. PICK u \in UsageId : u = recorder[r]
  BY DEF EvidenceInv, RecordsUsage
<1>2. /\ RecordRunEvent(UsageKey(u), run, Unthreaded, n) /\ answered' = answered \cup {u}
      /\ recorder' = [recorder EXCEPT ![r] = NoUsage] /\ reported' = reported
  BY <1>1 DEF RecordsUsage
<1>3. UsageKey(u) \in EventKey /\ Tells(UsageKey(u), n)
  BY DEF UsageKey, EventKey, Tells
<1>4. TableInv /\ Unthreaded \in {"s", Unthreaded}
  BY DEF EvidenceInv
<1>5. Records(UsageKey(u), n)
  BY <1>2, <1>3, <1>4, RecordKeeps
<1>6. recorder' \in [Recorder -> UsageId \cup {NoUsage}]
  BY <1>2 DEF EvidenceInv
<1>7. \A v \in answered' : v \in answered \/ (v \in UsageId /\ UsageKey(u) = UsageKey(v))
  BY <1>2
<1> QED BY <1>2, <1>5, <1>6, <1>7, AppendKeepsEvidence

\* An append of a key that names no usage.
LEMMA OtherKeepsEvidence ==
  ASSUME EvidenceInv, NEW key \in EventKey, NEW run \in RunId, NEW thread \in {"s", Unthreaded}, NEW n \in Nat,
         Tells(key, n), RecordRunEvent(key, run, thread, n), UNCHANGED <<recorder, answered, reported>>
  PROVE  EvidenceInv'
<1>1. TableInv /\ recorder' \in [Recorder -> UsageId \cup {NoUsage}]
  BY DEF EvidenceInv
<1>2. Records(key, n)
  BY <1>1, RecordKeeps
<1> QED BY <1>1, <1>2, AppendKeepsEvidence

LEMMA LifecycleKeepsEvidence ==
  ASSUME EvidenceInv, NEW v \in Verb, NEW run \in RunId, RecordLifecycle(v, run)
  PROVE  EvidenceInv'
<1>1. <<"lifecycle", v>> \in EventKey /\ Tells(<<"lifecycle", v>>, 0)
  BY DEF EventKey, Tells
<1>2. RecordRunEvent(<<"lifecycle", v>>, run, "s", 0) /\ UNCHANGED <<recorder, answered, reported>>
  BY DEF RecordLifecycle
<1>3. "s" \in {"s", Unthreaded} /\ 0 \in Nat
  OBVIOUS
<1> QED BY <1>1, <1>2, <1>3, OtherKeepsEvidence

LEMMA BareKeepsEvidence ==
  ASSUME EvidenceInv, NEW run \in RunId, NEW n \in Nat, n > 0, RecordsBare(run, n)
  PROVE  EvidenceInv'
<1>1. PICK k \in Nat : k = Len(runEvents)
  BY EventIdsFinite DEF EvidenceInv
<1>2. <<"bare", k>> \in EventKey /\ Tells(<<"bare", k>>, n)
  BY DEF EventKey, Tells
<1>3. RecordRunEvent(<<"bare", k>>, run, Unthreaded, n) /\ UNCHANGED <<recorder, answered, reported>>
  BY <1>1 DEF RecordsBare
<1>4. Unthreaded \in {"s", Unthreaded}
  OBVIOUS
<1> QED BY <1>2, <1>3, <1>4, OtherKeepsEvidence

LEMMA ReportKeepsEvidence ==
  ASSUME EvidenceInv, NEW u \in UsageId \cup {NoUsage}, NEW n \in Nat, ReportsTokens(u, n)
  PROVE  EvidenceInv'
<1>1. [usage |-> u, tokens |-> n] \in Report
  BY DEF Report
<1>2. reported' \in Seq(Report)
  BY <1>1 DEF EvidenceInv, ReportsTokens
<1> QED BY <1>2, UnchangedKeepsEvidence DEF EvidenceInv, ReportsTokens

-----------------------------------------------------------------------------
(* Evidence counts once.                                                   *)

LEMMA EvidenceCounts == ASSUME EvidenceInv PROVE CountedOnce
<1>1. ASSUME NEW u \in answered PROVE Cardinality({i \in EventIds : runEvents[i].key = UsageKey(u)}) = 1
  <2>1. PICK i \in EventIds : runEvents[i].key = UsageKey(u)
    BY DEF EvidenceInv, OnRecord
  <2>2. {j \in EventIds : runEvents[j].key = UsageKey(u)} = {i}
    BY <2>1 DEF EvidenceInv, TableInv
  <2> QED BY <2>2, FS_Singleton
<1>2. \A run \in RunId : \A i, j \in TokenEvents(run) : runEvents[i].key = runEvents[j].key => i = j
  BY DEF TokenEvents, Timeline, EvidenceInv, TableInv
<1>3. \A i \in ByThread("s") : runEvents[i].seq = Cardinality({j \in ByThread("s") : j <= i})
  BY DEF EvidenceInv, TableInv, ThreadUpTo
<1> QED BY <1>1, <1>2, <1>3 DEF CountedOnce

\* A limit no smaller than the log cuts nothing.
LEMMA AllAreNewest ==
  ASSUME NEW ids, ids \subseteq Nat, IsFiniteSet(ids), NEW limit \in Nat, Cardinality(ids) <= limit
  PROVE  Newest(ids, limit) = ids
<1> SUFFICES ASSUME NEW i \in ids PROVE Cardinality({j \in ids : j > i}) < limit
  BY DEF Newest
<1>1. {j \in ids : j > i} \subseteq ids \ {i}
  OBVIOUS
<1>2. IsFiniteSet(ids \ {i}) /\ Cardinality(ids \ {i}) = Cardinality(ids) - 1
  BY FS_RemoveElement
<1>3. PICK later : later = {j \in ids : j > i}
  OBVIOUS
<1>4. Cardinality(later) <= Cardinality(ids \ {i}) /\ IsFiniteSet(later)
  BY <1>1, <1>2, <1>3, FS_Subset
<1>5. Cardinality(later) \in Nat /\ Cardinality(ids) \in Nat
  BY <1>4, FS_CardinalityType
<1> QED BY <1>2, <1>3, <1>4, <1>5

\* The image of a finite set.
LEMMA RowsFinite ==
  ASSUME NEW S, IsFiniteSet(S), NEW f, DOMAIN f = S
  PROVE  IsFiniteSet({f[i] : i \in S})
<1>1. [i \in S |-> f[i]] \in Surjection(S, {f[i] : i \in S})
  BY DEF Surjection
<1> QED BY <1>1, FS_Surjection

\* The rows of both logs.
CoordRows(limit) == {NormalizeCoordRow(i) : i \in Newest(DOMAIN reported, limit)}
RunRows(limit) == {NormalizeRunEventRow(i) : i \in Newest(TokenIds, limit)}
Observed(limit) == CoordRows(limit) \cup RunRows(limit)

LEMMA RollupIs ==
  ASSUME NEW limit
  PROVE  Rollup(limit) =
           [observed |-> Observed(limit), ledger |-> DedupeEvents(Observed(limit)),
            authoritative |-> Len(reported) <= limit /\ Cardinality(TokenIds) <= limit]
BY DEF Rollup, Observed, CoordRows, RunRows

LEMMA IdsTyped ==
  ASSUME EvidenceInv, NEW limit \in Nat
  PROVE  /\ DOMAIN reported \subseteq Nat /\ IsFiniteSet(DOMAIN reported) /\ Cardinality(DOMAIN reported) = Len(reported)
         /\ TokenIds \subseteq Nat /\ IsFiniteSet(TokenIds) /\ TokenIds \subseteq EventIds
         /\ Newest(DOMAIN reported, limit) \subseteq DOMAIN reported /\ Newest(TokenIds, limit) \subseteq TokenIds
<1>1. PICK n \in Nat : n = Len(reported) /\ DOMAIN reported = 1 .. n
  BY DEF EvidenceInv
<1>2. IsFiniteSet(1 .. n) /\ Cardinality(1 .. n) = n
  BY FS_Interval
<1>3. EventIds = 1 .. Len(runEvents) /\ Len(runEvents) \in Nat /\ IsFiniteSet(EventIds)
  BY EventIdsFinite DEF EvidenceInv
<1>4. TokenIds \subseteq EventIds
  BY DEF TokenIds
<1>5. IsFiniteSet(TokenIds) /\ TokenIds \subseteq Nat
  <2>1. EventIds \subseteq Nat
    BY <1>3
  <2> QED BY <1>3, <1>4, <2>1, FS_Subset
<1> QED BY <1>1, <1>2, <1>4, <1>5 DEF Newest

LEMMA CoordRowIs ==
  ASSUME EvidenceInv, NEW i \in DOMAIN reported
  PROVE  /\ NormalizeCoordRow(i) \in RollupRow
         /\ NormalizeCoordRow(i).source = "coord_events" /\ NormalizeCoordRow(i).id = i
         /\ NormalizeCoordRow(i).usage = reported[i].usage
<1>1. i \in Nat /\ reported[i] \in Report
  BY DEF EvidenceInv
<1>2. reported[i].usage \in UsageId \cup {NoUsage} /\ reported[i].tokens \in Nat
  BY <1>1 DEF Report
<1> QED BY <1>1, <1>2 DEF NormalizeCoordRow, RollupRow

LEMMA RunRowIs ==
  ASSUME EvidenceInv, NEW i \in TokenIds
  PROVE  /\ NormalizeRunEventRow(i) \in RollupRow
         /\ NormalizeRunEventRow(i).source = "run_events" /\ NormalizeRunEventRow(i).id = i
         /\ NormalizeRunEventRow(i).run \in RunId
         /\ \A u \in UsageId : runEvents[i].key = UsageKey(u) => NormalizeRunEventRow(i).usage = u
<1>1. i \in EventIds /\ i \in Nat /\ runEvents[i].tokens > 0
  BY IdsTyped DEF TokenIds
<1>2. runEvents[i] \in RunEvent /\ Tells(runEvents[i].key, runEvents[i].tokens)
  BY <1>1 DEF EvidenceInv, TableInv, EventIds
<1>3. runEvents[i].run \in RunId /\ runEvents[i].tokens \in Nat
  BY <1>2 DEF RunEvent
<1>4. PICK k : k = runEvents[i].key
  OBVIOUS
<1>5. k[1] = "bare" \/ \E u \in UsageId : k = UsageKey(u)
  BY <1>1, <1>2, <1>4 DEF Tells
<1>6. i \in Bare <=> k[1] = "bare"
  BY <1>1, <1>4 DEF Bare
<1>7. \A u \in UsageId : k = UsageKey(u) => k[1] = "usage" /\ k[2] = u
  BY DEF UsageKey
<1>8. PICK v \in UsageId \cup {NoUsage} : v = IF i \in Bare THEN NoUsage ELSE k[2]
  BY <1>5, <1>6, <1>7
<1>9. NormalizeRunEventRow(i) =
        [source |-> "run_events", id |-> i, run |-> runEvents[i].run, tokens |-> runEvents[i].tokens, usage |-> v]
  BY <1>4, <1>8 DEF NormalizeRunEventRow
<1>10. \A u \in UsageId : k = UsageKey(u) => v = u
  BY <1>6, <1>7, <1>8
<1> QED BY <1>1, <1>3, <1>4, <1>9, <1>10 DEF RollupRow

LEMMA ObservedRows ==
  ASSUME EvidenceInv, NEW limit \in Nat
  PROVE  RollupRows(Observed(limit))
<1>1. PICK A, B : A = Newest(DOMAIN reported, limit) /\ B = Newest(TokenIds, limit)
  OBVIOUS
<1>2. A \subseteq DOMAIN reported /\ B \subseteq TokenIds /\ IsFiniteSet(A) /\ IsFiniteSet(B)
  BY <1>1, IdsTyped, FS_Subset
<1>3. \A e \in CoordRows(limit) : \E i \in A : e = NormalizeCoordRow(i)
  BY <1>1 DEF CoordRows
<1>4. \A e \in RunRows(limit) : \E i \in B : e = NormalizeRunEventRow(i)
  BY <1>1 DEF RunRows
<1>5. \A i \in A : /\ NormalizeCoordRow(i) \in RollupRow
                   /\ NormalizeCoordRow(i).source = "coord_events" /\ NormalizeCoordRow(i).id = i
  BY <1>2, CoordRowIs
<1>6. \A i \in B : /\ NormalizeRunEventRow(i) \in RollupRow /\ NormalizeRunEventRow(i).run \in RunId
                   /\ NormalizeRunEventRow(i).source = "run_events" /\ NormalizeRunEventRow(i).id = i
  BY <1>2, RunRowIs
<1>7. IsFiniteSet(CoordRows(limit))
  <2>1. PICK f : f = [i \in A |-> NormalizeCoordRow(i)]
    OBVIOUS
  <2>2. IsFiniteSet({f[i] : i \in A})
    BY <1>2, <2>1, RowsFinite
  <2>3. CoordRows(limit) = {f[i] : i \in A}
    BY <1>1, <2>1 DEF CoordRows
  <2> QED BY <2>2, <2>3
<1>8. IsFiniteSet(RunRows(limit))
  <2>1. PICK f : f = [i \in B |-> NormalizeRunEventRow(i)]
    OBVIOUS
  <2>2. IsFiniteSet({f[i] : i \in B})
    BY <1>2, <2>1, RowsFinite
  <2>3. RunRows(limit) = {f[i] : i \in B}
    BY <1>1, <2>1 DEF RunRows
  <2> QED BY <2>2, <2>3
<1>9. IsFiniteSet(Observed(limit))
  BY <1>7, <1>8, FS_Union DEF Observed
<1>10. Observed(limit) \subseteq RollupRow
  BY <1>3, <1>4, <1>5, <1>6 DEF Observed
<1>11. \A e \in Observed(limit) : e.source = "run_events" => e.run \in RunId
  BY <1>3, <1>4, <1>5, <1>6 DEF Observed
<1>12. \A e, f \in Observed(limit) : e.source = f.source /\ e.id = f.id => e = f
  <2>1. \A e \in Observed(limit) :
          \/ e.source = "coord_events" /\ e = NormalizeCoordRow(e.id)
          \/ e.source = "run_events" /\ e = NormalizeRunEventRow(e.id)
    BY <1>3, <1>4, <1>5, <1>6 DEF Observed
  <2> SUFFICES ASSUME NEW e \in Observed(limit), NEW f \in Observed(limit), e.source = f.source, e.id = f.id
               PROVE  e = f
    OBVIOUS
  <2>2. CASE e.source = "coord_events"
    BY <2>1, <2>2
  <2>3. CASE e.source = "run_events"
    BY <2>1, <2>3
  <2> QED BY <2>1, <2>2, <2>3
<1> QED BY <1>9, <1>10, <1>11, <1>12 DEF RollupRows

\* What an authoritative rollup sees.
LEMMA AuthoritativeSeesAll ==
  ASSUME EvidenceInv, NEW limit \in Nat, Len(reported) <= limit, Cardinality(TokenIds) <= limit
  PROVE  /\ \A i \in DOMAIN reported : NormalizeCoordRow(i) \in Observed(limit)
         /\ \A i \in TokenIds : NormalizeRunEventRow(i) \in Observed(limit)
<1>1. Newest(DOMAIN reported, limit) = DOMAIN reported /\ Newest(TokenIds, limit) = TokenIds
  BY IdsTyped, AllAreNewest
<1> QED BY <1>1 DEF Observed, CoordRows, RunRows

LEMMA EvidenceRollsUp == ASSUME EvidenceInv PROVE RollupCountsOnce
<1> SUFFICES ASSUME NEW limit \in EventLimits
    PROVE LET r == Rollup(limit) IN
    /\ \A e, f \in r.ledger : e.usage = f.usage /\ e.usage # NoUsage => e = f
    /\ \A e \in r.observed \ r.ledger :
         \E f \in r.ledger : f.usage = e.usage /\ (e.usage = NoUsage => f.tokens = e.tokens /\ f.id < e.id /\ f.run # e.run)
    /\ r.authoritative =>
         /\ \A u \in answered : \E e \in r.ledger : e.usage = u /\ e.source = "run_events"
         /\ \A i \in DOMAIN reported : \E e \in r.ledger : e.usage = reported[i].usage
  BY DEF RollupCountsOnce
<1>1. PICK N, L : N = Observed(limit) /\ L = DedupeEvents(N)
  OBVIOUS
<1>2. limit \in Nat
  BY LoopsAssumption
<1>3. RollupRows(N)
  BY <1>1, <1>2, ObservedRows
<1>4. \A e, f \in L : e.usage = f.usage /\ e.usage # NoUsage => e = f
  BY <1>1, <1>3, NamedOnce
<1>5. \A e \in N : e.usage # NoUsage =>
        \E f \in L : f.usage = e.usage /\ (e.source = "run_events" => f.source = "run_events")
  BY <1>1, <1>3, NamedStays DEF NamedIn
<1>6. \A e \in N : e \notin L /\ e.usage = NoUsage =>
        \E f \in L : f.usage = NoUsage /\ f.tokens = e.tokens /\ f.id < e.id /\ f.run # e.run
  BY <1>1, <1>3, MirrorStays
<1>7. \A e \in N \ L :
        \E f \in L : f.usage = e.usage /\ (e.usage = NoUsage => f.tokens = e.tokens /\ f.id < e.id /\ f.run # e.run)
  <2> SUFFICES ASSUME NEW e \in N \ L
      PROVE \E f \in L : f.usage = e.usage /\ (e.usage = NoUsage => f.tokens = e.tokens /\ f.id < e.id /\ f.run # e.run)
    OBVIOUS
  <2>1. CASE e.usage = NoUsage
    BY <1>6, <2>1
  <2>2. CASE e.usage # NoUsage
    BY <1>5, <2>2
  <2> QED BY <2>1, <2>2
<1>8. ASSUME Len(reported) <= limit, Cardinality(TokenIds) <= limit, NEW u \in answered
      PROVE \E e \in L : e.usage = u /\ e.source = "run_events"
  <2>1. u \in UsageId /\ u # NoUsage
    BY LoopsAssumption DEF EvidenceInv
  <2>2. PICK i \in EventIds : runEvents[i].key = UsageKey(u)
    BY DEF EvidenceInv, OnRecord
  <2>3. i \in TokenIds
    <3>1. UsageKey(u)[1] = "usage"
      BY DEF UsageKey
    <3>2. runEvents[i].tokens > 0
      BY <2>2, <3>1 DEF EvidenceInv, TableInv, Tells
    <3> QED BY <3>2 DEF TokenIds
  <2>4. PICK e \in N : e.usage = u /\ e.source = "run_events"
    BY <1>1, <1>2, <1>8, <2>1, <2>2, <2>3, AuthoritativeSeesAll, RunRowIs
  <2> QED BY <1>5, <2>1, <2>4
<1>9. ASSUME Len(reported) <= limit, Cardinality(TokenIds) <= limit, NEW i \in DOMAIN reported
      PROVE \E e \in L : e.usage = reported[i].usage
  <2>1. PICK e \in N : e.usage = reported[i].usage /\ e.source = "coord_events"
    BY <1>1, <1>2, <1>9, AuthoritativeSeesAll, CoordRowIs
  <2>2. CASE e.usage # NoUsage
    BY <1>5, <2>1, <2>2
  <2>3. CASE e.usage = NoUsage
    <3>1. e \notin NamedIn(N) /\ e \notin AliasedIn(N)
      BY <2>1, <2>3 DEF NamedIn, AliasedIn
    <3>2. e \in L
      BY <1>1, <3>1, DedupeTells
    <3> QED BY <2>1, <3>2
  <2> QED BY <2>2, <2>3
<1>10. /\ Rollup(limit).observed = N /\ Rollup(limit).ledger = L
       /\ Rollup(limit).authoritative <=> Len(reported) <= limit /\ Cardinality(TokenIds) <= limit
  BY <1>1, RollupIs
<1> QED BY <1>4, <1>7, <1>8, <1>9, <1>10

-----------------------------------------------------------------------------
(* The runners.                                                            *)

Saying == {"none", "continue", "success", "blocked", "exhausted", "stagnated", "raised"}
LoopRunner ==
  [pc : {"idle", "top", "iterating", "recorded", "ended"}, iter : Nat, last : Signature \cup {"none"},
   repeated : Nat,
   said : Saying, receipts : Seq(Signature), late : Nat]

\* The iteration a runner is in tells how many receipts it has.
Counted(r) ==
  LET n == Len(r.receipts) IN
  /\ n <= MaxIterations
  /\ r.pc = "idle" => n = 0
  /\ r.pc \in {"top", "iterating"} => r.iter = n + 1
  /\ r.pc = "iterating" => n < MaxIterations
  /\ r.pc = "recorded" => r.iter = n
\* The wall clock: a loop that goes on has recorded nothing late.
InTime(r) ==
  /\ r.late <= 1
  /\ r.pc \in {"idle", "top", "iterating"} \/ (r.pc = "recorded" /\ r.said = "continue") => r.late = 0
\* `repeated` counts the receipts at the end that are alike.
Alike(r) ==
  LET n == Len(r.receipts) IN
  /\ r.repeated <= n
  /\ n > 0 => r.repeated > 0 /\ r.receipts[n] = r.last
  /\ n > r.repeated => r.receipts[n - r.repeated] # r.last
  /\ r.pc \in {"top", "iterating"} \/ (r.pc = "recorded" /\ r.said = "continue") => r.repeated < StagnationLimit
Bounded(r) == r \in LoopRunner /\ Counted(r) /\ InTime(r) /\ Alike(r)
RunnerInv == runner \in [Runner -> LoopRunner] /\ \A l \in Runner : Bounded(runner[l])

LEMMA StepKeepsRunners ==
  ASSUME RunnerInv, NEW l \in Runner, NEW r, Bounded(r), runner' = [runner EXCEPT ![l] = r]
  PROVE  RunnerInv'
<1>1. r \in LoopRunner
  BY DEF Bounded
<1>2. runner' \in [Runner -> LoopRunner] /\ \A k \in Runner : runner'[k] = IF k = l THEN r ELSE runner[k]
  BY <1>1 DEF RunnerInv
<1>3. ASSUME NEW k \in Runner PROVE Bounded(runner'[k])
  BY <1>2 DEF RunnerInv
<1>4. \A x : Bounded(x)' <=> Bounded(x)
  BY DEF Bounded, LoopRunner, Counted, InTime, Alike
<1> QED BY <1>2, <1>3, <1>4 DEF RunnerInv, LoopRunner, Bounded, Counted, InTime, Alike

LEMMA RestingBounded == Bounded(Resting)
<1>1. Resting \in LoopRunner
  <2>1. << >> \in Seq(Signature)
    OBVIOUS
  <2> QED BY <2>1 DEF Resting, LoopRunner, Saying
<1>2. Len(Resting.receipts) = 0
  BY DEF Resting
<1>3. Counted(Resting) /\ InTime(Resting)
  BY <1>2, LoopsAssumption DEF Resting, Counted, InTime
<1>4. Alike(Resting)
  BY <1>2, LoopsAssumption DEF Resting, Alike
<1> QED BY <1>1, <1>3, <1>4 DEF Bounded

\* A loop that ends.
LEMMA EndBounded ==
  ASSUME NEW r, Bounded(r), NEW how \in Saying
  PROVE  Bounded([r EXCEPT !.pc = "ended", !.said = how])
<1>1. PICK q : q = [r EXCEPT !.pc = "ended", !.said = how]
  OBVIOUS
<1>2. r \in LoopRunner
  BY DEF Bounded
<1>3. /\ q \in LoopRunner /\ q.pc = "ended" /\ q.iter = r.iter /\ q.last = r.last
      /\ q.repeated = r.repeated /\ q.receipts = r.receipts /\ q.late = r.late
  BY <1>1, <1>2 DEF LoopRunner
<1>4. Counted(q) /\ InTime(q) /\ Alike(q)
  BY <1>3 DEF Bounded, Counted, InTime, Alike
<1> QED BY <1>1, <1>3, <1>4 DEF Bounded

LEMMA BeginKeepsRunners ==
  ASSUME RunnerInv, NEW l \in Runner, BeginLoop(l)
  PROVE  RunnerInv'
<1>1. CASE proof
  <2>1. runner' = [runner EXCEPT ![l] = [runner[l] EXCEPT !.pc = "ended", !.said = "success"]]
    BY <1>1 DEF BeginLoop, Ends, Steps
  <2>2. Bounded(runner[l]) /\ "success" \in Saying
    BY DEF RunnerInv, Saying
  <2>3. Bounded([runner[l] EXCEPT !.pc = "ended", !.said = "success"])
    BY <2>2, EndBounded
  <2> QED BY <2>1, <2>3, StepKeepsRunners
<1>2. CASE ~proof
  <2>1. PICK r : r = [Resting EXCEPT !.pc = "top", !.iter = 1]
    OBVIOUS
  <2>2. runner' = [runner EXCEPT ![l] = r]
    BY <1>2, <2>1 DEF BeginLoop, Steps
  <2>3. Resting \in LoopRunner
    BY RestingBounded DEF Bounded
  <2>4. /\ r \in LoopRunner /\ r.pc = "top" /\ r.iter = 1 /\ r.last = Resting.last
        /\ r.repeated = Resting.repeated /\ r.receipts = Resting.receipts /\ r.late = Resting.late
    BY <2>1, <2>3 DEF LoopRunner
  <2>5. Len(r.receipts) = 0 /\ r.repeated = 0 /\ r.late = 0
    BY <2>4 DEF Resting
  <2>6. Counted(r) /\ InTime(r)
    BY <2>4, <2>5, LoopsAssumption DEF Counted, InTime
  <2>7. Alike(r)
    BY <2>4, <2>5, LoopsAssumption DEF Alike
  <2> QED BY <2>2, <2>4, <2>6, <2>7, StepKeepsRunners DEF Bounded
<1> QED BY <1>1, <1>2

LEMMA TopKeepsRunners ==
  ASSUME RunnerInv, NEW l \in Runner, TopOfLoop(l)
  PROVE  RunnerInv'
<1>0. PICK r : r = runner[l]
  OBVIOUS
<1>1. Bounded(r) /\ r \in LoopRunner /\ r.pc = "top"
  BY <1>0 DEF RunnerInv, Bounded, TopOfLoop
<1>2. CASE r.iter > MaxIterations \/ l \in spent
  <2>1. runner' = [runner EXCEPT ![l] = [r EXCEPT !.pc = "ended", !.said = "exhausted"]]
    BY <1>0, <1>2 DEF TopOfLoop, Ends, Steps
  <2>2. "exhausted" \in Saying
    BY DEF Saying
  <2>3. Bounded([r EXCEPT !.pc = "ended", !.said = "exhausted"])
    BY <1>1, <2>2, EndBounded
  <2> QED BY <2>1, <2>3, StepKeepsRunners
<1>3. CASE ~(r.iter > MaxIterations \/ l \in spent)
  <2>1. PICK q : q = [r EXCEPT !.pc = "iterating"]
    OBVIOUS
  <2>2. runner' = [runner EXCEPT ![l] = q]
    BY <1>0, <1>3, <2>1 DEF TopOfLoop, Steps
  <2>3. /\ q \in LoopRunner /\ q.pc = "iterating" /\ q.iter = r.iter /\ q.last = r.last /\ q.said = r.said
        /\ q.repeated = r.repeated /\ q.receipts = r.receipts /\ q.late = r.late
    BY <1>1, <2>1 DEF LoopRunner
  <2>4. Len(r.receipts) \in Nat /\ r.iter \in Nat
    BY <1>1 DEF LoopRunner
  <2>5. Counted(q)
    BY <1>1, <1>3, <2>3, <2>4, LoopsAssumption DEF Bounded, Counted
  <2>6. InTime(q) /\ Alike(q)
    BY <1>1, <2>3 DEF Bounded, InTime, Alike
  <2> QED BY <2>2, <2>3, <2>5, <2>6, StepKeepsRunners DEF Bounded
<1> QED BY <1>2, <1>3

LEMMA RaiseKeepsRunners ==
  ASSUME RunnerInv, NEW l \in Runner, IterateRaises(l)
  PROVE  RunnerInv'
<1>1. runner' = [runner EXCEPT ![l] = [runner[l] EXCEPT !.pc = "ended", !.said = "raised"]]
  BY DEF IterateRaises, Ends, Steps
<1>2. Bounded(runner[l]) /\ "raised" \in Saying
  BY DEF RunnerInv, Saying
<1>3. Bounded([runner[l] EXCEPT !.pc = "ended", !.said = "raised"])
  BY <1>2, EndBounded
<1> QED BY <1>1, <1>3, StepKeepsRunners

LEMMA ReceiptKeepsRunners ==
  ASSUME RunnerInv, NEW l \in Runner, AfterReceipt(l)
  PROVE  RunnerInv'
<1>0. PICK r : r = runner[l]
  OBVIOUS
<1>1. Bounded(r) /\ r \in LoopRunner /\ r.pc = "recorded"
  BY <1>0 DEF RunnerInv, Bounded, AfterReceipt
<1>2. CASE proof \/ r.said # "continue"
  <2>1. PICK how \in Saying : runner' = [runner EXCEPT ![l] = [r EXCEPT !.pc = "ended", !.said = how]]
    <3>1. CASE proof
      <4>1. runner' = [runner EXCEPT ![l] = [r EXCEPT !.pc = "ended", !.said = "success"]]
        BY <1>0, <3>1 DEF AfterReceipt, Ends, Steps
      <4> QED BY <4>1 DEF Saying
    <3>2. CASE ~proof
      <4>1. runner' = [runner EXCEPT ![l] = [r EXCEPT !.pc = "ended", !.said = r.said]]
        BY <1>0, <1>2, <3>2 DEF AfterReceipt, Ends, Steps
      <4>2. r.said \in Saying
        BY <1>1 DEF LoopRunner
      <4> QED BY <4>1, <4>2
    <3> QED BY <3>1, <3>2
  <2>2. Bounded([r EXCEPT !.pc = "ended", !.said = how])
    BY <1>1, EndBounded
  <2> QED BY <2>1, <2>2, StepKeepsRunners
<1>3. CASE ~proof /\ r.said = "continue"
  <2>1. PICK i \in Nat : i = r.iter + 1
    <3>1. r.iter \in Nat
      BY <1>1 DEF LoopRunner
    <3> QED BY <3>1
  <2>2. PICK q : q = [r EXCEPT !.pc = "top", !.iter = i]
    OBVIOUS
  <2>3. runner' = [runner EXCEPT ![l] = q]
    BY <1>0, <1>3, <2>1, <2>2 DEF AfterReceipt, Steps
  <2>4. /\ q \in LoopRunner /\ q.pc = "top" /\ q.iter = i /\ q.last = r.last /\ q.said = r.said
        /\ q.repeated = r.repeated /\ q.receipts = r.receipts /\ q.late = r.late
    BY <1>1, <2>1, <2>2 DEF LoopRunner
  <2>5. Counted(q)
    BY <1>1, <2>1, <2>4 DEF Bounded, Counted
  <2>6. InTime(q) /\ Alike(q)
    BY <1>1, <1>3, <2>4 DEF Bounded, InTime, Alike
  <2> QED BY <2>3, <2>4, <2>5, <2>6, StepKeepsRunners DEF Bounded
<1> QED BY <1>2, <1>3

LEMMA IterateKeepsRunners ==
  ASSUME RunnerInv, NEW l \in Runner, NEW sig \in Signature, NEW said \in ReceiptStates, Iterates(l, sig, said)
  PROVE  RunnerInv'
<1>0. PICK r : r = runner[l]
  OBVIOUS
<1>1. Bounded(r) /\ r \in LoopRunner /\ r.pc = "iterating"
  BY <1>0 DEF RunnerInv, Bounded, Iterates
<1>2. PICK n \in Nat, c \in Nat, t \in Nat : n = Len(r.receipts) /\ c = r.repeated /\ t = r.late
  BY <1>1 DEF LoopRunner
<1>3. PICK k \in Nat : k = IF sig = r.last THEN c + 1 ELSE 1
  OBVIOUS
<1>4. PICK x : x = Exhausted(l, said)
  OBVIOUS
<1>5. PICK w : w = Stagnated(k, x)
  OBVIOUS
<1>6. x \in Saying /\ w \in Saying
  BY <1>4, <1>5 DEF Exhausted, Stagnated, Saying, ReceiptStates
<1>7. w = "continue" => l \notin spent /\ ~(k >= StagnationLimit)
  BY <1>4, <1>5 DEF Exhausted, Stagnated
<1>8. PICK d \in Nat : d = IF l \in spent THEN t + 1 ELSE t
  OBVIOUS
<1>9. PICK all : all = Append(r.receipts, sig)
  OBVIOUS
<1>10. PICK q : q = [r EXCEPT !.pc = "recorded", !.last = sig, !.repeated = k, !.said = w, !.receipts = all, !.late = d]
  OBVIOUS
<1>11. runner' = [runner EXCEPT ![l] = q]
  BY <1>0, <1>2, <1>3, <1>4, <1>5, <1>8, <1>9, <1>10 DEF Iterates, Steps
<1>12. r.receipts \in Seq(Signature)
  BY <1>1 DEF LoopRunner
<1>13. all \in Seq(Signature) /\ Len(all) = n + 1 /\ all[n + 1] = sig /\ \A i \in 1 .. n : all[i] = r.receipts[i]
  BY <1>2, <1>9, <1>12
<1>14. /\ q \in LoopRunner /\ q.pc = "recorded" /\ q.iter = r.iter /\ q.last = sig /\ q.repeated = k
       /\ q.said = w /\ q.receipts = all /\ q.late = d
  BY <1>1, <1>6, <1>10, <1>13 DEF LoopRunner
<1>15. r.iter = n + 1 /\ n < MaxIterations /\ t = 0
  BY <1>1, <1>2 DEF Bounded, Counted, InTime
<1>16. Counted(q)
  BY <1>13, <1>14, <1>15, LoopsAssumption DEF Counted
<1>17. InTime(q)
  BY <1>7, <1>8, <1>14, <1>15 DEF InTime
<1>18. /\ c <= n /\ (n > 0 => c > 0 /\ r.receipts[n] = r.last)
       /\ (n > c => r.receipts[n - c] # r.last)
  BY <1>1, <1>2 DEF Bounded, Alike
<1>19. k <= n + 1 /\ k > 0
  BY <1>3, <1>18
<1>20. ASSUME n + 1 > k PROVE all[n + 1 - k] # sig
  <2>1. CASE sig = r.last
    <3>1. n > c /\ n + 1 - k = n - c /\ n - c \in 1 .. n
      BY <1>3, <1>20, <2>1, <1>18
    <3> QED BY <1>13, <1>18, <2>1, <3>1
  <2>2. CASE sig # r.last
    <3>1. n + 1 - k = n /\ n \in 1 .. n
      BY <1>3, <1>20, <2>2
    <3> QED BY <1>13, <1>18, <2>2, <3>1
  <2> QED BY <2>1, <2>2
<1>21. w = "continue" => k < StagnationLimit
  BY <1>7, LoopsAssumption
<1>22. Alike(q)
  BY <1>13, <1>14, <1>19, <1>20, <1>21 DEF Alike
<1> QED BY <1>11, <1>14, <1>16, <1>17, <1>22, StepKeepsRunners DEF Bounded

LEMMA DeathKeepsRunners ==
  ASSUME RunnerInv, NEW l \in Runner, RunnerDies(l)
  PROVE  RunnerInv'
<1>1. runner' = [runner EXCEPT ![l] = Resting]
  BY DEF RunnerDies
<1> QED BY <1>1, RestingBounded, StepKeepsRunners

LEMMA SameRunners == ASSUME RunnerInv, UNCHANGED runner PROVE RunnerInv'
BY DEF RunnerInv, LoopRunner, Bounded, Counted, InTime, Alike

\* The bounds follow.
LEMMA RunnersStop == ASSUME RunnerInv PROVE LoopStops
<1> SUFFICES ASSUME NEW l \in Runner
    PROVE LET n == Len(runner[l].receipts) IN
          /\ n <= MaxIterations /\ runner[l].late <= 1
          /\ runner[l].pc \in {"top", "iterating"} /\ n >= StagnationLimit =>
               \E i \in n - StagnationLimit + 1 .. n : runner[l].receipts[i] # runner[l].receipts[n]
  BY DEF LoopStops
<1>0. PICK r : r = runner[l]
  OBVIOUS
<1>1. Bounded(r) /\ r \in LoopRunner
  BY <1>0 DEF RunnerInv, Bounded
<1>2. PICK n \in Nat, c \in Nat : n = Len(r.receipts) /\ c = r.repeated
  BY <1>1 DEF LoopRunner
<1>3. n <= MaxIterations /\ r.late <= 1
  BY <1>1, <1>2 DEF Bounded, Counted, InTime
<1>4. ASSUME r.pc \in {"top", "iterating"}, n >= StagnationLimit
      PROVE \E i \in n - StagnationLimit + 1 .. n : r.receipts[i] # r.receipts[n]
  <2>1. c < StagnationLimit /\ StagnationLimit \in Nat
    BY <1>1, <1>2, <1>4, LoopsAssumption DEF Bounded, Alike
  <2>2. n > c /\ n > 0
    BY <1>4, <2>1
  <2>3. r.receipts[n - c] # r.receipts[n]
    BY <1>1, <1>2, <2>2 DEF Bounded, Alike
  <2>4. n - c \in n - StagnationLimit + 1 .. n
    BY <2>1
  <2> QED BY <2>3, <2>4
<1> QED BY <1>0, <1>2, <1>3, <1>4

-----------------------------------------------------------------------------
(* The loops.                                                              *)

LoopInv == RunnerInv /\ EvidenceInv

LEMMA LoopStart == LoopInit => LoopInv
<1> SUFFICES ASSUME LoopInit PROVE LoopInv
  OBVIOUS
<1>1. RunnerInv
  <2>1. Resting \in LoopRunner
    BY RestingBounded DEF Bounded
  <2> QED BY <2>1, RestingBounded DEF LoopInit, RunnerInv
<1>2. TableInv
  <2>1. runEvents = << >> /\ << >> \in Seq(RunEvent) /\ DOMAIN << >> = {}
    BY DEF LoopInit
  <2> QED BY <2>1 DEF TableInv, EventIds, ByThread
<1>3. EvidenceInv
  <2>1. reported = << >> /\ << >> \in Seq(Report)
    BY DEF LoopInit
  <2> QED BY <1>2, <2>1 DEF LoopInit, EvidenceInv
<1> QED BY <1>1, <1>3 DEF LoopInv

LEMMA IterateKeepsEvidence ==
  ASSUME RunnerInv, EvidenceInv, NEW l \in Runner, NEW sig \in Signature, NEW said \in ReceiptStates,
         Iterates(l, sig, said)
  PROVE  EvidenceInv'
<1>1. PICK k : k = ReceiptKey(l)
  OBVIOUS
<1>2. RunOf[l] \in RunId /\ runner[l].iter \in Nat
  BY LoopsAssumption DEF RunnerInv, LoopRunner
<1>3. k = <<"receipt", RunOf[l], runner[l].iter>>
  BY <1>1 DEF ReceiptKey
<1>4. k \in EventKey
  BY <1>2, <1>3 DEF EventKey
<1>5. Tells(k, 0)
  BY <1>3 DEF Tells
<1>6. RecordRunEvent(k, RunOf[l], Unthreaded, 0) /\ UNCHANGED <<recorder, answered, reported>>
  BY <1>1 DEF Iterates, Steps
<1>7. Unthreaded \in {"s", Unthreaded} /\ 0 \in Nat
  OBVIOUS
<1> QED BY <1>2, <1>4, <1>5, <1>6, <1>7, OtherKeepsEvidence

LEMMA SameEvidence ==
  ASSUME EvidenceInv, UNCHANGED <<runEvents, recorder, answered, reported>>
  PROVE  EvidenceInv'
BY UnchangedKeepsEvidence DEF EvidenceInv

LEMMA LoopKept ==
  LoopInv /\ [LoopNext \/ EvidenceNext \/ TokensNext]_loopVars => LoopInv'
<1> SUFFICES ASSUME LoopInv, [LoopNext \/ EvidenceNext \/ TokensNext]_loopVars PROVE LoopInv'
  OBVIOUS
<1> USE DEF LoopInv
<1>1. ASSUME NEW l \in Runner, BeginLoop(l) PROVE LoopInv'
  <2>1. UNCHANGED <<runEvents, recorder, answered, reported>>
    BY <1>1 DEF BeginLoop, Ends, Steps
  <2> QED BY <1>1, <2>1, BeginKeepsRunners, SameEvidence
<1>2. ASSUME NEW l \in Runner, TopOfLoop(l) PROVE LoopInv'
  <2>1. UNCHANGED <<runEvents, recorder, answered, reported>>
    BY <1>2 DEF TopOfLoop, Ends, Steps
  <2> QED BY <1>2, <2>1, TopKeepsRunners, SameEvidence
<1>3. ASSUME NEW l \in Runner, AfterReceipt(l) PROVE LoopInv'
  <2>1. UNCHANGED <<runEvents, recorder, answered, reported>>
    BY <1>3 DEF AfterReceipt, Ends, Steps
  <2> QED BY <1>3, <2>1, ReceiptKeepsRunners, SameEvidence
<1>4. ASSUME NEW l \in Runner, IterateRaises(l) PROVE LoopInv'
  <2>1. UNCHANGED <<runEvents, recorder, answered, reported>>
    BY <1>4 DEF IterateRaises, Ends, Steps
  <2> QED BY <1>4, <2>1, RaiseKeepsRunners, SameEvidence
<1>5. ASSUME NEW l \in Runner, NEW sig \in Signature, NEW said \in ReceiptStates, Iterates(l, sig, said)
      PROVE LoopInv'
  BY <1>5, IterateKeepsRunners, IterateKeepsEvidence
<1>6. ASSUME NEW l \in Runner, RunnerDies(l) PROVE LoopInv'
  <2>1. UNCHANGED <<runEvents, recorder, answered, reported>>
    BY <1>6 DEF RunnerDies
  <2> QED BY <1>6, <2>1, DeathKeepsRunners, SameEvidence
<1>7. ASSUME NEW l \in Runner, WallClockRunsOut(l) PROVE LoopInv'
  BY <1>7, SameRunners, SameEvidence DEF WallClockRunsOut
<1>8. ASSUME ProofWritten PROVE LoopInv'
  BY <1>8, SameRunners, SameEvidence DEF ProofWritten
<1>9. ASSUME NEW r \in Recorder, NEW u \in UsageId, LooksForUsage(r, u) PROVE LoopInv'
  <2>1. UNCHANGED runner
    BY <1>9 DEF LooksForUsage
  <2> QED BY <1>9, <2>1, SameRunners, LooksKeepsEvidence
<1>10. ASSUME NEW r \in Recorder, NEW run \in RunId, NEW n \in {1, 2}, RecordsUsage(r, run, n) PROVE LoopInv'
  <2>1. UNCHANGED runner /\ n \in Nat /\ n > 0
    BY <1>10 DEF RecordsUsage
  <2> QED BY <1>10, <2>1, SameRunners, UsageKeepsEvidence
<1>11. ASSUME NEW r \in Recorder, RecorderDies(r) PROVE LoopInv'
  <2>1. UNCHANGED <<runEvents, runner, answered, reported>> /\ recorder' = [recorder EXCEPT ![r] = NoUsage]
    BY <1>11 DEF RecorderDies
  <2>2. recorder' \in [Recorder -> UsageId \cup {NoUsage}]
    BY <2>1 DEF EvidenceInv
  <2> QED BY <2>1, <2>2, SameRunners, UnchangedKeepsEvidence DEF EvidenceInv
<1>12. ASSUME NEW v \in Verb, NEW run \in RunId, RecordLifecycle(v, run) PROVE LoopInv'
  <2>1. UNCHANGED runner
    BY <1>12 DEF RecordLifecycle
  <2> QED BY <1>12, <2>1, SameRunners, LifecycleKeepsEvidence
<1>13. ASSUME NEW run \in RunId, NEW n \in {1, 2}, RecordsBare(run, n) PROVE LoopInv'
  <2>1. UNCHANGED runner /\ n \in Nat /\ n > 0
    BY <1>13 DEF RecordsBare
  <2> QED BY <1>13, <2>1, SameRunners, BareKeepsEvidence
<1>14. ASSUME NEW u \in UsageId \cup {NoUsage}, ReportsTokens(u, 1) PROVE LoopInv'
  <2>1. UNCHANGED runner /\ 1 \in Nat
    BY <1>14 DEF ReportsTokens
  <2> QED BY <1>14, <2>1, SameRunners, ReportKeepsEvidence
<1>15. CASE UNCHANGED loopVars
  BY <1>15, SameRunners, SameEvidence DEF loopVars
<1>16. CASE LoopNext
  BY <1>1, <1>2, <1>3, <1>4, <1>5, <1>6, <1>7, <1>8, <1>16 DEF LoopNext
<1>17. CASE EvidenceNext
  BY <1>9, <1>10, <1>11, <1>12, <1>17 DEF EvidenceNext
<1>18. CASE TokensNext
  BY <1>9, <1>10, <1>13, <1>14, <1>18 DEF TokensNext
<1> QED BY <1>15, <1>16, <1>17, <1>18

-----------------------------------------------------------------------------
(* Bounded loops end within their limits, their evidence is counted once,    *)
(* also by the rollup, and no row that needs a contract is lost between the  *)
(* supervisor and the loop doctor: for every number of runners, recorders    *)
(* and rows, and every limit (run_bounded_loop_contract, record_run_event,   *)
(* build_token_ledger_rollup, propose_loop_contracts_from_supervisor).       *)
THEOREM LoopsAccountableHolds == LoopsSpec /\ AdviceSpec => []LoopsAccountable
<1>1. LoopInit => LoopInv
  BY LoopStart
<1>2. LoopInv /\ [LoopNext \/ EvidenceNext \/ TokensNext]_loopVars => LoopInv'
  BY LoopKept
<1>3. AdviceInit => AdviceTyped /\ NeedyIsProposed
  BY AdviceKept
<1>4. AdviceTyped /\ NeedyIsProposed /\ [AdviceNext]_adviceVars => AdviceTyped' /\ NeedyIsProposed'
  BY AdviceKept
<1>5. LoopInv /\ AdviceTyped /\ NeedyIsProposed => LoopsAccountable
  BY RunnersStop, EvidenceCounts, EvidenceRollsUp DEF LoopInv, LoopsAccountable
<1> QED BY <1>1, <1>2, <1>3, <1>4, <1>5, PTL DEF LoopsSpec, AdviceSpec
=============================================================================
