--------------------------- MODULE DashboardProofs --------------------------
(***************************************************************************)
(* Theorems about LeadPages and Dashboard for any table, any mixture of    *)
(* page sizes, any number of writers and any columns to count by.          *)
(***************************************************************************)
EXTENDS Dashboard, FiniteSetTheorems, WellFoundedInduction, TLAPS

(* Every nonempty set of numbers has a least element.                      *)
LEMMA LeastNumber ==
    ASSUME NEW T \in SUBSET Nat, T # {}
    PROVE  \E x \in T : \A y \in T : x <= y
<1> DEFINE Less == {ss \in Nat \X Nat : ss[1] < ss[2]}
<1>1. IsWellFoundedOn(Less, Nat)
  BY NatLessThanWellFounded DEF OpToRel
<1> HIDE DEF Less
<1>2. PICK x \in T : \A y \in T : ~(<<y, x>> \in Less)
  BY <1>1, WFMin
<1>3. ASSUME NEW y \in T PROVE x <= y
  <2>1. <<y, x>> \in Nat \X Nat /\ <<y, x>>[1] = y /\ <<y, x>>[2] = x
    OBVIOUS
  <2>2. y < x => <<y, x>> \in Less
    BY <2>1 DEF Less
  <2> QED
    BY <1>2, <2>1, <2>2
<1> QED
  BY <1>3

Above(S, i) == {j \in S : j > i}
Rank(S, i) == Cardinality(Above(S, i))

(* Ids are numbers, and so can be compared.                                *)
LEMMA IdsAreNumbers == ASSUME NEW S \in SUBSET Ids PROVE S \in SUBSET Nat
  BY IdsAssumption

(* How many ids of S lie above one is a number.                            *)
LEMMA RankIsNat ==
    ASSUME NEW S \in SUBSET Ids, NEW i \in S
    PROVE  IsFiniteSet(Above(S, i)) /\ Rank(S, i) \in Nat
<1>1. Above(S, i) \subseteq Ids
  BY DEF Above
<1>2. IsFiniteSet(Above(S, i))
  BY <1>1, IdsAssumption, FS_Subset
<1> QED
  BY <1>2, FS_CardinalityType DEF Rank

(* Ranks fall as ids rise.                                                 *)
LEMMA RankFalls ==
    ASSUME NEW S \in SUBSET Ids, NEW i \in S, NEW j \in S, i <= j
    PROVE  Rank(S, j) <= Rank(S, i)
<1>1. i \in Nat /\ j \in Nat /\ \A m \in S : m \in Nat
  BY IdsAreNumbers
<1>2. \A m \in S : m > j => m > i
  BY <1>1
<1>3. Above(S, j) \subseteq Above(S, i)
  BY <1>2 DEF Above
<1>4. IsFiniteSet(Above(S, i))
  BY RankIsNat
<1> QED
  BY <1>3, <1>4, FS_Subset DEF Rank

(* A page shows the ids of the lowest ranks, and everything above one of   *)
(* them.                                                                   *)
LEMMA NewestIsRank ==
    ASSUME NEW S \in SUBSET Ids, NEW n \in Nat
    PROVE  /\ Newest(S, n) = {i \in S : Rank(S, i) < n}
           /\ \A i \in Newest(S, n), j \in S : i <= j => j \in Newest(S, n)
<1>1. Newest(S, n) = {i \in S : Rank(S, i) < n}
  BY Zenon DEF Newest, Rank, Above
<1>2. ASSUME NEW i \in S, NEW j \in S, i <= j, Rank(S, i) < n
      PROVE  Rank(S, j) < n
  <2>1. Rank(S, j) <= Rank(S, i)
    BY <1>2, RankFalls
  <2>2. Rank(S, j) \in Nat /\ Rank(S, i) \in Nat
    BY RankIsNat
  <2> QED
    BY <1>2, <2>1, <2>2
<1> QED
  BY <1>1, <1>2

(* The page cut from the probe of one more row is the page of the table.   *)
LEMMA PageOfProbe ==
    ASSUME NEW S \in SUBSET Ids, NEW n \in Nat
    PROVE  Newest(Newest(S, n + 1), n) = Newest(S, n)
<1> DEFINE P == Newest(S, n + 1)
<1>1. P \subseteq S
  BY DEF Newest
<1>2. \A i \in P, j \in S : i <= j => j \in P
  BY NewestIsRank
<1>3. P = {i \in S : Rank(S, i) < n + 1}
  BY NewestIsRank
<1> HIDE DEF P
<1>4. ASSUME NEW i \in P PROVE Rank(P, i) = Rank(S, i)
  <2>1. \A j \in S : j \in Nat
    BY IdsAreNumbers
  <2>2. \A j \in S : j > i => j \in P
    BY <1>1, <1>2, <2>1
  <2>3. Above(P, i) = Above(S, i)
    BY <1>1, <2>2 DEF Above
  <2> QED
    BY <2>3 DEF Rank
<1>5. ASSUME NEW i \in S, Rank(S, i) < n PROVE i \in P
  <2>1. Rank(S, i) \in Nat
    BY RankIsNat
  <2> QED
    BY <1>3, <1>5, <2>1
<1>6. P \in SUBSET Ids
  BY <1>1
<1>7. Newest(P, n) = {i \in P : Rank(P, i) < n}
  BY <1>6, NewestIsRank
<1>8. Newest(S, n) = {i \in S : Rank(S, i) < n}
  BY NewestIsRank
<1>9. Newest(P, n) = Newest(S, n)
  BY <1>1, <1>4, <1>5, <1>7, <1>8
<1> QED
  BY <1>9 DEF P

(* If the probe finds no row beyond the page, the page is all there is:    *)
(* of the ids of rank n or more, one of the least rank has rank n.         *)
LEMMA LastPageIsComplete ==
    ASSUME NEW S \in SUBSET Ids, NEW n \in Nat \ {0},
           Newest(S, n) = Newest(S, n + 1)
    PROVE  Newest(S, n) = S
<1> DEFINE Late == {i \in S : ~(Rank(S, i) < n)}
           Ranks == {Rank(S, i) : i \in Late}
<1>0. \A i \in S : Rank(S, i) \in Nat /\ i \in Nat
  BY RankIsNat, IdsAreNumbers
<1>1. Newest(S, n) = {i \in S : Rank(S, i) < n}
      /\ Newest(S, n + 1) = {i \in S : Rank(S, i) < n + 1}
  BY NewestIsRank
<1> SUFFICES ASSUME Late # {} PROVE FALSE
  BY <1>1
<1>2. Ranks \in SUBSET Nat /\ Ranks # {}
  BY <1>0
<1>3. PICK r \in Ranks : \A q \in Ranks : r <= q
  BY <1>2, LeastNumber
<1>4. PICK i \in Late : Rank(S, i) = r
  BY <1>3
<1>5. i \in S /\ i \in Nat /\ Rank(S, i) \in Nat /\ ~(Rank(S, i) < n)
  BY <1>0, <1>4
<1>6. \A j \in S : ~(Rank(S, j) < n) => Rank(S, i) <= Rank(S, j)
  BY <1>3, <1>4
<1> HIDE DEF Late, Ranks
<1>7. Above(S, i) # {}
  BY <1>5, FS_EmptySet DEF Rank
<1>8. Above(S, i) \in SUBSET Nat
  BY <1>0 DEF Above
<1>9. PICK p \in Above(S, i) : \A j \in Above(S, i) : p <= j
  BY <1>7, <1>8, LeastNumber
<1>10. p \in S /\ p \in Nat /\ i < p
  BY <1>5, <1>8, <1>9 DEF Above
<1>11. Above(S, i) = Above(S, p) \cup {p} /\ p \notin Above(S, p)
  <2>1. ASSUME NEW j \in S PROVE j > i <=> j > p \/ j = p
    <3>1. j \in Nat /\ (j > i => p <= j)
      BY <1>0, <1>9 DEF Above
    <3> QED
      BY <1>5, <1>10, <3>1
  <2>2. ~(p > p)
    BY <1>10
  <2> QED
    BY <1>10, <2>1, <2>2 DEF Above
<1>12. Rank(S, i) = Rank(S, p) + 1
  <2>1. IsFiniteSet(Above(S, p))
    BY <1>10, RankIsNat
  <2> QED
    BY <1>11, <2>1, FS_AddElement DEF Rank
<1>13. Rank(S, p) \in Nat
  BY <1>0, <1>10
<1>14. Rank(S, p) < n
  BY <1>5, <1>6, <1>10, <1>12, <1>13
<1>15. Rank(S, i) < n + 1
  BY <1>12, <1>13, <1>14
<1> QED
  BY <1>1, <1>5, <1>15
-----------------------------------------------------------------------------
(* The strengthened invariant holds at the start.                          *)
LEMMA PagesInit == Init => PagesInv
<1> SUFFICES ASSUME Init PROVE PagesInv
  OBVIOUS
<1>1. TypeOK
  <2>1. PICK owner \in [Widgets -> Tenants] :
            tenant = [i \in Ids |-> owner[widget[i]]]
    BY DEF Init
  <2>2. tenant \in [Ids -> Tenants]
    BY <2>1 DEF Init
  <2> QED
    BY <2>2 DEF Init, TypeOK
<1>2. Covered /\ NoLeadTwice /\ NothingSkipped /\ OnlyOwnLeads
  BY DEF Init, Covered, NoLeadTwice, NothingSkipped, OnlyOwnLeads
<1> QED
  BY <1>1, <1>2 DEF PagesInv

(* A lead that is added leaves it true ...                                 *)
LEMMA AddLeadKeeps ==
    ASSUME PagesInv, NEW i \in Ids, AddLead(i)
    PROVE  PagesInv'
<1> USE DEF PagesInv, AddLead, rows, query, reading
<1>1. TypeOK'
  BY DEF TypeOK
<1>2. Matching(table) \subseteq Matching(table)'
  BY DEF Matching
<1>3. Covered'
  BY <1>2 DEF Covered
<1>4. (NoLeadTwice /\ NothingSkipped /\ OnlyOwnLeads)'
  BY DEF NoLeadTwice, NothingSkipped, OnlyOwnLeads
<1> QED
  BY <1>1, <1>3, <1>4

(* ... and so do leads that go with their widget.                          *)
LEMMA DeleteWidgetKeeps ==
    ASSUME PagesInv, NEW w \in Widgets, DeleteWidget(w)
    PROVE  PagesInv'
<1> DEFINE gone == {i \in table : widget[i] = w}
<1>1. /\ table' = table \ gone
      /\ stayed' = stayed \ gone
      /\ UNCHANGED <<unused, tenant, widget, caller, filter, pc, cursor,
                     seen, again>>
  BY DEF DeleteWidget, query
<1> HIDE DEF gone
<1>2. TypeOK'
  BY <1>1 DEF PagesInv, TypeOK
<1>3. Matching(table)' = Matching(table) \ gone
  BY <1>1 DEF Matching
<1>4. Covered'
  BY <1>1, <1>3 DEF PagesInv, Covered
<1>5. (NoLeadTwice /\ NothingSkipped /\ OnlyOwnLeads)'
  BY <1>1 DEF PagesInv, NoLeadTwice, NothingSkipped, OnlyOwnLeads
<1> QED
  BY <1>2, <1>4, <1>5 DEF PagesInv

(* So does the first request: nothing has been given yet.                  *)
LEMMA StartReadingKeeps ==
    ASSUME PagesInv, StartReading
    PROVE  PagesInv'
<1> USE DEF PagesInv, StartReading, rows, query
<1>1. Matching(table)' = Matching(table) /\ Matching(table) \subseteq table
  BY DEF Matching
<1>2. TypeOK'
  BY <1>1 DEF TypeOK
<1>3. Covered'
  BY <1>1 DEF Covered
<1>4. (NoLeadTwice /\ NothingSkipped /\ OnlyOwnLeads)'
  BY DEF Covered, NoLeadTwice, NothingSkipped, OnlyOwnLeads
<1> QED
  BY <1>2, <1>3, <1>4

(* And so does a page: it lies below all that was given and above all that *)
(* is left.                                                                *)
LEMMA ListSubmissionsKeeps ==
    ASSUME PagesInv, NEW limit \in Limits, ListSubmissions(limit)
    PROVE  PagesInv'
<1> DEFINE S == {i \in Matching(table) : Beyond(i)}
           page == Newest(S, limit)
<1>1. S \in SUBSET Ids /\ limit \in Nat \ {0} /\ limit \in Nat
  BY LimitsAssumption DEF PagesInv, TypeOK, Matching
<1>2. Newest(Newest(S, limit + 1), limit) = page
  BY <1>1, PageOfProbe
<1>3. page = Newest(S, limit + 1) => page = S
  BY <1>1, LastPageIsComplete
<1>4. page \subseteq S
  BY DEF Newest
<1>5. \A c \in page, i \in S : c <= i => i \in page
  BY <1>1, NewestIsRank
<1>6. S = {i \in Matching(table) : Beyond(i)}
  OBVIOUS
<1>7. /\ pc = "reading"
      /\ seen' = seen \cup page
      /\ again' = again \cup (seen \cap page)
      /\ UNCHANGED <<table, unused, tenant, widget, caller, filter, stayed>>
  BY <1>2 DEF ListSubmissions, rows, query
<1>8. \/ /\ \E c \in Ids : NextCursor(Newest(S, limit + 1), page, c) /\ cursor' = c
         /\ pc' = "reading"
      \/ /\ page = S
         /\ cursor' = NoCursor
         /\ pc' = "done"
  BY <1>2, <1>3 DEF ListSubmissions
<1> HIDE DEF S, page
<1>9. stayed \subseteq Matching(table) /\ Matching(table)' = Matching(table)
  BY <1>7 DEF PagesInv, Covered, Matching
<1>10. /\ \A i \in Ids : i \in Nat
       /\ cursor # NoCursor => cursor \in Nat
       /\ seen \subseteq Ids /\ page \subseteq Ids /\ stayed \subseteq Ids
  BY <1>1, <1>4, IdsAssumption DEF PagesInv, TypeOK
<1>11. \A i \in seen, j \in page : j < i
  BY <1>4, <1>6, <1>7, <1>10 DEF PagesInv, Covered, Beyond
<1>12. TypeOK'
  BY <1>7, <1>8, <1>10 DEF PagesInv, TypeOK
<1>13. NoLeadTwice'
  BY <1>7, <1>10, <1>11 DEF PagesInv, NoLeadTwice
<1>14. OnlyOwnLeads'
  BY <1>4, <1>6, <1>7 DEF PagesInv, OnlyOwnLeads, Matching
<1>15. \A i \in stayed : i \in seen \/ i \in S
  BY <1>6, <1>7, <1>9, <1>10 DEF PagesInv, Covered, Beyond
<1>16. Covered' /\ NothingSkipped'
  <2>1. CASE pc' = "done" /\ page = S
    BY <2>1, <1>7, <1>9, <1>15 DEF Covered, NothingSkipped
  <2>2. ASSUME NEW c \in Ids, NextCursor(Newest(S, limit + 1), page, c),
               cursor' = c, pc' = "reading"
        PROVE  Covered' /\ NothingSkipped'
    <3>1. c \in page /\ (\A i \in page : c <= i) /\ c \in Nat /\ c # NoCursor
      BY <2>2, <1>10, NoneAssumption DEF NextCursor
    <3>2. \A i \in seen \cup page : i >= c
      BY <3>1, <1>10, <1>11
    <3>3. \A i \in stayed : i >= c => i \in seen \cup page
      BY <3>1, <1>5, <1>10, <1>15
    <3> QED
      BY <2>2, <3>1, <3>2, <3>3, <1>7, <1>9 DEF Covered, NothingSkipped
  <2> QED
    BY <2>1, <2>2, <1>8
<1> QED
  BY <1>12, <1>13, <1>14, <1>16 DEF PagesInv

(* Every step leaves the strengthened invariant true.                      *)
LEMMA PagesStep == PagesInv /\ [Next]_vars => PagesInv'
<1> SUFFICES ASSUME PagesInv, [Next]_vars PROVE PagesInv'
  OBVIOUS
<1>1. CASE UNCHANGED vars
  BY <1>1 DEF vars, rows, query, reading, PagesInv, TypeOK, Covered, Matching,
              NoLeadTwice, NothingSkipped, OnlyOwnLeads
<1>2. ASSUME NEW i \in Ids, AddLead(i) PROVE PagesInv'
  BY <1>2, AddLeadKeeps
<1>3. ASSUME NEW w \in Widgets, DeleteWidget(w) PROVE PagesInv'
  BY <1>3, DeleteWidgetKeeps
<1>4. CASE StartReading
  BY <1>4, StartReadingKeeps
<1>5. ASSUME NEW limit \in Limits, ListSubmissions(limit) PROVE PagesInv'
  BY <1>5, ListSubmissionsKeeps
<1> QED
  BY <1>1, <1>2, <1>3, <1>4, <1>5 DEF Next

(* The strengthened invariant holds always.                                *)
THEOREM PagesInductive == Spec => []PagesInv
  BY PagesInit, PagesStep, PTL DEF Spec

(* The variables of the listing keep their types.                          *)
THEOREM TypeCorrect == Spec => []TypeOK
<1>1. PagesInv => TypeOK
  BY DEF PagesInv
<1> QED
  BY <1>1, PagesInductive, PTL

(* However leads come and go between the requests, no lead is on two of    *)
(* the pages of list_submissions.                                          *)
THEOREM NoLeadIsTwice == Spec => []NoLeadTwice
<1>1. PagesInv => NoLeadTwice
  BY DEF PagesInv
<1> QED
  BY <1>1, PagesInductive, PTL

(* A caller who has followed next_after_id to the end was given every lead *)
(* that was there all the time.                                            *)
THEOREM NothingIsSkipped == Spec => []NothingSkipped
<1>1. PagesInv => NothingSkipped
  BY DEF PagesInv
<1> QED
  BY <1>1, PagesInductive, PTL

(* The listing gives a caller leads of its own tenant only.                *)
THEOREM LeadsAreOwn == Spec => []OnlyOwnLeads
<1>1. PagesInv => OnlyOwnLeads
  BY DEF PagesInv
<1> QED
  BY <1>1, PagesInductive, PTL
-----------------------------------------------------------------------------
(* Under the steps of Dashboard the pages go on as in LeadPages.           *)
LEMMA PagesGoOn == [DashboardNext]_allVars => [Next]_vars
BY DEF DashboardNext, allVars, Change, ReadPage, AskStats, ReadPart, Next

(* The pages of a caller keep their promises while others ask for the      *)
(* statistics.                                                             *)
THEOREM PagesInDashboard == DashboardSpec => [](NoLeadTwice /\ NothingSkipped)
<1>1. PagesInv => NoLeadTwice /\ NothingSkipped
  BY DEF PagesInv
<1> QED
  BY <1>1, PagesInit, PagesStep, PagesGoOn, PTL DEF DashboardSpec, DashboardInit

(* The leads of a group are finitely many; more leads, more of a group.    *)
LEMMA GroupsGrow ==
    ASSUME NEW part \in Parts, NEW g, NEW S \in SUBSET Ids, NEW T \in SUBSET Ids, S \subseteq T
    PROVE  /\ IsFiniteSet(InGroup(part, g, T))
           /\ Cardinality(InGroup(part, g, S)) \in Nat
           /\ Cardinality(InGroup(part, g, T)) \in Nat
           /\ Cardinality(InGroup(part, g, S)) <= Cardinality(InGroup(part, g, T))
           /\ GroupsIn(part, S) \subseteq GroupsIn(part, T)
<1>1. InGroup(part, g, S) \subseteq InGroup(part, g, T) /\ InGroup(part, g, T) \subseteq Ids
  BY DEF InGroup
<1>2. IsFiniteSet(InGroup(part, g, T))
  BY <1>1, IdsAssumption, FS_Subset
<1>3. GroupsIn(part, S) \subseteq GroupsIn(part, T)
  BY DEF GroupsIn
<1>4. IsFiniteSet(InGroup(part, g, S))
  BY <1>1, <1>2, FS_Subset
<1> QED
  BY <1>1, <1>2, <1>3, <1>4, FS_Subset, FS_CardinalityType

(* What a SELECT counts is in the range of the leads that are there.       *)
LEMMA CountIs ==
    ASSUME NEW part \in Parts, NEW g, OfCaller \in SUBSET Ids
    PROVE  LET c == Count(part) IN
           /\ DOMAIN c = GroupsIn(part, OfCaller)
           /\ (IF g \in DOMAIN c THEN c[g] ELSE 0) = Cardinality(InGroup(part, g, OfCaller))
<1> DEFINE c == Count(part)
<1>1. c = [h \in GroupsIn(part, OfCaller) |-> Cardinality(InGroup(part, h, OfCaller))]
  BY DEF Count, Selected
<1>2. CASE g \in GroupsIn(part, OfCaller)
  BY <1>1, <1>2
<1>3. CASE g \notin GroupsIn(part, OfCaller)
  <2>1. InGroup(part, g, OfCaller) = {}
    BY <1>3 DEF InGroup, GroupsIn
  <2> QED
    BY <1>1, <1>3, <2>1, FS_EmptySet
<1> QED
  BY <1>1, <1>2, <1>3

(* A count in range stays so: the leads that were always there become      *)
(* fewer, those that were there at some time more.                         *)
LEMMA RangeWidens ==
    ASSUME NEW part \in Parts, InRange(part), always' \subseteq always, ever \subseteq ever',
           always \subseteq Ids, ever' \subseteq Ids, counts'[part] = counts[part],
           widget' = widget, counts[part] \in [DOMAIN counts[part] -> Nat]
    PROVE  InRange(part)'
<1>1. GroupOf(part)' = GroupOf(part)
  BY DEF GroupOf
<1>2. /\ GroupsIn(part, ever)' = GroupsIn(part, ever')
      /\ GroupsIn(part, Ids)' = GroupsIn(part, Ids)
  BY <1>1 DEF GroupsIn
<1>3. ASSUME NEW g
      PROVE  /\ InGroup(part, g, always)' = InGroup(part, g, always')
             /\ InGroup(part, g, ever)' = InGroup(part, g, ever')
             /\ Counted(part, g)' = Counted(part, g)
  BY <1>1 DEF InGroup, Counted
<1>4. DOMAIN counts'[part] \subseteq GroupsIn(part, ever')
  BY GroupsGrow DEF InRange
<1>5. ASSUME NEW g \in GroupsIn(part, Ids)
      PROVE  /\ Cardinality(InGroup(part, g, always')) <= Counted(part, g)
             /\ Counted(part, g) <= Cardinality(InGroup(part, g, ever'))
  <2> DEFINE low == Cardinality(InGroup(part, g, always'))
             was == Cardinality(InGroup(part, g, always))
             up == Cardinality(InGroup(part, g, ever'))
             up0 == Cardinality(InGroup(part, g, ever))
             n == Counted(part, g)
  <2>1. low \in Nat /\ was \in Nat /\ low <= was
    BY GroupsGrow
  <2>2. up \in Nat /\ up0 \in Nat /\ up0 <= up
    BY GroupsGrow
  <2>3. was <= n /\ n <= up0 /\ n \in Nat
    BY <1>5 DEF InRange, Counted
  <2> HIDE DEF low, was, up, up0, n
  <2>4. low <= n /\ n <= up
    BY <2>1, <2>2, <2>3
  <2> QED
    BY <2>4 DEF low, up, n
<1> QED
  BY <1>2, <1>3, <1>4, <1>5 DEF InRange

(* At the start nothing has been read.                                     *)
LEMMA StatsAtStart == DashboardInit => StatsInv
<1> SUFFICES ASSUME DashboardInit PROVE StatsInv
  OBVIOUS
<1>1. TypeOK
  BY PagesInit DEF DashboardInit, PagesInv
<1> QED
  BY <1>1 DEF DashboardInit, StatsInv, ReadBefore, Parts

(* A SELECT: its counts are in range, the others stay so.                  *)
LEMMA ReadPartKeeps ==
    ASSUME StatsInv, NEW part \in Parts, ReadPart(part), TypeOK'
    PROVE  StatsInv'
<1>1. /\ at = part /\ at' = Follows[part]
      /\ counts' = [counts EXCEPT ![part] = Count(part)]
      /\ UNCHANGED <<always, ever, OfCaller, widget>>
  BY DEF ReadPart, vars, rows, query, OfCaller
<1>2. at' \in Parts \cup {"done"} /\ ReadBefore[at'] = ReadBefore[at] \cup {part}
  BY <1>1 DEF Follows, Parts, ReadBefore
<1>3. OfCaller \in SUBSET Ids /\ always \subseteq OfCaller /\ OfCaller \subseteq ever
      /\ always \in SUBSET Ids /\ ever \in SUBSET Ids
  BY <1>1 DEF StatsInv, TypeOK, OfCaller
<1>4. DOMAIN counts' = Parts /\ counts'[part] = Count(part)
      /\ \A p \in Parts \ {part} : counts'[p] = counts[p]
  BY <1>1 DEF StatsInv
<1>5. Count(part) \in [DOMAIN Count(part) -> Nat]
  <2>1. \A g : Cardinality(InGroup(part, g, OfCaller)) \in Nat
    BY <1>3, GroupsGrow
  <2> QED
    BY <2>1 DEF Count, Selected
<1>6. InRange(part)'
  <2>1. /\ GroupsIn(part, ever)' = GroupsIn(part, ever)
        /\ GroupsIn(part, Ids)' = GroupsIn(part, Ids)
        /\ \A g : /\ InGroup(part, g, always)' = InGroup(part, g, always)
                  /\ InGroup(part, g, ever)' = InGroup(part, g, ever)
    BY <1>1 DEF GroupsIn, InGroup, GroupOf
  <2>2. DOMAIN counts'[part] \subseteq GroupsIn(part, ever)
    BY <1>3, <1>4, CountIs, GroupsGrow
  <2>3. \A g : /\ Cardinality(InGroup(part, g, always)) <= Counted(part, g)'
               /\ Counted(part, g)' <= Cardinality(InGroup(part, g, ever))
    <3> SUFFICES ASSUME NEW g
                 PROVE  /\ Cardinality(InGroup(part, g, always)) <= Counted(part, g)'
                        /\ Counted(part, g)' <= Cardinality(InGroup(part, g, ever))
      OBVIOUS
    <3>1. Counted(part, g)' = Cardinality(InGroup(part, g, OfCaller))
      BY <1>3, <1>4, CountIs DEF Counted
    <3> QED
      BY <1>3, <3>1, GroupsGrow
  <2> QED
    BY <2>1, <2>2, <2>3 DEF InRange
<1>7. ASSUME NEW p \in ReadBefore[at]
      PROVE  counts'[p] \in [DOMAIN counts'[p] -> Nat] /\ InRange(p)'
  <2>1. p \in Parts /\ p # part
    BY <1>1, <1>7 DEF ReadBefore, Parts
  <2>2. InRange(p) /\ counts[p] \in [DOMAIN counts[p] -> Nat] /\ counts'[p] = counts[p]
    BY <1>4, <1>7, <2>1 DEF StatsInv
  <2> QED
    BY <1>1, <1>3, <2>1, <2>2, RangeWidens
<1>8. \A p \in ReadBefore[at'] : counts'[p] \in [DOMAIN counts'[p] -> Nat] /\ InRange(p)'
  BY <1>2, <1>4, <1>5, <1>6, <1>7
<1> QED
  BY <1>1, <1>2, <1>3, <1>4, <1>8 DEF StatsInv

(* Leads that come and go: the ranges of what has been read widen.         *)
LEMMA ChangeKeeps ==
    ASSUME StatsInv, Change, TypeOK' PROVE StatsInv'
<1>1. /\ at # "done" /\ UNCHANGED <<at, counts, widget, tenant, caller>>
      /\ IF at \in Parts
         THEN always' = always \cap table' /\ ever' = ever \cup OfCaller'
         ELSE UNCHANGED <<always, ever>>
  BY DEF Change, AddLead, DeleteWidget, query
<1>2. always' \subseteq always /\ ever \subseteq ever' /\ always \subseteq Ids /\ ever' \subseteq Ids
  <2>1. OfCaller' \subseteq Ids
    BY DEF TypeOK, OfCaller
  <2> QED
    BY <1>1, <2>1 DEF StatsInv
<1>3. at \in Parts => always' \subseteq OfCaller' /\ OfCaller' \subseteq ever'
  BY <1>1 DEF StatsInv, OfCaller
<1>4. ASSUME NEW p \in ReadBefore[at]
      PROVE  counts'[p] \in [DOMAIN counts'[p] -> Nat] /\ InRange(p)'
  <2>1. p \in Parts
    BY <1>1, <1>4 DEF StatsInv, ReadBefore, Parts
  <2>2. InRange(p) /\ counts[p] \in [DOMAIN counts[p] -> Nat] /\ counts'[p] = counts[p]
    BY <1>1, <1>4 DEF StatsInv
  <2> QED
    BY <1>1, <1>2, <2>1, <2>2, RangeWidens
<1>5. at' = at /\ at' \in Parts \cup {"idle", "done"} /\ DOMAIN counts' = Parts
  BY <1>1 DEF StatsInv
<1>6. always' \subseteq Ids /\ ever' \subseteq Ids
  BY <1>2
<1>7. at' \in Parts => always' \subseteq OfCaller' /\ OfCaller' \subseteq ever'
  BY <1>3, <1>5
<1>8. \A p \in ReadBefore[at'] : counts'[p] \in [DOMAIN counts'[p] -> Nat] /\ InRange(p)'
  BY <1>4, <1>5
<1> QED
  BY <1>5, <1>6, <1>7, <1>8 DEF StatsInv

(* Every step keeps it.                                                    *)
LEMMA StatsStep == StatsInv /\ PagesInv /\ PagesInv' /\ [DashboardNext]_allVars => StatsInv'
<1> SUFFICES ASSUME StatsInv, PagesInv', [DashboardNext]_allVars PROVE StatsInv'
  OBVIOUS
<1>0. TypeOK'
  BY DEF PagesInv
<1>1. CASE Change
  BY <1>0, <1>1, ChangeKeeps
<1>2. CASE AskStats
  <2>1. /\ at = "idle" /\ at' = "total" /\ counts' = counts /\ OfCaller' = OfCaller
        /\ always' = OfCaller /\ ever' = OfCaller
    BY <1>2 DEF AskStats, vars, rows, query, OfCaller
  <2>2. OfCaller \subseteq Ids
    BY DEF StatsInv, TypeOK, OfCaller
  <2> QED
    BY <1>0, <2>1, <2>2 DEF StatsInv, ReadBefore, Parts
<1>3. ASSUME NEW part \in Parts, ReadPart(part) PROVE StatsInv'
  BY <1>0, <1>3, ReadPartKeeps
<1>4. CASE ReadPage
  <2>1. at = "idle" /\ UNCHANGED stats
    BY <1>4 DEF ReadPage
  <2> QED
    BY <1>0, <2>1 DEF stats, StatsInv, ReadBefore, Parts
<1>5. CASE UNCHANGED allVars
  <2>1. UNCHANGED <<at, counts, always, ever, widget, OfCaller>>
    BY <1>5 DEF allVars, vars, rows, query, stats, OfCaller
  <2>2. ASSUME NEW p \in ReadBefore[at]
        PROVE  counts'[p] \in [DOMAIN counts'[p] -> Nat] /\ InRange(p)'
    <3>1. p \in Parts /\ always \subseteq Ids /\ ever \subseteq Ids
      BY <2>2 DEF StatsInv, ReadBefore, Parts
    <3>2. InRange(p) /\ counts[p] \in [DOMAIN counts[p] -> Nat]
      BY <2>2 DEF StatsInv
    <3> QED
      BY <2>1, <3>1, <3>2, RangeWidens
  <2>3. \A p \in ReadBefore[at'] : counts'[p] \in [DOMAIN counts'[p] -> Nat] /\ InRange(p)'
    BY <2>1, <2>2
  <2> QED
    BY <1>0, <2>1, <2>3 DEF StatsInv
<1> QED
  BY <1>1, <1>2, <1>3, <1>4, <1>5 DEF DashboardNext

(* Every count the statistics show, of submission_stats' four SELECTs,     *)
(* lies between the leads of its group that were there all along and those *)
(* that were there at some time.                                           *)
THEOREM StatsAreInRange == DashboardSpec => []StatsInRange
<1>1. StatsInv => StatsInRange
  BY DEF StatsInv, StatsInRange, ReadBefore
<1>2. DashboardInit => PagesInv /\ StatsInv
  BY PagesInit, StatsAtStart DEF DashboardInit
<1>3. PagesInv /\ StatsInv /\ [DashboardNext]_allVars => PagesInv' /\ StatsInv'
  BY PagesStep, PagesGoOn, StatsStep
<1> QED
  BY <1>1, <1>2, <1>3, PTL DEF DashboardSpec
=============================================================================
