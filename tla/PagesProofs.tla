---------------------------- MODULE PagesProofs ----------------------------
(***************************************************************************)
(* Proofs about the modules that are composed in MCJobsAndPages beside the *)
(* command queue: the blacklist and the page that shows it, the tab with   *)
(* its sites, the forms of an entry and the scan of ports, each for every  *)
(* value of its constants, and all of them together.                       *)
(***************************************************************************)
EXTENDS MCJobsAndPages, SequenceTheorems, FiniteSetTheorems, WellFoundedInduction, TLAPS

(***************************************************************************)
(* Sets of numbers in their order.                                         *)
(***************************************************************************)

Above(domains, d) == {e \in domains : d <= e}

\* A set of numbers up to a bound has a least and a greatest element: the strict subsets of a
\* finite set are well-founded.
LEMMA FirstAndLast ==
  ASSUME NEW bound \in Nat, NEW T \in SUBSET (1 .. bound), T # {}
  PROVE  /\ IsFiniteSet(T)
         /\ \E m \in T : \A n \in T : m <= n
         /\ \E m \in T : \A n \in T : n <= m
<1>1. \A e \in T : e \in Nat
  OBVIOUS
<1>2. IsFiniteSet(T)
  <2>1. IsFiniteSet(1 .. bound)
    BY FS_Interval
  <2>. QED
    BY <2>1, FS_Subset
<1>3. IsWellFoundedOn(StrictSubsetOrdering(T), SUBSET T)
  BY <1>2, FS_FiniteSubsetsOfFinite, FS_StrictSubsetOrderingWellFounded
<1>4. ASSUME NEW F \in SUBSET SUBSET T, F # {}
      PROVE  \E x \in F : \A y \in F : ~(y \subseteq x /\ y # x)
  <2>1. PICK x \in F : \A y \in F : ~(<<y, x>> \in StrictSubsetOrdering(T))
    BY <1>3, <1>4, WFMin
  <2>. QED
    BY <2>1 DEF StrictSubsetOrdering
<1>5. \E m \in T : \A n \in T : m <= n
  <2>1. PICK m \in T : \A n \in T : ~(UpTo(T, n) \subseteq UpTo(T, m) /\ UpTo(T, n) # UpTo(T, m))
    <3>. DEFINE F == {UpTo(T, d) : d \in T}
    <3>1. F \in SUBSET SUBSET T /\ F # {}
      BY DEF UpTo
    <3>2. PICK x \in F : \A y \in F : ~(y \subseteq x /\ y # x)
      BY <3>1, <1>4
    <3>. QED
      BY <3>2
  <2>2. ASSUME NEW n \in T PROVE m <= n
    <3>1. ASSUME n < m PROVE FALSE
      <4>0. m \in T /\ m \in Nat /\ n \in Nat
        BY <1>1, <2>1
      <4>1. m \in UpTo(T, m) /\ m \notin UpTo(T, n)
        BY <4>0, <3>1 DEF UpTo
      <4>2. ASSUME NEW e \in UpTo(T, n) PROVE e \in UpTo(T, m)
        <5>1. e \in T /\ e \in Nat /\ e <= n
          BY <1>1 DEF UpTo
        <5>. QED
          BY <5>1, <4>0, <3>1 DEF UpTo
      <4>. QED
        BY <4>1, <4>2, <2>1
    <3>. QED
      BY <3>1, <2>1, <1>1
  <2>. QED
    BY <2>2
<1>6. \E m \in T : \A n \in T : n <= m
  <2>1. PICK m \in T : \A n \in T : ~(Above(T, n) \subseteq Above(T, m) /\ Above(T, n) # Above(T, m))
    <3>. DEFINE F == {Above(T, d) : d \in T}
    <3>1. F \in SUBSET SUBSET T /\ F # {}
      BY DEF Above
    <3>2. PICK x \in F : \A y \in F : ~(y \subseteq x /\ y # x)
      BY <3>1, <1>4
    <3>. QED
      BY <3>2
  <2>2. ASSUME NEW n \in T PROVE n <= m
    <3>1. ASSUME m < n PROVE FALSE
      <4>0. m \in T /\ m \in Nat /\ n \in Nat
        BY <1>1, <2>1
      <4>1. m \in Above(T, m) /\ m \notin Above(T, n)
        BY <4>0, <3>1 DEF Above
      <4>2. ASSUME NEW e \in Above(T, n) PROVE e \in Above(T, m)
        <5>1. e \in T /\ e \in Nat /\ n <= e
          BY <1>1 DEF Above
        <5>. QED
          BY <5>1, <4>0, <3>1 DEF Above
      <4>. QED
        BY <4>1, <4>2, <2>1
    <3>. QED
      BY <3>1, <2>1, <1>1
  <2>. QED
    BY <2>2
<1>. QED
  BY <1>2, <1>5, <1>6

\* The place of a domain in the order: every number up to that of the domains is the place of one.
LEMMA PlacesAreTaken ==
  ASSUME NEW bound \in Nat, NEW T \in SUBSET (1 .. bound), NEW i \in 1 .. Cardinality(T)
  PROVE  \E d \in T : Cardinality(UpTo(T, d)) = i
<1>0. \A e \in T : e \in Nat
  OBVIOUS
<1>1. \A S \in SUBSET T : IsFiniteSet(S) /\ Cardinality(S) \in Nat
  <2>1. IsFiniteSet(1 .. bound)
    BY FS_Interval
  <2>. QED
    BY <2>1, FS_Subset, FS_CardinalityType
<1>2. T # {}
  BY FS_EmptySet
<1>. DEFINE Late == {d \in T : Cardinality(UpTo(T, d)) >= i}
<1>3. \A d \in T : UpTo(T, d) \in SUBSET T
  BY DEF UpTo
<1>4. Late # {}
  <2>1. PICK m \in T : \A n \in T : n <= m
    BY <1>2, FirstAndLast
  <2>2. UpTo(T, m) = T
    BY <2>1 DEF UpTo
  <2>. QED
    BY <2>1, <2>2, <1>1
<1>5. PICK d \in Late : \A n \in Late : d <= n
  <2>1. Late \in SUBSET (1 .. bound)
    OBVIOUS
  <2>. HIDE DEF Late
  <2>. QED
    BY <1>4, <2>1, FirstAndLast
<1>. DEFINE Before == {e \in T : e < d}
<1>6. UpTo(T, d) = Before \cup {d} /\ d \notin Before /\ Before \in SUBSET T
  <2>1. d \in T /\ d \in Nat
    BY <1>0
  <2>2. \A e \in T : e <= d <=> e < d \/ e = d
    BY <1>0, <2>1
  <2>3. d \notin Before
    BY <2>1
  <2>. QED
    BY <2>1, <2>2, <2>3 DEF UpTo
<1>7. Cardinality(UpTo(T, d)) = Cardinality(Before) + 1
  <2>1. IsFiniteSet(Before)
    BY <1>1, <1>6
  <2>. HIDE DEF Before
  <2>. QED
    BY <2>1, <1>6, FS_AddElement
<1>8. Cardinality(Before) < i
  <2>1. CASE Before = {}
    BY <2>1, FS_EmptySet
  <2>2. CASE Before # {}
    <3>1. PICK p \in Before : \A n \in Before : n <= p
      <4>1. Before \in SUBSET (1 .. bound)
        OBVIOUS
      <4>. HIDE DEF Before
      <4>. QED
        BY <2>2, <4>1, FirstAndLast
    <3>2. Before = UpTo(T, p)
      <4>1. p \in T /\ p \in Nat /\ d \in Nat /\ p < d
        BY <1>0, <1>5, <3>1
      <4>2. \A e \in T : e < d <=> e <= p
        BY <4>1, <1>0, <3>1
      <4>. QED
        BY <4>2 DEF UpTo
    <3>3. p \notin Late
      BY <1>5, <3>1, <1>0
    <3>4. Cardinality(UpTo(T, p)) \in Nat /\ p \in T
      BY <3>1, <1>1, <1>3
    <3>. QED
      BY <3>2, <3>3, <3>4
  <2>. QED
    BY <2>1, <2>2
<1>9. Cardinality(Before) \in Nat
  BY <1>1, <1>6
<1>. QED
  BY <1>5, <1>7, <1>8, <1>9

\* The sequence has every number of the set once.
LEMMA InOrderIs ==
  ASSUME NEW bound \in Nat, NEW T \in SUBSET (1 .. bound)
  PROVE  /\ Cardinality(T) \in Nat /\ InOrder(T) \in Seq(1 .. bound) /\ Len(InOrder(T)) = Cardinality(T)
         /\ Range(InOrder(T)) = T
         /\ \A i, j \in 1 .. Len(InOrder(T)) : InOrder(T)[i] = InOrder(T)[j] => i = j
<1>1. IsFiniteSet(T) /\ \A S \in SUBSET T : IsFiniteSet(S) /\ Cardinality(S) \in Nat /\ Cardinality(S) <= Cardinality(T)
  <2>1. IsFiniteSet(1 .. bound)
    BY FS_Interval
  <2>2. IsFiniteSet(T)
    BY <2>1, FS_Subset
  <2>. QED
    BY <2>2, FS_Subset, FS_CardinalityType
<1>. DEFINE Nth(i) == CHOOSE n \in T : Cardinality(UpTo(T, n)) = i
<1>2. \A i \in 1 .. Cardinality(T) : Nth(i) \in T /\ Cardinality(UpTo(T, Nth(i))) = i
  BY PlacesAreTaken
<1>3. InOrder(T) = [i \in 1 .. Cardinality(T) |-> Nth(i)]
  BY DEF InOrder
<1>. HIDE DEF Nth
<1>4. Cardinality(T) \in Nat
  BY <1>1
<1>5. InOrder(T) \in [1 .. Cardinality(T) -> T]
  BY <1>2, <1>3
<1>6. InOrder(T) \in Seq(1 .. bound) /\ Len(InOrder(T)) = Cardinality(T) /\ DOMAIN InOrder(T) = 1 .. Cardinality(T)
  <2>1. InOrder(T) \in [1 .. Cardinality(T) -> 1 .. bound]
    BY <1>5
  <2>. QED
    BY <2>1, <1>4
<1>7. \A i, j \in 1 .. Cardinality(T) : InOrder(T)[i] = InOrder(T)[j] => i = j
  BY <1>2, <1>3
<1>8. ASSUME NEW n \in T PROVE \E i \in 1 .. Cardinality(T) : InOrder(T)[i] = n
  <2>0. n \in UpTo(T, n) /\ UpTo(T, n) \in SUBSET T
    BY DEF UpTo
  <2>1. PICK i \in Nat : i = Cardinality(UpTo(T, n)) /\ i <= Cardinality(T)
    BY <2>0, <1>1
  <2>2. i # 0
    BY <2>0, <2>1, <1>1, FS_EmptySet
  <2>3. i \in 1 .. Cardinality(T)
    BY <2>1, <2>2, <1>4
  <2>4. PICK m \in T : m = Nth(i) /\ Cardinality(UpTo(T, m)) = i
    BY <2>3, <1>2
  <2>5. ASSUME NEW a \in T, NEW b \in T, a < b PROVE Cardinality(UpTo(T, a)) # Cardinality(UpTo(T, b))
    <3>1. UpTo(T, a) \subseteq UpTo(T, b)
      <4>1. ASSUME NEW e \in T, e <= a PROVE e <= b
        BY <2>5, <4>1
      <4>. QED
        BY <4>1 DEF UpTo
    <3>2. b \in UpTo(T, b) /\ b \notin UpTo(T, a)
      BY <2>5 DEF UpTo
    <3>3. UpTo(T, b) \in SUBSET T
      BY DEF UpTo
    <3>4. IsFiniteSet(UpTo(T, b))
      BY <3>3, <1>1
    <3>. QED
      BY <3>1, <3>2, <3>4, FS_Subset
  <2>6. m = n
    <3>1. m \in Nat /\ n \in Nat
      OBVIOUS
    <3>2. ~(m < n) /\ ~(n < m)
      BY <2>1, <2>4, <2>5
    <3>. QED
      BY <3>1, <3>2
  <2>. QED
    BY <2>3, <2>4, <2>6, <1>3
<1>9. Range(InOrder(T)) = T
  BY <1>5, <1>6, <1>8 DEF Range
<1>. QED
  BY <1>4, <1>6, <1>7, <1>9

(***************************************************************************)
(* The blacklist.                                                          *)
(***************************************************************************)

\* Between rounds there is nothing to insert, nor before the feed has answered.
PendingIsOfFeed ==
  /\ turn = 0 <=> text = "none"
  /\ text # "parsed" => pending = {}

\* The numbers of a domain's rows, also of those that were entered and are gone, have been given out.
NumbersAreGiven ==
  /\ \A r \in rules : r.id <= ids[r.domain]
  /\ \A e \in entered : e[2] <= ids[e[1]]

BlacklistInv == DnsBlacklistTypeOK /\ PendingIsOfFeed /\ NumbersAreGiven /\ NamedIsListed /\ EnteredStands

LEMMA SourcesAreNat == Curated \in Nat \ {0} /\ Sources = 1 .. Curated
  BY DnsBlacklistAssumption DEF Curated, Sources

LEMMA BlacklistStarts == DnsBlacklistInit => BlacklistInv
<1>. SUFFICES ASSUME DnsBlacklistInit PROVE BlacklistInv
  OBVIOUS
<1>1. DnsBlacklistTypeOK
  BY DnsBlacklistAssumption DEF DnsBlacklistInit, DnsBlacklistTypeOK
<1>2. PendingIsOfFeed /\ NumbersAreGiven /\ EnteredStands
  BY DEF DnsBlacklistInit, PendingIsOfFeed, NumbersAreGiven, EnteredStands
<1>3. NamedIsListed
  BY DEF DnsBlacklistInit, NamedIsListed
<1>. QED
  BY <1>1, <1>2, <1>3 DEF BlacklistInv

\* What the rows of new domains are.
LEMMA NewRowsAre ==
  ASSUME DnsBlacklistTypeOK, NEW domains \in SUBSET Domains, NEW reason \in Sources \cup {ByHand}
  PROVE  /\ NewRows(domains, reason) \subseteq [domain : Domains, id : Nat, reason : Sources \cup {ByHand}]
         /\ \A r \in NewRows(domains, reason) :
              r.domain \in domains /\ r.id = ids[r.domain] + 1 /\ r.reason = reason
         /\ {r.domain : r \in NewRows(domains, reason)} = domains
         /\ \A r, q \in NewRows(domains, reason) : r.domain = q.domain => r = q
<1>1. \A d \in domains : ids[d] \in Nat
  BY DEF DnsBlacklistTypeOK
<1>2. \A r \in NewRows(domains, reason) : \E d \in domains : r = [domain |-> d, id |-> ids[d] + 1, reason |-> reason]
  BY DEF NewRows
<1>3. \A d \in domains : [domain |-> d, id |-> ids[d] + 1, reason |-> reason] \in NewRows(domains, reason)
  BY DEF NewRows
<1>4. ASSUME NEW d \in domains PROVE \E r \in NewRows(domains, reason) : r.domain = d
  <2>1. [domain |-> d, id |-> ids[d] + 1, reason |-> reason].domain = d
    OBVIOUS
  <2>. QED
    BY <1>3, <2>1
<1>5. \A r \in NewRows(domains, reason) :
        /\ r \in [domain : Domains, id : Nat, reason : Sources \cup {ByHand}]
        /\ r.domain \in domains /\ r.id = ids[r.domain] + 1 /\ r.reason = reason
  BY <1>1, <1>2
<1>6. {r.domain : r \in NewRows(domains, reason)} = domains
  BY <1>4, <1>5
<1>7. \A r, q \in NewRows(domains, reason) : r.domain = q.domain => r = q
  BY <1>2
<1>. QED
  BY <1>5, <1>6, <1>7

\* Rows of domains that are not listed, with the next number of each, keep the rows apart.
LEMMA RowsAreAdded ==
  ASSUME BlacklistInv, NEW domains \in SUBSET Domains, domains \cap Listed = {},
         NEW reason \in Sources \cup {ByHand},
         rules' = rules \cup NewRows(domains, reason), Number(domains),
         entered' = IF reason = ByHand THEN entered \cup {<<d, ids[d] + 1>> : d \in domains} ELSE entered
  PROVE  /\ rules' \subseteq [domain : Domains, id : Nat, reason : Sources \cup {ByHand}]
         /\ ids' \in [Domains -> Nat] /\ entered' \subseteq Domains \X Nat
         /\ NumbersAreGiven' /\ EnteredStands' /\ Listed' = Listed \cup domains
<1>. DEFINE new == NewRows(domains, reason)
<1>0. /\ DnsBlacklistTypeOK /\ NumbersAreGiven /\ EnteredStands
      /\ \A r \in rules : r \in [domain : Domains, id : Nat, reason : Sources \cup {ByHand}]
      /\ ids \in [Domains -> Nat] /\ entered \subseteq Domains \X Nat
  BY DEF BlacklistInv, DnsBlacklistTypeOK
<1>1. /\ new \subseteq [domain : Domains, id : Nat, reason : Sources \cup {ByHand}]
      /\ \A r \in new : r.domain \in domains /\ r.id = ids[r.domain] + 1 /\ r.reason = reason
      /\ {r.domain : r \in new} = domains
      /\ \A r, q \in new : r.domain = q.domain => r = q
  BY <1>0, NewRowsAre
<1>. HIDE DEF new
<1>2. rules' = rules \cup new
  BY DEF new
<1>3. /\ ids' \in [Domains -> Nat] /\ \A d \in Domains : ids'[d] = IF d \in domains THEN ids[d] + 1 ELSE ids[d]
  BY <1>0 DEF Number
<1>4. entered' \subseteq Domains \X Nat
  BY <1>0
<1>5. Listed' = Listed \cup domains
  BY <1>1, <1>2 DEF Listed
<1>6. \A r \in rules' : r.id <= ids'[r.domain]
  <2>1. \A r \in rules : r.domain \in Domains /\ r.id \in Nat /\ r.id <= ids[r.domain]
    BY <1>0 DEF NumbersAreGiven
  <2>2. \A d \in Domains : ids[d] \in Nat /\ ids[d] <= ids'[d]
    BY <1>0, <1>3
  <2>3. \A r \in rules : r.id <= ids'[r.domain]
    BY <2>1, <2>2, <1>3
  <2>4. \A r \in new : r.id <= ids'[r.domain]
    BY <1>1, <1>3, <2>2
  <2>. QED
    BY <1>2, <2>3, <2>4
<1>7. \A e \in entered' : e[2] <= ids'[e[1]]
  <2>1. \A e \in entered : e[1] \in Domains /\ e[2] \in Nat /\ e[2] <= ids[e[1]] /\ ids[e[1]] \in Nat
    BY <1>0 DEF NumbersAreGiven
  <2>2. \A e \in entered : e[2] <= ids'[e[1]]
    BY <2>1, <1>3
  <2>3. \A d \in domains : <<d, ids[d] + 1>>[2] <= ids'[<<d, ids[d] + 1>>[1]]
    BY <1>0, <1>3
  <2>. QED
    BY <2>2, <2>3
<1>8. ASSUME NEW r \in rules' PROVE <<r.domain, r.id>> \in entered' <=> r.reason = ByHand
  <2>1. CASE r \in rules
    <3>1. r.domain \in Listed /\ r.domain \notin domains
      BY <2>1 DEF Listed
    <3>2. <<r.domain, r.id>> \in entered' <=> <<r.domain, r.id>> \in entered
      BY <3>1
    <3>. QED
      BY <1>0, <2>1, <3>2 DEF EnteredStands
  <2>2. CASE r \in new
    <3>1. r.domain \in Domains /\ ids[r.domain] \in Nat /\ r.domain \in domains /\ r.id = ids[r.domain] + 1 /\ r.reason = reason
      BY <1>0, <1>1, <2>2
    <3>2. <<r.domain, r.id>> \notin entered
      BY <1>0, <3>1 DEF NumbersAreGiven
    <3>3. CASE reason = ByHand
      BY <3>1, <3>3
    <3>4. CASE reason # ByHand
      BY <3>1, <3>2, <3>4
    <3>. QED
      BY <3>3, <3>4
  <2>. QED
    BY <1>2, <2>1, <2>2
<1>9. ASSUME NEW r \in rules', NEW q \in rules', q.domain = r.domain PROVE q = r
  <2>1. \A p \in rules : p.domain \notin domains
    BY DEF Listed
  <2>2. \A p, o \in rules : o.domain = p.domain => o = p
    BY <1>0 DEF EnteredStands
  <2>. QED
    BY <1>1, <1>2, <1>9, <2>1, <2>2
<1>. QED
  BY <1>0, <1>1, <1>2, <1>3, <1>4, <1>5, <1>6, <1>7, <1>8, <1>9 DEF NumbersAreGiven, EnteredStands

\* A turn is a source or the pause between rounds.
LEMMA TurnIs ==
  ASSUME NEW s \in 0 .. Curated, Turn(s), s # Curated \/ Offers[s] \subseteq Domains
  PROVE  turn' = s /\ text' \in {"none", "asked", "parsed"} /\ pending' \subseteq Domains /\ PendingIsOfFeed'
  BY SourcesAreNat DEF Turn, PendingIsOfFeed

LEMMA AfterIs == \A s \in Sources : After(s) = (IF s = Curated THEN 0 ELSE s + 1) /\ After(s) \in 0 .. Curated
  BY SourcesAreNat DEF After

LEMMA OffersAre == \A s \in Sources : Offers[s] \subseteq Domains
  BY DnsBlacklistAssumption DEF Sources

\* The rows stay as they are.
LEMMA RowsStay ==
  ASSUME BlacklistInv, UNCHANGED <<rules, ids, entered>>
  PROVE  NumbersAreGiven' /\ EnteredStands' /\ Listed' = Listed
  BY DEF BlacklistInv, NumbersAreGiven, EnteredStands, Listed

\* The source that had its turn was the next one: with it the round has come further, or is over.
LEMMA TurnsAreTaken ==
  ASSUME BlacklistInv, turn # 0, turn' = After(turn), tried' = tried \cup {turn}
  PROVE  /\ tried' \subseteq Sources
         /\ turn' = 0 => tried' \in {{}, Sources}
         /\ turn' # 0 => tried' = 1 .. turn' - 1
<1>0. turn \in Sources /\ tried = 1 .. turn - 1 /\ Curated \in Nat \ {0} /\ Sources = 1 .. Curated
  BY SourcesAreNat DEF BlacklistInv, DnsBlacklistTypeOK, NamedIsListed, Curated
<1>1. tried' = 1 .. turn
  BY <1>0
<1>. QED
  BY <1>0, <1>1, AfterIs

LEMMA RoundStep ==
  ASSUME BlacklistInv, BeginRound \/ RestartRounds \/ SourceFails \/ (\E found \in SUBSET Domains : ReadFeed(found))
  PROVE  BlacklistInv'
<1>0. /\ DnsBlacklistTypeOK /\ PendingIsOfFeed /\ NamedIsListed /\ Curated \in Nat \ {0} /\ Sources = 1 .. Curated
      /\ turn \in 0 .. Curated /\ 1 \in Sources
  BY SourcesAreNat DEF BlacklistInv, DnsBlacklistTypeOK, Curated
<1>1. UNCHANGED <<rules, ids, entered>>
  BY DEF BeginRound, RestartRounds, SourceFails, ReadFeed, blacklistHistory
<1>2. NumbersAreGiven' /\ EnteredStands' /\ Listed' = Listed
  BY <1>1, RowsStay
<1>3. CASE BeginRound
  <2>1. turn' = 1 /\ text' \in {"none", "asked", "parsed"} /\ pending' \subseteq Domains /\ PendingIsOfFeed'
    BY <1>0, <1>3, TurnIs, OffersAre DEF BeginRound
  <2>2. DnsBlacklistTypeOK'
    BY <1>0, <1>3, <2>1, DnsBlacklistAssumption DEF BeginRound, DnsBlacklistTypeOK, Curated
  <2>3. NamedIsListed'
    BY <1>3, <2>1 DEF BeginRound, NamedIsListed
  <2>. QED
    BY <1>2, <2>1, <2>2, <2>3 DEF BlacklistInv
<1>4. CASE RestartRounds
  <2>1. turn' = 0 /\ text' \in {"none", "asked", "parsed"} /\ pending' \subseteq Domains /\ PendingIsOfFeed'
    BY <1>0, <1>4, TurnIs, OffersAre DEF RestartRounds
  <2>2. DnsBlacklistTypeOK'
    BY <1>0, <1>4, <2>1, DnsBlacklistAssumption DEF RestartRounds, DnsBlacklistTypeOK, Curated, ChangeOnce
  <2>3. NamedIsListed'
    BY <1>4, <2>1 DEF RestartRounds, NamedIsListed
  <2>. QED
    BY <1>2, <2>1, <2>2, <2>3 DEF BlacklistInv
<1>5. CASE SourceFails
  <2>0. turn \in Sources /\ turn' = After(turn) /\ tried' = tried \cup {turn} /\ due' = due \ pending
        /\ After(turn) \in 0 .. Curated /\ Turn(After(turn))
    BY <1>0, <1>5, AfterIs DEF SourceFails, AfterFailure, Turn
  <2>1. text' \in {"none", "asked", "parsed"} /\ pending' \subseteq Domains /\ PendingIsOfFeed'
    BY <1>0, <2>0, TurnIs, OffersAre
  <2>2. /\ tried' \subseteq Sources
        /\ turn' = 0 => tried' \in {{}, Sources}
        /\ turn' # 0 => tried' = 1 .. turn' - 1
    BY <1>0, <2>0, TurnsAreTaken
  <2>3. DnsBlacklistTypeOK'
    BY <1>0, <1>5, <2>0, <2>1, <2>2, DnsBlacklistAssumption DEF SourceFails, DnsBlacklistTypeOK, Curated, ChangeOnce
  <2>4. NamedIsListed'
    BY <1>0, <1>2, <2>0, <2>2 DEF NamedIsListed
  <2>. QED
    BY <1>2, <2>1, <2>3, <2>4 DEF BlacklistInv
<1>6. ASSUME NEW found \in SUBSET Domains, ReadFeed(found) PROVE BlacklistInv'
  <2>0. /\ text = "asked" /\ text' = "parsed" /\ pending' = found /\ turn # 0
        /\ UNCHANGED <<rules, ids, turn, adding, rounds, changes, tried, due, entered>>
    BY <1>0, <1>6 DEF ReadFeed, blacklistHistory, PendingIsOfFeed
  <2>1. PendingIsOfFeed' /\ pending = {}
    BY <1>0, <2>0 DEF PendingIsOfFeed
  <2>2. DnsBlacklistTypeOK'
    BY <1>0, <2>0 DEF DnsBlacklistTypeOK
  <2>3. NamedIsListed'
    BY <1>0, <1>2, <2>0, <2>1 DEF NamedIsListed
  <2>. QED
    BY <1>2, <2>1, <2>2, <2>3 DEF BlacklistInv
<1>. QED
  BY <1>3, <1>4, <1>5, <1>6

LEMMA InsertStep ==
  ASSUME BlacklistInv, NEW chunk \in SUBSET Domains, InsertChunk(chunk)
  PROVE  BlacklistInv'
<1>0. /\ DnsBlacklistTypeOK /\ PendingIsOfFeed /\ NamedIsListed /\ Curated \in Nat \ {0} /\ Sources = 1 .. Curated
      /\ turn \in Sources /\ chunk \subseteq pending /\ pending \subseteq Domains /\ ByHand \notin Sources
  BY SourcesAreNat DEF BlacklistInv, DnsBlacklistTypeOK, Curated, InsertChunk, PendingIsOfFeed, ByHand
<1>1. /\ rules' \subseteq [domain : Domains, id : Nat, reason : Sources \cup {ByHand}]
      /\ ids' \in [Domains -> Nat] /\ entered' \subseteq Domains \X Nat
      /\ NumbersAreGiven' /\ EnteredStands' /\ Listed' = Listed \cup chunk
  <2>1. /\ rules' = rules \cup NewRows(chunk \ Listed, turn) /\ Number(chunk \ Listed)
        /\ entered' = entered /\ turn # ByHand
    BY <1>0 DEF InsertChunk, Kept
  <2>2. chunk \ Listed \in SUBSET Domains /\ (chunk \ Listed) \cap Listed = {}
    BY <1>0
  <2>3. Listed \cup (chunk \ Listed) = Listed \cup chunk
    OBVIOUS
  <2>. QED
    BY <1>0, <2>1, <2>2, <2>3, RowsAreAdded
<1>2. due' = due \cup pending /\ UNCHANGED <<adding, rounds, changes>>
  BY DEF InsertChunk
<1>3. CASE Left(chunk) # {}
  <2>1. pending' = pending \ chunk /\ UNCHANGED <<turn, text, tried>>
    BY <1>3 DEF InsertChunk, Left
  <2>2. PendingIsOfFeed'
    BY <1>0, <2>1 DEF PendingIsOfFeed, InsertChunk
  <2>3. DnsBlacklistTypeOK'
    BY <1>0, <1>1, <1>2, <2>1 DEF DnsBlacklistTypeOK
  <2>4. NamedIsListed'
    BY <1>0, <1>1, <1>2, <2>1 DEF NamedIsListed
  <2>. QED
    BY <1>1, <2>2, <2>3, <2>4 DEF BlacklistInv
<1>4. CASE Left(chunk) = {}
  <2>0. turn' = After(turn) /\ tried' = tried \cup {turn} /\ After(turn) \in 0 .. Curated /\ Turn(After(turn))
    BY <1>0, <1>4, AfterIs DEF InsertChunk, Turn
  <2>1. text' \in {"none", "asked", "parsed"} /\ pending' \subseteq Domains /\ PendingIsOfFeed'
    BY <1>0, <2>0, TurnIs, OffersAre
  <2>2. /\ tried' \subseteq Sources
        /\ turn' = 0 => tried' \in {{}, Sources}
        /\ turn' # 0 => tried' = 1 .. turn' - 1
    BY <1>0, <2>0, TurnsAreTaken
  <2>3. DnsBlacklistTypeOK'
    BY <1>0, <1>1, <1>2, <2>0, <2>1, <2>2 DEF DnsBlacklistTypeOK, Curated
  <2>4. pending \subseteq chunk
    BY <1>4 DEF Left
  <2>5. NamedIsListed'
    BY <1>0, <1>1, <1>2, <2>2, <2>4 DEF NamedIsListed
  <2>. QED
    BY <1>1, <2>1, <2>3, <2>5 DEF BlacklistInv
<1>. QED
  BY <1>3, <1>4

LEMMA AdminStep ==
  ASSUME BlacklistInv, InsertRule \/ (\E d \in Domains : FindNone(d)) \/ (\E r \in rules : RemoveRule(r))
  PROVE  BlacklistInv'
<1>0. /\ DnsBlacklistTypeOK /\ PendingIsOfFeed /\ NamedIsListed /\ UNCHANGED <<turn, text, pending, rounds, tried>>
  BY DEF BlacklistInv, InsertRule, FindNone, RemoveRule, roundVars, blacklistHistory
<1>1. PendingIsOfFeed'
  BY <1>0 DEF PendingIsOfFeed
<1>2. ASSUME NEW d \in Domains, FindNone(d) PROVE BlacklistInv'
  <2>1. UNCHANGED <<rules, ids, entered, due>> /\ adding' = d
    BY <1>2 DEF FindNone, blacklistHistory
  <2>2. NumbersAreGiven' /\ EnteredStands' /\ Listed' = Listed
    BY <2>1, RowsStay
  <2>3. DnsBlacklistTypeOK'
    BY <1>0, <1>2, <2>1, DnsBlacklistAssumption DEF DnsBlacklistTypeOK, FindNone, ChangeOnce
  <2>4. NamedIsListed'
    BY <1>0, <2>1, <2>2 DEF NamedIsListed
  <2>. QED
    BY <1>1, <2>2, <2>3, <2>4 DEF BlacklistInv
<1>3. CASE InsertRule /\ adding \in Listed
  <2>1. UNCHANGED <<rules, ids, entered, due, changes>> /\ adding' = <<>>
    BY <1>3 DEF InsertRule
  <2>2. NumbersAreGiven' /\ EnteredStands' /\ Listed' = Listed
    BY <2>1, RowsStay
  <2>3. DnsBlacklistTypeOK'
    BY <1>0, <2>1 DEF DnsBlacklistTypeOK
  <2>4. NamedIsListed'
    BY <1>0, <2>1, <2>2 DEF NamedIsListed
  <2>. QED
    BY <1>1, <2>2, <2>3, <2>4 DEF BlacklistInv
<1>4. CASE InsertRule /\ adding \notin Listed
  <2>1. /\ adding \in Domains /\ rules' = rules \cup NewRows({adding}, ByHand) /\ Number({adding})
        /\ entered' = entered \cup {<<adding, ids[adding] + 1>>}
        /\ adding' = <<>> /\ UNCHANGED <<due, changes>>
    BY <1>0, <1>4 DEF InsertRule, DnsBlacklistTypeOK
  <2>2. /\ rules' \subseteq [domain : Domains, id : Nat, reason : Sources \cup {ByHand}]
        /\ ids' \in [Domains -> Nat] /\ entered' \subseteq Domains \X Nat
        /\ NumbersAreGiven' /\ EnteredStands' /\ Listed' = Listed \cup {adding}
    <3>1. {adding} \in SUBSET Domains /\ {adding} \cap Listed = {}
      BY <1>4, <2>1
    <3>2. {<<d, ids[d] + 1>> : d \in {adding}} = {<<adding, ids[adding] + 1>>}
      OBVIOUS
    <3>. QED
      BY <2>1, <3>1, <3>2, RowsAreAdded
  <2>3. DnsBlacklistTypeOK'
    BY <1>0, <2>1, <2>2 DEF DnsBlacklistTypeOK
  <2>4. NamedIsListed'
    BY <1>0, <2>1, <2>2 DEF NamedIsListed
  <2>. QED
    BY <1>1, <2>2, <2>3, <2>4 DEF BlacklistInv
<1>5. ASSUME NEW r \in rules, RemoveRule(r) PROVE BlacklistInv'
  <2>1. rules' = rules \ {r} /\ due' = due \ {r.domain} /\ UNCHANGED <<ids, adding, entered>>
    BY <1>5 DEF RemoveRule
  <2>2. NumbersAreGiven' /\ EnteredStands'
    BY <2>1 DEF BlacklistInv, NumbersAreGiven, EnteredStands
  <2>3. Listed \ {r.domain} \subseteq Listed'
    BY <2>1 DEF Listed
  <2>4. DnsBlacklistTypeOK'
    BY <1>0, <1>5, <2>1, DnsBlacklistAssumption DEF DnsBlacklistTypeOK, RemoveRule, ChangeOnce
  <2>5. NamedIsListed'
    BY <1>0, <2>1, <2>3 DEF NamedIsListed
  <2>. QED
    BY <1>1, <2>2, <2>4, <2>5 DEF BlacklistInv
<1>. QED
  BY <1>2, <1>3, <1>4, <1>5

LEMMA BlacklistStep == BlacklistInv /\ [DnsBlacklistNext]_blacklistVars => BlacklistInv'
<1>1. ASSUME BlacklistInv, UNCHANGED blacklistVars PROVE BlacklistInv'
  <2>1. NumbersAreGiven' /\ EnteredStands' /\ Listed' = Listed
    BY <1>1, RowsStay DEF blacklistVars, blacklistHistory
  <2>2. DnsBlacklistTypeOK' /\ PendingIsOfFeed' /\ NamedIsListed'
    BY <1>1, <2>1 DEF blacklistVars, roundVars, blacklistHistory, BlacklistInv, DnsBlacklistTypeOK, PendingIsOfFeed,
      NamedIsListed
  <2>. QED
    BY <2>1, <2>2 DEF BlacklistInv
<1>. QED
  BY <1>1, RoundStep, InsertStep, AdminStep DEF DnsBlacklistNext

\* The last labels of a domain are a domain of so many labels, if it has them.
LEMMA LastLabelsAre ==
  ASSUME NEW d \in Domains, NEW k \in Nat \ {0}
  PROVE  IF Len(d) <= k THEN LastLabels(d, k) = d ELSE Len(LastLabels(d, k)) = k
<1>1. d \in Seq(STRING) /\ Len(d) \in Nat
  BY DnsBlacklistAssumption
<1>. QED
  BY <1>1 DEF LastLabels

\* The branches of the SQL mark what a rule of two to six labels is the end of.
LEMMA BranchesAreTrue == DnsBlacklistTypeOK => MarksAreTrue
<1>. SUFFICES ASSUME DnsBlacklistTypeOK, NEW d \in Seen, d \notin Listed
              PROVE  (\E k \in 2 .. 6 : LastLabels(d, k) \in Listed)
                       <=> \E rule \in Listed : Len(rule) \in 2 .. 6 /\ IsUnder(d, rule)
  BY DEF MarksAreTrue, isBlacklisted
<1>0. d \in Domains /\ Len(d) \in Nat /\ Listed \subseteq Domains
  BY DnsBlacklistAssumption DEF DnsBlacklistTypeOK, Listed
<1>1. ASSUME NEW k \in 2 .. 6, LastLabels(d, k) \in Listed
      PROVE  \E rule \in Listed : Len(rule) \in 2 .. 6 /\ IsUnder(d, rule)
  <2>1. ~(Len(d) <= k) /\ Len(LastLabels(d, k)) = k
    BY <1>0, <1>1, LastLabelsAre
  <2>2. IsUnder(d, LastLabels(d, k))
    BY <1>0, <2>1 DEF IsUnder
  <2>. QED
    BY <1>1, <2>1, <2>2
<1>2. ASSUME NEW rule \in Listed, Len(rule) \in 2 .. 6, IsUnder(d, rule)
      PROVE  \E k \in 2 .. 6 : LastLabels(d, k) \in Listed
  BY <1>2 DEF IsUnder
<1>. QED
  BY <1>1, <1>2

LEMMA BlacklistIsSound == BlacklistInv => BlacklistIsTrue
  BY BranchesAreTrue DEF BlacklistInv, BlacklistIsTrue

\* The list of domains has what its sources named and marks what it names, however feeds and
\* statements fail and administrators add and remove beside it.
THEOREM BlacklistStands == DnsBlacklistSpec => []BlacklistIsTrue
<1>. QED
  BY BlacklistStarts, BlacklistStep, BlacklistIsSound, PTL DEF DnsBlacklistSpec

(***************************************************************************)
(* The list of domains, a number at a time.                                  *)
(***************************************************************************)

\* Where a page begins.
Offset(number) == (number - 1) * PageSize

LEMMA OffsetsAre ==
  ASSUME NEW p \in Nat \ {0}
  PROVE  /\ Offset(p) \in Nat /\ Offset(1) = 0
         /\ p > 1 => Offset(p) = Offset(p - 1) + PageSize
         /\ Offset(p + 1) = Offset(p) + PageSize
         /\ \A q \in Nat \ {0} : p <= q => Offset(p) <= Offset(q)
         /\ \A q \in Nat \ {0} : p < q => Offset(p) + PageSize <= Offset(q)
<1>0. PageSize \in Nat \ {0}
  BY BlacklistPageAssumption
<1>1. \A a, b \in Nat : a * PageSize \in Nat /\ (a <= b => a * PageSize <= b * PageSize)
                        /\ (a + 1) * PageSize = a * PageSize + PageSize
  BY <1>0
<1>2. p - 1 \in Nat /\ (p - 1) + 1 = p /\ (p + 1) - 1 = p
  OBVIOUS
<1>3. Offset(p) \in Nat /\ Offset(1) = 0 /\ Offset(p + 1) = Offset(p) + PageSize
  BY <1>0, <1>1, <1>2 DEF Offset
<1>4. p > 1 => Offset(p) = Offset(p - 1) + PageSize
  <2>1. ASSUME p > 1 PROVE (p - 1 - 1) \in Nat /\ (p - 1 - 1) + 1 = p - 1
    BY <2>1
  <2>. QED
    BY <2>1, <1>1 DEF Offset
<1>5. ASSUME NEW q \in Nat \ {0} PROVE p <= q => Offset(p) <= Offset(q)
  <2>1. q - 1 \in Nat /\ (p <= q => p - 1 <= q - 1)
    OBVIOUS
  <2>. QED
    BY <2>1, <1>1, <1>2 DEF Offset
<1>6. ASSUME NEW q \in Nat \ {0}, p < q PROVE Offset(p) + PageSize <= Offset(q)
  <2>1. q - 1 \in Nat /\ p <= q - 1 /\ p \in Nat
    BY <1>6
  <2>2. Offset(p + 1) <= Offset(q)
    BY <2>1, <1>1, <1>2 DEF Offset
  <2>. QED
    BY <2>2, <1>3
<1>. QED
  BY <1>3, <1>4, <1>5, <1>6

\* The rows of a page: none when the page begins after the last one.
LEMMA RowsOfPageAre ==
  ASSUME NEW rows \in Seq(AllDomains), NEW p \in Nat \ {0}
  PROVE  /\ RowsOfPage(rows, p) \in Seq(AllDomains) /\ Len(RowsOfPage(rows, p)) <= PageSize
         /\ RowsOfPage(rows, p) = <<>> <=> Len(rows) <= Offset(p)
         /\ RowsOfPage(rows, p) # <<>> => Offset(p) + Len(RowsOfPage(rows, p)) <= Len(rows)
<1>0. PICK offset \in Nat, length \in Nat :
        offset = Offset(p) /\ length = Len(rows) /\ DOMAIN rows = 1 .. length
  BY OffsetsAre, LenProperties
<1>. DEFINE rowsShown == {j \in 1 .. PageSize : offset + j <= length}
<1>1. RowsOfPage(rows, p) = [k \in rowsShown |-> rows[offset + k]]
  BY <1>0 DEF RowsOfPage, Offset
<1>2. PICK n \in 0 .. PageSize :
        /\ rowsShown = 1 .. n /\ (n = 0 <=> length <= offset) /\ (n # 0 => offset + n <= length)
  <2>0. PageSize \in Nat \ {0}
    BY BlacklistPageAssumption
  <2>1. CASE length <= offset
    <3>1. rowsShown = 1 .. 0 /\ 0 \in 0 .. PageSize
      BY <2>0, <2>1
    <3>. HIDE DEF rowsShown
    <3>. QED
      BY <3>1, <2>1
  <2>2. CASE offset < length /\ length <= offset + PageSize
    <3>1. PICK n \in Nat : n = length - offset
      BY <2>2
    <3>2. n # 0 /\ n <= PageSize /\ offset + n = length /\ n \in 0 .. PageSize
      BY <2>0, <2>2, <3>1
    <3>3. rowsShown = 1 .. n
      BY <3>2, <2>0
    <3>. HIDE DEF rowsShown
    <3>. QED
      BY <3>2, <3>3, <2>2
  <2>3. CASE offset + PageSize < length
    <3>1. rowsShown = 1 .. PageSize /\ PageSize \in 0 .. PageSize /\ ~(length <= offset)
      BY <2>0, <2>3
    <3>. HIDE DEF rowsShown
    <3>. QED
      BY <3>1, <2>0, <2>3
  <2>4. length <= offset \/ (offset < length /\ length <= offset + PageSize) \/ offset + PageSize < length
    BY <2>0
  <2>. HIDE DEF rowsShown
  <2>. QED
    BY <2>1, <2>2, <2>3, <2>4
<1>3. \A k \in 1 .. n : rows[offset + k] \in AllDomains
  <2>1. \A k \in 1 .. n : offset + k \in 1 .. length
    BY <1>2
  <2>. QED
    BY <2>1, <1>0, ElementOfSeq
<1>4. [k \in 1 .. n |-> rows[offset + k]] \in [1 .. n -> AllDomains]
  BY <1>3
<1>5. RowsOfPage(rows, p) \in [1 .. n -> AllDomains]
  BY <1>1, <1>2, <1>4
<1>6. RowsOfPage(rows, p) \in Seq(AllDomains) /\ Len(RowsOfPage(rows, p)) = n
  BY <1>5, <1>2
<1>7. RowsOfPage(rows, p) = <<>> <=> n = 0
  BY <1>6, EmptySeq
<1>. QED
  BY <1>2, <1>6, <1>7, <1>0, BlacklistPageAssumption

\* The number of pages, and the page that is shown for one that is asked for.
LEMMA TotalPagesAre ==
  ASSUME NEW total \in Nat
  PROVE  /\ TotalPages(total) \in Nat
         /\ total = 0 => TotalPages(total) = 0
         /\ total # 0 => TotalPages(total) \in Nat \ {0} /\ Offset(TotalPages(total)) < total
         /\ \A p \in Nat \ {0} : total > Offset(p) => p <= TotalPages(total)
<1>0. PageSize \in Nat \ {0}
  BY BlacklistPageAssumption
<1>. DEFINE q == TotalPages(total)
<1>1. q \in Nat /\ q * PageSize <= total + PageSize - 1 /\ total + PageSize - 1 < (q + 1) * PageSize
  BY <1>0 DEF TotalPages
<1>. HIDE DEF q
<1>2. (q + 1) * PageSize = q * PageSize + PageSize
  BY <1>0, <1>1
<1>3. total = 0 => q = 0
  BY <1>0, <1>1
<1>4. total # 0 => q # 0
  BY <1>0, <1>1
<1>5. total # 0 => Offset(q) < total
  <2>1. ASSUME total # 0 PROVE (q - 1) * PageSize = q * PageSize - PageSize
    BY <1>0, <1>1, <1>4, <2>1
  <2>2. q * PageSize \in Nat
    BY <1>0, <1>1
  <2>. QED
    BY <2>1, <2>2, <1>0, <1>1 DEF Offset
<1>6. ASSUME NEW p \in Nat \ {0}, total > Offset(p) PROVE p <= q
  <2>1. ASSUME p > q PROVE FALSE
    <3>1. Offset(q + 1) <= Offset(p)
      BY <2>1, <1>1, OffsetsAre
    <3>2. Offset(q + 1) = q * PageSize
      BY <1>1 DEF Offset
    <3>3. q * PageSize \in Nat /\ Offset(p) \in Nat
      BY <1>0, <1>1, OffsetsAre
    <3>. QED
      BY <3>1, <3>2, <3>3, <1>1, <1>2, <1>6, <1>0
  <2>. QED
    BY <2>1, <1>1
<1>. QED
  BY <1>1, <1>3, <1>4, <1>5, <1>6 DEF q

IsActive(i) == fetches[i].step # "none"
FoundOf(search) == Cardinality(FoundBy(search))
PageIsThere(number, search) == number = 1 \/ FoundOf(search) > Offset(number)
IsRemoved == \E d \in AllDomains : jobs[d] = "removed"

\* The number of the page is one the list has.
NumberIsThere == ~failed /\ ~IsFetching => blacklistPage = 1 \/ blacklistPage <= blacklistTotalPages

\* A call that was made alone is the only one, for the page and the search that are shown.
OneFetch ==
  ~crossed => \A i \in 1 .. MaxFetches : IsActive(i) =>
                /\ fetches[i].page = blacklistPage /\ fetches[i].search = blacklistSearch
                /\ \A j \in 1 .. MaxFetches : IsActive(j) => i = j
AnsweredIsSearch == ~crossed /\ ~failed /\ ~IsFetching => answered.search = blacklistSearch

\* An addition or removal is alone; while it is on its way only searches are made, and those are for the first page.
OneJob == ~astray => \A d, e \in AllDomains : jobs[d] # "none" /\ jobs[e] # "none" => d = e
JobsAreAlone ==
  ~astray /\ IsWorking =>
    \/ blacklistPage = 1 /\ \A i \in 1 .. MaxFetches : IsActive(i) => fetches[i].page = 1
    \/ ~IsFetching /\ ~crossed /\ ~failed

\* No call holds more rows than a page has.
CallsHoldAPage == \A i \in 1 .. MaxFetches : Len(fetches[i].rows) <= PageSize

\* What a call finds at each of its steps, unless a removal has come between them.
FetchFinds(f) ==
  /\ f.step = "asked" => PageIsThere(f.page, f.search)
  /\ f.step \in {"counted", "read"} =>
       /\ f.page = 1 \/ f.total > Offset(f.page)
       /\ IsRemoved \/ f.total <= FoundOf(f.search)
  /\ f.step = "read" /\ ~IsRemoved =>
       /\ f.rows = <<>> => f.total = 0
       /\ Offset(f.page) + Len(f.rows) <= FoundOf(f.search)
FetchesFind == ~astray /\ ~crossed => \A i \in 1 .. MaxFetches : FetchFinds(fetches[i])

\* What is shown is there, up to the row of a removal.
ShownIsFound ==
  ~astray /\ ~crossed /\ ~failed /\ ~IsFetching =>
    /\ blacklist = <<>> => blacklistPage = 1
    /\ ~IsRemoved =>
         /\ blacklist = <<>> => blacklistTotalPages = 0
         /\ Offset(blacklistPage) + Len(blacklist) <= FoundOf(blacklistSearch)
         /\ blacklistTotalPages = 0 \/ Offset(blacklistTotalPages) < FoundOf(blacklistSearch)
    /\ IsRemoved => blacklistPage = 1 \/ Offset(blacklistPage) + Len(blacklist) <= FoundOf(blacklistSearch) + 1

BlacklistPageInv ==
  /\ BlacklistPageTypeOK /\ NumberIsThere /\ OneFetch /\ AnsweredIsSearch /\ OneJob /\ JobsAreAlone
  /\ CallsHoldAPage /\ FetchesFind /\ ShownIsFound

LEMMA FindsAre == DOMAIN Finds = {"all", "some"} /\ \A s \in {"all", "some"} : Finds[s] \subseteq AllDomains
<1>1. DOMAIN Finds = {"all", "some"}
  BY DEF Finds
<1>2. Finds["all"] = AllDomains /\ Finds["some"] = Matching
  BY DEF Finds
<1>. QED
  BY <1>1, <1>2, BlacklistPageAssumption DEF AllDomains

LEMMA FetchingIs == (IsFetching <=> \E i \in 1 .. MaxFetches : IsActive(i)) /\ (Free \subseteq 1 .. MaxFetches)
  BY DEF IsFetching, Free, IsActive

LEMMA FoundIs ==
  ASSUME NEW s \in {"all", "some"}
  PROVE  FoundBy(s) \in SUBSET AllDomains /\ FoundOf(s) \in Nat /\ IsFiniteSet(FoundBy(s))
<1>1. FoundBy(s) \in SUBSET AllDomains
  BY FindsAre DEF FoundBy
<1>2. IsFiniteSet(AllDomains)
  BY BlacklistPageAssumption, FS_Interval DEF AllDomains
<1>. QED
  BY <1>1, <1>2, FS_Subset, FS_CardinalityType DEF FoundOf

\* How many there are after the list has changed.
LEMMA FoundChanges ==
  ASSUME NEW s \in {"all", "some"}, NEW d \in AllDomains
  PROVE  /\ flagged' = flagged \cup {d} => FoundOf(s)' \in Nat /\ FoundOf(s) <= FoundOf(s)'
         /\ flagged' = flagged \ {d} => FoundOf(s)' \in Nat /\ FoundOf(s) <= FoundOf(s)' + 1
         /\ flagged' = flagged => FoundOf(s)' = FoundOf(s)
<1>1. FoundOf(s) \in Nat /\ IsFiniteSet(FoundBy(s))
  BY FoundIs
<1>2. ASSUME flagged' = flagged \cup {d} PROVE FoundOf(s)' \in Nat /\ FoundOf(s) <= FoundOf(s)'
  <2>1. FoundBy(s)' = FoundBy(s) \/ FoundBy(s)' = FoundBy(s) \cup {d}
    BY <1>2 DEF FoundBy
  <2>. QED
    BY <1>1, <2>1, FS_AddElement DEF FoundOf
<1>3. ASSUME flagged' = flagged \ {d} PROVE FoundOf(s)' \in Nat /\ FoundOf(s) <= FoundOf(s)' + 1
  <2>1. FoundBy(s)' = FoundBy(s) \ {d}
    BY <1>3 DEF FoundBy
  <2>2. IsFiniteSet(FoundBy(s) \ {d}) /\ Cardinality(FoundBy(s) \ {d}) \in Nat
    BY <1>1, FS_RemoveElement, FS_CardinalityType
  <2>3. Cardinality(FoundBy(s)) <= Cardinality(FoundBy(s) \ {d}) + 1
    BY <1>1, <2>2, FS_RemoveElement DEF FoundOf
  <2>. QED
    BY <2>1, <2>2, <2>3 DEF FoundOf
<1>4. flagged' = flagged => FoundOf(s)' = FoundOf(s)
  BY DEF FoundOf, FoundBy
<1>. QED
  BY <1>2, <1>3, <1>4

LEMMA CallsAre ==
  /\ NoFetch \in Fetches /\ NoFetch.step = "none" /\ Len(NoFetch.rows) <= PageSize
  /\ \A p \in Nat \ {0}, s \in {"all", "some"} :
       /\ Asked(p, s) \in Fetches /\ Asked(p, s).step = "asked" /\ Asked(p, s).page = p /\ Asked(p, s).search = s
       /\ Len(Asked(p, s).rows) <= PageSize
<1>1. <<>> \in Seq(AllDomains) /\ Len(<<>>) <= PageSize
  BY EmptySeq, BlacklistPageAssumption
<1>2. NoFetch \in Fetches /\ NoFetch.step = "none" /\ NoFetch.rows = <<>>
  BY <1>1, FindsAre DEF NoFetch, Fetches
<1>. QED
  BY <1>1, <1>2, FindsAre DEF Asked, Fetches

LEMMA PageStarts == BlacklistPageInit => BlacklistPageInv
<1>. SUFFICES ASSUME BlacklistPageInit PROVE BlacklistPageInv
  OBVIOUS
<1>. USE BlacklistPageAssumption, FindsAre
<1>1. /\ Asked(1, "all") \in Fetches /\ Asked(1, "all").step = "asked" /\ Asked(1, "all").page = 1
      /\ Asked(1, "all").search = "all" /\ NoFetch \in Fetches /\ NoFetch.step = "none"
      /\ Len(Asked(1, "all").rows) <= PageSize /\ Len(NoFetch.rows) <= PageSize
  BY CallsAre
<1>2. BlacklistPageTypeOK
  <2>1. fetches \in [1 .. MaxFetches -> Fetches]
    BY <1>1 DEF BlacklistPageInit
  <2>2. blacklist = <<>> /\ blacklist \in Seq(AllDomains) /\ Len(blacklist) = 0
    BY EmptySeq DEF BlacklistPageInit
  <2>3. /\ flagged \subseteq AllDomains /\ blacklistTotalPages \in Nat /\ blacklistPage \in Nat \ {0}
        /\ blacklistSearch \in DOMAIN Finds /\ events \in 0 .. MaxEvents
        /\ jobs \in [AllDomains -> {"none", "adding", "added", "removing", "removed"}]
        /\ answered \in [page : Nat \ {0}, search : DOMAIN Finds]
    BY DEF BlacklistPageInit
  <2>4. crossed \in BOOLEAN /\ failed \in BOOLEAN /\ astray \in BOOLEAN
    BY DEF BlacklistPageInit
  <2>5. Len(blacklist) <= PageSize
    BY <2>2
  <2>. QED
    BY <2>1, <2>2, <2>3, <2>4, <2>5 DEF BlacklistPageTypeOK
<1>3. \A i \in 1 .. MaxFetches : fetches[i] = IF i = 1 THEN Asked(1, "all") ELSE NoFetch
  BY DEF BlacklistPageInit
<1>4. IsFetching
  BY <1>1, <1>3, FetchingIs DEF IsActive
<1>5. NumberIsThere /\ AnsweredIsSearch /\ ShownIsFound
  BY <1>4 DEF NumberIsThere, AnsweredIsSearch, ShownIsFound
<1>6. OneFetch
  BY <1>1, <1>3 DEF OneFetch, IsActive, BlacklistPageInit
<1>7. OneJob /\ JobsAreAlone
  BY DEF OneJob, JobsAreAlone, IsWorking, BlacklistPageInit
<1>8. FetchesFind
  BY <1>1, <1>3 DEF FetchesFind, FetchFinds, PageIsThere
<1>9. CallsHoldAPage
  BY <1>1, <1>3 DEF CallsHoldAPage
<1>. QED
  BY <1>2, <1>5, <1>6, <1>7, <1>8, <1>9 DEF BlacklistPageInv

LEMMA PageTypes ==
  ASSUME BlacklistPageInv
  PROVE  /\ \A i \in 1 .. MaxFetches : fetches[i] \in Fetches
         /\ \A f \in Fetches : f.search \in {"all", "some"} /\ f.page \in Nat \ {0} /\ f.total \in Nat /\ f.rows \in Seq(AllDomains)
         /\ blacklistSearch \in {"all", "some"} /\ blacklistPage \in Nat \ {0} /\ blacklistTotalPages \in Nat
         /\ blacklist \in Seq(AllDomains) /\ Len(blacklist) \in Nat /\ (blacklist = <<>> <=> Len(blacklist) = 0)
  BY FindsAre, EmptySeq, LenProperties DEF BlacklistPageInv, BlacklistPageTypeOK, Fetches

\* A step of one call: it finds what it should, and the page does not change.
LEMMA CallGoesOn ==
  ASSUME BlacklistPageInv, NEW i \in 1 .. MaxFetches, NEW f \in Fetches,
         fetches' = [fetches EXCEPT ![i] = f], IsActive(i), f.step # "none",
         f.page = fetches[i].page, f.search = fetches[i].search, Len(f.rows) <= PageSize,
         UNCHANGED <<flagged, listShown, jobs, events, listHistory>>,
         ~astray /\ ~crossed => FetchFinds(f)
  PROVE  BlacklistPageInv'
<1>. USE DEF BlacklistPageInv, listShown, listHistory
<1>1. fetches \in [1 .. MaxFetches -> Fetches]
  BY DEF BlacklistPageTypeOK
<1>2. /\ fetches' \in [1 .. MaxFetches -> Fetches] /\ fetches'[i] = f
      /\ \A j \in 1 .. MaxFetches : /\ j # i => fetches'[j] = fetches[j]
                                    /\ fetches'[j].page = fetches[j].page /\ fetches'[j].search = fetches[j].search
                                    /\ IsActive(j)' <=> IsActive(j)
  BY <1>1 DEF IsActive
<1>3. IsFetching' <=> IsFetching
  <2>1. IsFetching
    BY FetchingIs
  <2>2. IsFetching'
    BY <1>2 DEF IsFetching, Free, IsActive
  <2>. QED
    BY <2>1, <2>2
<1>4. BlacklistPageTypeOK'
  BY <1>2 DEF BlacklistPageTypeOK
<1>5. NumberIsThere' /\ AnsweredIsSearch' /\ OneJob'
  BY <1>3 DEF NumberIsThere, AnsweredIsSearch, OneJob
<1>6. OneFetch'
  BY <1>2 DEF OneFetch
<1>7. (IsWorking' <=> IsWorking) /\ (IsRemoved' <=> IsRemoved) /\ \A s : FoundOf(s)' = FoundOf(s)
  BY DEF IsWorking, IsRemoved, FoundOf, FoundBy
<1>8. JobsAreAlone'
  BY <1>2, <1>3, <1>7 DEF JobsAreAlone
<1>9. \A g \in Fetches : FetchFinds(g)' <=> FetchFinds(g)
  BY <1>7 DEF FetchFinds, PageIsThere
<1>10. FetchesFind'
  <2>1. ASSUME ~astray, ~crossed, NEW j \in 1 .. MaxFetches PROVE FetchFinds(fetches'[j])
    BY <2>1, <1>2 DEF FetchesFind
  <2>2. ASSUME ~astray', ~crossed', NEW j \in 1 .. MaxFetches PROVE FetchFinds(fetches[j])'
    <3>1. PICK g \in Fetches : g = fetches'[j]
      BY <1>2
    <3>2. FetchFinds(g)
      BY <2>1, <2>2, <3>1
    <3>3. FetchFinds(g)'
      BY <1>9, <3>2
    <3>. QED
      BY <3>1, <3>3 DEF FetchFinds, PageIsThere
  <2>. QED
    BY <2>2 DEF FetchesFind
<1>11. ShownIsFound'
  BY <1>3, <1>7 DEF ShownIsFound
<1>12. CallsHoldAPage'
  BY <1>2 DEF CallsHoldAPage
<1>. QED
  BY <1>4, <1>5, <1>6, <1>8, <1>10, <1>11, <1>12

LEMMA CountStep == ASSUME BlacklistPageInv, NEW i \in 1 .. MaxFetches, Count(i) PROVE BlacklistPageInv'
<1>1. PICK f \in Fetches : f = [fetches[i] EXCEPT !.step = "counted", !.total = FoundOf(fetches[i].search)]
  BY PageTypes, FoundIs DEF Fetches
<1>2. fetches[i] \in Fetches /\ fetches[i].step = "asked"
  BY PageTypes DEF Count
<1>3. /\ f.step = "counted" /\ f.total = FoundOf(f.search) /\ f.page = fetches[i].page /\ f.search = fetches[i].search
      /\ f.total \in Nat /\ Len(f.rows) <= PageSize
  BY <1>1, <1>2 DEF Fetches, BlacklistPageInv, CallsHoldAPage
<1>4. fetches' = [fetches EXCEPT ![i] = f] /\ UNCHANGED <<flagged, listShown, jobs, events, listHistory>>
  BY <1>1 DEF Count, FoundOf
<1>5. ASSUME ~astray, ~crossed PROVE FetchFinds(f)
  <2>1. PageIsThere(f.page, f.search)
    BY <1>2, <1>3, <1>5 DEF BlacklistPageInv, FetchesFind, FetchFinds
  <2>. QED
    BY <2>1, <1>3 DEF FetchFinds, PageIsThere
<1>6. IsActive(i)
  BY <1>2 DEF IsActive
<1>. QED
  BY <1>3, <1>4, <1>5, <1>6, CallGoesOn

LEMMA ReadStep == ASSUME BlacklistPageInv, NEW i \in 1 .. MaxFetches, Read(i) PROVE BlacklistPageInv'
<1>. DEFINE found == FoundBy(fetches[i].search)
            rows == RowsOfPage(InOrder(found), fetches[i].page)
<1>1. fetches[i] \in Fetches /\ fetches[i].step = "counted" /\ fetches[i].page \in Nat \ {0} /\ fetches[i].search \in {"all", "some"}
  BY PageTypes DEF Read
<1>2. InOrder(found) \in Seq(AllDomains) /\ Len(InOrder(found)) = FoundOf(fetches[i].search)
  BY <1>1, FoundIs, InOrderIs, BlacklistPageAssumption DEF FoundOf, AllDomains
<1>3. /\ rows \in Seq(AllDomains) /\ Len(rows) <= PageSize
      /\ rows = <<>> <=> FoundOf(fetches[i].search) <= Offset(fetches[i].page)
      /\ rows # <<>> => Offset(fetches[i].page) + Len(rows) <= FoundOf(fetches[i].search)
  BY <1>1, <1>2, RowsOfPageAre
<1>4. PICK f \in Fetches : f = [fetches[i] EXCEPT !.step = "read", !.rows = rows]
  BY <1>1, <1>3 DEF Fetches
<1>5. /\ f.step = "read" /\ f.rows = rows /\ f.page = fetches[i].page /\ f.search = fetches[i].search
      /\ f.total = fetches[i].total
  BY <1>1, <1>4 DEF Fetches
<1>6. fetches' = [fetches EXCEPT ![i] = f] /\ UNCHANGED <<flagged, listShown, jobs, events, listHistory>>
  BY <1>4 DEF Read
<1>7. ASSUME ~astray, ~crossed PROVE FetchFinds(f)
  <2>1. /\ f.page = 1 \/ f.total > Offset(f.page)
        /\ IsRemoved \/ f.total <= FoundOf(f.search)
    BY <1>1, <1>5, <1>7 DEF BlacklistPageInv, FetchesFind, FetchFinds
  <2>2. f.total \in Nat /\ FoundOf(f.search) \in Nat /\ Offset(f.page) \in Nat /\ Offset(1) = 0
    BY <1>1, <1>5, PageTypes, FoundIs, OffsetsAre
  <2>3. ASSUME ~IsRemoved PROVE /\ f.rows = <<>> => f.total = 0
                                /\ Offset(f.page) + Len(f.rows) <= FoundOf(f.search)
    <3>. HIDE DEF rows
    <3>1. f.total <= FoundOf(f.search)
      BY <2>1, <2>3
    <3>2. CASE f.rows = <<>>
      <4>1. FoundOf(f.search) <= Offset(f.page)
        BY <3>2, <1>3, <1>5
      <4>2. f.page = 1
        BY <2>1, <2>2, <3>1, <4>1
      <4>3. Len(f.rows) = 0
        BY <3>2, EmptySeq
      <4>. QED
        BY <4>1, <4>2, <4>3, <3>1, <2>2
    <3>3. CASE f.rows # <<>>
      BY <3>3, <1>3, <1>5
    <3>. QED
      BY <3>2, <3>3
  <2>. QED
    BY <2>1, <2>3, <1>5 DEF FetchFinds
<1>8. IsActive(i)
  BY <1>1 DEF IsActive
<1>9. Len(f.rows) <= PageSize
  BY <1>3, <1>5
<1>. HIDE DEF rows, found
<1>. QED
  BY <1>5, <1>6, <1>7, <1>8, <1>9, CallGoesOn

\* The page that is asked for is the one that is shown when the list reaches as far.
LEMMA SafePageIs ==
  ASSUME NEW p \in Nat \ {0}, NEW total \in Nat
  PROVE  /\ SafePage(p, total) \in Nat \ {0}
         /\ SafePage(p, total) = 1 \/ SafePage(p, total) <= TotalPages(total)
         /\ SafePage(1, total) = 1
         /\ p = 1 \/ total > Offset(p) => SafePage(p, total) = p
<1>1. /\ TotalPages(total) \in Nat
      /\ total = 0 => TotalPages(total) = 0
      /\ total # 0 => TotalPages(total) \in Nat \ {0}
      /\ total > Offset(p) => p <= TotalPages(total)
  BY TotalPagesAre
<1>2. Offset(p) \in Nat
  BY OffsetsAre
<1>3. total # 0 => 1 <= TotalPages(total)
  BY <1>1
<1>4. p = 1 \/ total > Offset(p) => SafePage(p, total) = p
  <2>1. CASE total = 0
    BY <2>1, <1>2 DEF SafePage
  <2>2. CASE total # 0
    BY <2>2, <1>1, <1>3 DEF SafePage
  <2>. QED
    BY <2>1, <2>2
<1>5. SafePage(p, total) \in Nat \ {0} /\ (SafePage(p, total) = 1 \/ SafePage(p, total) <= TotalPages(total))
  BY <1>1 DEF SafePage
<1>6. SafePage(1, total) = 1
  BY <1>3 DEF SafePage
<1>. QED
  BY <1>4, <1>5, <1>6

\* A call that ends leaves the others as they were.
LEMMA CallEnds ==
  ASSUME BlacklistPageInv, NEW i \in 1 .. MaxFetches, IsActive(i), fetches' = [fetches EXCEPT ![i] = NoFetch]
  PROVE  /\ fetches' \in [1 .. MaxFetches -> Fetches] /\ ~IsActive(i)' /\ IsFetching
         /\ \A j \in 1 .. MaxFetches : IsActive(j)' => j # i /\ IsActive(j) /\ fetches'[j] = fetches[j]
         /\ \A j \in 1 .. MaxFetches : fetches'[j] = fetches[j] \/ fetches'[j].step = "none"
         /\ CallsHoldAPage'
         /\ ~crossed => ~IsFetching'
<1>1. fetches \in [1 .. MaxFetches -> Fetches] /\ NoFetch \in Fetches /\ NoFetch.step = "none"
  BY CallsAre DEF BlacklistPageInv, BlacklistPageTypeOK
<1>2. fetches' \in [1 .. MaxFetches -> Fetches] /\ fetches'[i] = NoFetch
      /\ \A j \in 1 .. MaxFetches : j # i => fetches'[j] = fetches[j]
  BY <1>1
<1>3. ~IsActive(i)' /\ \A j \in 1 .. MaxFetches : IsActive(j)' => j # i /\ IsActive(j) /\ fetches'[j] = fetches[j]
  BY <1>1, <1>2 DEF IsActive
<1>4. ASSUME ~crossed PROVE ~IsFetching'
  <2>1. \A j \in 1 .. MaxFetches : ~IsActive(j)'
    BY <1>3, <1>4 DEF BlacklistPageInv, OneFetch
  <2>. QED
    BY <2>1 DEF IsFetching, Free, IsActive
<1>5. IsFetching
  BY FetchingIs
<1>6. \A j \in 1 .. MaxFetches : fetches'[j] = fetches[j] \/ fetches'[j].step = "none"
  BY <1>1, <1>2
<1>7. CallsHoldAPage'
  BY <1>1, <1>2, CallsAre DEF BlacklistPageInv, CallsHoldAPage
<1>. QED
  BY <1>2, <1>3, <1>4, <1>5, <1>6, <1>7

LEMMA AnswerStep == ASSUME BlacklistPageInv, NEW i \in 1 .. MaxFetches, Answer(i) PROVE BlacklistPageInv'
<1>. USE DEF BlacklistPageInv
<1>1. PICK f \in Fetches : f = fetches[i]
  BY PageTypes
<1>2. /\ f.step = "read" /\ f.page \in Nat \ {0} /\ f.search \in {"all", "some"} /\ f.total \in Nat
      /\ f.rows \in Seq(AllDomains)
  BY <1>1, PageTypes DEF Answer
<1>3. /\ blacklist' = f.rows /\ blacklistTotalPages' = TotalPages(f.total)
      /\ blacklistPage' = SafePage(f.page, f.total) /\ answered' = [page |-> f.page, search |-> f.search]
      /\ fetches' = [fetches EXCEPT ![i] = NoFetch]
      /\ UNCHANGED <<flagged, blacklistSearch, jobs, events, crossed, failed, astray>>
  BY <1>1 DEF Answer, AnsweredPage
<1>4. IsActive(i)
  BY <1>1, <1>2 DEF IsActive
<1>5. /\ fetches' \in [1 .. MaxFetches -> Fetches] /\ ~IsActive(i)' /\ IsFetching
      /\ \A j \in 1 .. MaxFetches : IsActive(j)' => j # i /\ IsActive(j) /\ fetches'[j] = fetches[j]
      /\ \A j \in 1 .. MaxFetches : fetches'[j] = fetches[j] \/ fetches'[j].step = "none"
      /\ CallsHoldAPage'
      /\ ~crossed => ~IsFetching'
  BY <1>3, <1>4, CallEnds
<1>6. /\ TotalPages(f.total) \in Nat
      /\ f.total = 0 => TotalPages(f.total) = 0
      /\ f.total # 0 => Offset(TotalPages(f.total)) < f.total
  <2>1. f.total \in Nat
    BY <1>2
  <2>. QED
    BY ONLY <2>1, TotalPagesAre
<1>7. /\ SafePage(f.page, f.total) \in Nat \ {0}
      /\ SafePage(f.page, f.total) = 1 \/ SafePage(f.page, f.total) <= TotalPages(f.total)
      /\ SafePage(1, f.total) = 1
      /\ f.page = 1 \/ f.total > Offset(f.page) => SafePage(f.page, f.total) = f.page
  BY <1>2, SafePageIs
<1>8. (IsWorking' <=> IsWorking) /\ (IsRemoved' <=> IsRemoved) /\ \A s : FoundOf(s)' = FoundOf(s)
  BY <1>3 DEF IsWorking, IsRemoved, FoundOf, FoundBy
<1>9. ASSUME ~crossed PROVE f.page = blacklistPage /\ f.search = blacklistSearch
  BY <1>1, <1>4, <1>9 DEF OneFetch
<1>10. BlacklistPageTypeOK'
  <2>1. Len(f.rows) <= PageSize
    BY <1>1 DEF CallsHoldAPage
  <2>2. answered' \in [page : Nat \ {0}, search : DOMAIN Finds]
    BY <1>2, <1>3, FindsAre
  <2>. QED
    BY <2>1, <2>2, <1>2, <1>3, <1>5, <1>6, <1>7 DEF BlacklistPageTypeOK
<1>11. NumberIsThere'
  BY <1>3, <1>7 DEF NumberIsThere
<1>12. OneFetch'
  <2>1. ASSUME ~crossed', NEW j \in 1 .. MaxFetches PROVE ~IsActive(j)'
    BY <2>1, <1>3, <1>5 DEF IsFetching, Free, IsActive
  <2>. QED
    BY <2>1 DEF OneFetch
<1>13. AnsweredIsSearch'
  BY <1>3, <1>9 DEF AnsweredIsSearch
<1>14. OneJob'
  BY <1>3 DEF OneJob
<1>15. JobsAreAlone'
  <2>1. ASSUME ~astray, IsWorking
        PROVE  /\ SafePage(f.page, f.total) = 1
               /\ \A j \in 1 .. MaxFetches : IsActive(j)' => fetches'[j].page = 1
    <3>1. \A j \in 1 .. MaxFetches : IsActive(j) => fetches[j].page = 1
      BY <2>1, <1>5 DEF JobsAreAlone
    <3>2. f.page = 1
      BY <3>1, <1>1, <1>4
    <3>. QED
      BY <3>1, <3>2, <1>5, <1>7
  <2>. QED
    BY <2>1, <1>3, <1>8 DEF JobsAreAlone
<1>16. FetchesFind'
  <2>1. ASSUME ~crossed', NEW j \in 1 .. MaxFetches PROVE fetches'[j].step = "none"
    BY <2>1, <1>3, <1>5 DEF IsFetching, Free
  <2>. QED
    BY <2>1 DEF FetchesFind, FetchFinds
<1>17. ShownIsFound'
  <2>. SUFFICES ASSUME ~astray, ~crossed, ~failed
                PROVE  ShownIsFound'
    BY <1>3 DEF ShownIsFound
  <2>1. FetchFinds(f) /\ f.page = blacklistPage /\ f.search = blacklistSearch
    BY <1>1, <1>9 DEF FetchesFind
  <2>2. /\ f.page = 1 \/ f.total > Offset(f.page)
        /\ IsRemoved \/ f.total <= FoundOf(f.search)
        /\ ~IsRemoved => /\ f.rows = <<>> => f.total = 0
                         /\ Offset(f.page) + Len(f.rows) <= FoundOf(f.search)
    BY <2>1, <1>2 DEF FetchFinds
  <2>3. blacklistPage' = f.page
    BY <2>2, <1>3, <1>7
  <2>4. IsRemoved => f.page = 1
    <3>1. ASSUME IsRemoved PROVE IsWorking
      BY <3>1 DEF IsRemoved, IsWorking
    <3>. QED
      BY <3>1, <1>1, <1>4, <1>5 DEF JobsAreAlone
  <2>5. f.total = 0 => f.page = 1
    <3>1. Offset(f.page) \in Nat
      BY <1>2, OffsetsAre
    <3>. QED
      BY <3>1, <2>2, <1>2
  <2>6. FoundOf(blacklistSearch)' = FoundOf(f.search) /\ FoundOf(f.search) \in Nat
    <3>1. PICK s \in {"all", "some"} : s = f.search
      BY <1>2
    <3>2. FoundOf(blacklistSearch)' = FoundOf(s)
      BY <3>1, <2>1, <1>3 DEF FoundOf, FoundBy
    <3>. QED
      BY <3>1, <3>2, FoundIs
  <2>7. ~IsRemoved => TotalPages(f.total) = 0 \/ Offset(TotalPages(f.total)) < FoundOf(f.search)
    <3>1. TotalPages(f.total) # 0 => Offset(TotalPages(f.total)) \in Nat
      BY <1>6, OffsetsAre
    <3>. QED
      BY <3>1, <2>2, <2>6, <1>2, <1>6
  <2>8. /\ blacklist' = <<>> => blacklistPage' = 1
        /\ ~IsRemoved' =>
             /\ blacklist' = <<>> => blacklistTotalPages' = 0
             /\ Offset(blacklistPage') + Len(blacklist') <= FoundOf(blacklistSearch)'
             /\ blacklistTotalPages' = 0 \/ Offset(blacklistTotalPages') < FoundOf(blacklistSearch)'
        /\ IsRemoved' => blacklistPage' = 1
    BY <2>2, <2>3, <2>4, <2>5, <2>6, <2>7, <1>3, <1>6, <1>8
  <2>. QED
    BY <2>8 DEF ShownIsFound, Offset
<1>. QED
  BY <1>5, <1>10, <1>11, <1>12, <1>13, <1>14, <1>15, <1>16, <1>17

LEMMA FetchFailsStep == ASSUME BlacklistPageInv, NEW i \in 1 .. MaxFetches, FetchFails(i) PROVE BlacklistPageInv'
<1>. USE DEF BlacklistPageInv, listShown
<1>1. /\ fetches' = [fetches EXCEPT ![i] = NoFetch] /\ failed' = TRUE /\ events' \in 0 .. MaxEvents
      /\ UNCHANGED <<flagged, listShown, jobs, answered, crossed, astray>>
  BY BlacklistPageAssumption DEF FetchFails, Event, BlacklistPageTypeOK
<1>2. IsActive(i)
  BY DEF FetchFails, IsActive
<1>3. /\ fetches' \in [1 .. MaxFetches -> Fetches] /\ ~IsActive(i)' /\ IsFetching
      /\ \A j \in 1 .. MaxFetches : IsActive(j)' => j # i /\ IsActive(j) /\ fetches'[j] = fetches[j]
      /\ \A j \in 1 .. MaxFetches : fetches'[j] = fetches[j] \/ fetches'[j].step = "none"
      /\ CallsHoldAPage'
      /\ ~crossed => ~IsFetching'
  BY <1>1, <1>2, CallEnds
<1>4. BlacklistPageTypeOK'
  BY <1>1, <1>3 DEF BlacklistPageTypeOK
<1>5. NumberIsThere' /\ AnsweredIsSearch' /\ ShownIsFound' /\ OneJob'
  BY <1>1 DEF NumberIsThere, AnsweredIsSearch, ShownIsFound, OneJob
<1>6. ASSUME ~crossed', NEW j \in 1 .. MaxFetches PROVE fetches'[j].step = "none" /\ ~IsActive(j)'
  BY <1>1, <1>3, <1>6 DEF IsFetching, Free, IsActive
<1>7. OneFetch' /\ FetchesFind'
  BY <1>6 DEF OneFetch, FetchesFind, FetchFinds
<1>8. JobsAreAlone'
  <2>1. ASSUME ~astray, IsWorking
        PROVE  /\ blacklistPage = 1
               /\ \A j \in 1 .. MaxFetches : IsActive(j)' => fetches'[j].page = 1
    <3>1. blacklistPage = 1 /\ \A j \in 1 .. MaxFetches : IsActive(j) => fetches[j].page = 1
      BY <2>1, <1>3 DEF JobsAreAlone
    <3>. QED
      BY <3>1, <1>3
  <2>2. IsWorking' <=> IsWorking
    BY <1>1 DEF IsWorking
  <2>. QED
    BY <2>1, <2>2, <1>1 DEF JobsAreAlone
<1>. QED
  BY <1>3, <1>4, <1>5, <1>7, <1>8

\* A new call is the only one, or it is crossed.
LEMMA CallBegins ==
  ASSUME BlacklistPageInv, NEW p \in Nat \ {0}, NEW s \in {"all", "some"}, Fetch(p, s),
         blacklistPage' = p, blacklistSearch' = s,
         UNCHANGED <<flagged, blacklist, blacklistTotalPages, answered>>,
         events' \in 0 .. MaxEvents, astray' \in BOOLEAN,
         jobs' \in [AllDomains -> {"none", "adding", "added", "removing", "removed"}],
         OneJob',
         ~astray' => ~IsWorking' \/ /\ p = 1
                                     /\ \A j \in 1 .. MaxFetches : IsActive(j) => fetches[j].page = 1,
         ~astray' /\ ~IsFetching => PageIsThere(p, s)
  PROVE  BlacklistPageInv'
<1>. USE DEF BlacklistPageInv
<1>1. PICK i \in 1 .. MaxFetches : ~IsActive(i) /\ fetches' = [fetches EXCEPT ![i] = Asked(p, s)]
  <2>1. Free \in SUBSET (1 .. MaxFetches) /\ Free # {} /\ MaxFetches \in Nat
    BY BlacklistPageAssumption DEF Free, Fetch
  <2>2. \E m \in Free : \A n \in Free : m <= n
    BY <2>1, FirstAndLast
  <2>3. PICK m \in Free : m = CHOOSE i \in Free : \A j \in Free : i <= j
    BY <2>2
  <2>. QED
    BY <2>3 DEF Fetch, Free, IsActive
<1>2. crossed' = IsFetching /\ failed' = (failed /\ IsFetching)
  BY DEF Fetch
<1>3. /\ Asked(p, s) \in Fetches /\ Asked(p, s).step = "asked" /\ Asked(p, s).page = p
      /\ Asked(p, s).search = s /\ Len(Asked(p, s).rows) <= PageSize
  BY CallsAre
<1>4. /\ fetches' \in [1 .. MaxFetches -> Fetches] /\ fetches'[i] = Asked(p, s) /\ IsActive(i)'
      /\ \A j \in 1 .. MaxFetches : j # i => fetches'[j] = fetches[j] /\ (IsActive(j)' <=> IsActive(j))
  BY <1>1, <1>3 DEF BlacklistPageTypeOK, IsActive
<1>5. IsFetching' /\ IsFetching \in BOOLEAN /\ IsFetching = (\E j \in 1 .. MaxFetches : IsActive(j))
  <2>1. IsFetching'
    BY <1>4 DEF IsFetching, Free, IsActive
  <2>. QED
    BY <2>1, FetchingIs DEF IsFetching
<1>6. BlacklistPageTypeOK'
  <2>1. crossed' \in BOOLEAN /\ failed' \in BOOLEAN
    BY <1>2 DEF IsFetching
  <2>. QED
    BY <2>1, <1>4, FindsAre DEF BlacklistPageTypeOK
<1>7. NumberIsThere' /\ AnsweredIsSearch' /\ ShownIsFound'
  BY <1>5 DEF NumberIsThere, AnsweredIsSearch, ShownIsFound
<1>8. ASSUME ~crossed' PROVE \A j \in 1 .. MaxFetches : IsActive(j)' => j = i
  BY <1>2, <1>4, <1>5, <1>8
<1>9. OneFetch'
  BY <1>3, <1>4, <1>8 DEF OneFetch
<1>10. CallsHoldAPage'
  BY <1>3, <1>4 DEF CallsHoldAPage
<1>11. JobsAreAlone'
  BY <1>3, <1>4 DEF JobsAreAlone
<1>12. FetchesFind'
  <2>1. ASSUME ~astray', ~crossed', NEW j \in 1 .. MaxFetches PROVE FetchFinds(fetches[j])'
    <3>1. CASE j = i
      <4>1. fetches'[j].step = "asked" /\ fetches'[j].page = p /\ fetches'[j].search = s
        BY <3>1, <1>3, <1>4
      <4>2. PageIsThere(p, s)
        BY <2>1, <1>2
      <4>3. PageIsThere(p, s)'
        BY <4>2 DEF PageIsThere, FoundOf, FoundBy
      <4>. QED
        BY <4>1, <4>3 DEF FetchFinds, PageIsThere
    <3>2. CASE j # i
      <4>1. fetches'[j].step = "none"
        BY <2>1, <3>2, <1>8 DEF IsActive
      <4>. QED
        BY <4>1 DEF FetchFinds
    <3>. QED
      BY <3>1, <3>2
  <2>. QED
    BY <2>1 DEF FetchesFind
<1>. QED
  BY <1>6, <1>7, <1>9, <1>10, <1>11, <1>12

\* What is shown when the page is settled: pages before the last one and the last one are there.
LEMMA PagesAround ==
  ASSUME BlacklistPageInv, ~astray, ~crossed, ~failed, ~IsFetching, ~IsRemoved
  PROVE  /\ PageIsThere(blacklistPage, blacklistSearch)
         /\ \A p \in Nat \ {0} : p <= blacklistPage \/ p <= blacklistTotalPages => PageIsThere(p, blacklistSearch)
<1>1. /\ blacklistSearch \in {"all", "some"} /\ blacklistPage \in Nat \ {0} /\ blacklistTotalPages \in Nat
      /\ Len(blacklist) \in Nat /\ (blacklist = <<>> <=> Len(blacklist) = 0)
  BY PageTypes
<1>2. /\ blacklist = <<>> => blacklistPage = 1
      /\ Offset(blacklistPage) + Len(blacklist) <= FoundOf(blacklistSearch)
      /\ blacklistTotalPages = 0 \/ Offset(blacklistTotalPages) < FoundOf(blacklistSearch)
  BY DEF BlacklistPageInv, ShownIsFound
<1>3. FoundOf(blacklistSearch) \in Nat
  BY <1>1, FoundIs
<1>4. ASSUME NEW p \in Nat \ {0}, NEW q \in Nat \ {0}, p <= q, Offset(q) < FoundOf(blacklistSearch)
      PROVE  PageIsThere(p, blacklistSearch)
  <2>1. Offset(p) \in Nat /\ Offset(q) \in Nat /\ Offset(p) <= Offset(q)
    BY <1>4, OffsetsAre
  <2>. QED
    BY <2>1, <1>3, <1>4 DEF PageIsThere
<1>5. blacklistPage = 1 \/ Offset(blacklistPage) < FoundOf(blacklistSearch)
  <2>1. Offset(blacklistPage) \in Nat
    BY <1>1, OffsetsAre
  <2>. QED
    BY <2>1, <1>1, <1>2, <1>3
<1>6. ASSUME NEW p \in Nat \ {0}, p <= blacklistPage PROVE PageIsThere(p, blacklistSearch)
  <2>1. CASE blacklistPage = 1
    BY <2>1, <1>6 DEF PageIsThere
  <2>2. CASE Offset(blacklistPage) < FoundOf(blacklistSearch)
    BY <2>2, <1>1, <1>4, <1>6
  <2>. QED
    BY <2>1, <2>2, <1>5
<1>7. ASSUME NEW p \in Nat \ {0}, p <= blacklistTotalPages PROVE PageIsThere(p, blacklistSearch)
  <2>1. blacklistTotalPages \in Nat \ {0} /\ blacklistTotalPages # 0
    BY <1>1, <1>7
  <2>. QED
    BY <2>1, <1>2, <1>4, <1>7
<1>. QED
  BY <1>1, <1>6, <1>7

LEMMA TurnPageStep == ASSUME BlacklistPageInv, NEW number \in 1 .. MaxDomain, TurnPage(number) PROVE BlacklistPageInv'
<1>1. /\ number \in Nat \ {0} /\ blacklistSearch \in {"all", "some"} /\ blacklistPage \in Nat \ {0}
      /\ blacklistTotalPages \in Nat
  BY PageTypes, BlacklistPageAssumption
<1>2. /\ Fetch(number, blacklistSearch) /\ blacklistPage' = number /\ blacklistSearch' = blacklistSearch
      /\ UNCHANGED <<flagged, blacklist, blacklistTotalPages, answered, jobs>>
      /\ astray' = (astray \/ Unsettled)
      /\ number <= blacklistPage \/ number <= blacklistTotalPages
  BY <1>1 DEF TurnPage
<1>3. events' \in 0 .. MaxEvents /\ astray' \in BOOLEAN
      /\ jobs' \in [AllDomains -> {"none", "adding", "added", "removing", "removed"}]
  BY <1>2, BlacklistPageAssumption DEF TurnPage, Event, BlacklistPageInv, BlacklistPageTypeOK, Unsettled, IsFetching, IsWorking
<1>4. ~astray' => ~astray /\ ~Unsettled
  BY <1>2
<1>5. OneJob'
  BY <1>2, <1>4 DEF BlacklistPageInv, OneJob
<1>6. ~astray' => ~IsWorking'
  BY <1>2, <1>4 DEF Unsettled, IsWorking
<1>7. ~astray' => PageIsThere(number, blacklistSearch)
  <2>1. ASSUME ~astray' PROVE ~astray /\ ~crossed /\ ~failed /\ ~IsFetching /\ ~IsRemoved
    BY <1>4, <2>1 DEF Unsettled, IsWorking, IsRemoved
  <2>. QED
    BY <2>1, <1>1, <1>2, PagesAround
<1>. QED
  BY <1>1, <1>2, <1>3, <1>5, <1>6, <1>7, CallBegins

LEMMA SearchStep == ASSUME BlacklistPageInv, NEW search \in DOMAIN Finds, Search(search) PROVE BlacklistPageInv'
<1>1. search \in {"all", "some"} /\ 1 \in Nat \ {0}
  BY FindsAre
<1>2. /\ Fetch(1, search) /\ blacklistPage' = 1 /\ blacklistSearch' = search
      /\ UNCHANGED <<flagged, blacklist, blacklistTotalPages, answered, jobs, astray>>
  BY DEF Search, FirstPage
<1>3. events' \in 0 .. MaxEvents /\ astray' \in BOOLEAN
      /\ jobs' \in [AllDomains -> {"none", "adding", "added", "removing", "removed"}]
  BY <1>2, BlacklistPageAssumption DEF Search, Event, BlacklistPageInv, BlacklistPageTypeOK
<1>4. OneJob'
  BY <1>2 DEF BlacklistPageInv, OneJob
<1>5. ~astray' => ~IsWorking' \/ \A j \in 1 .. MaxFetches : IsActive(j) => fetches[j].page = 1
  <2>1. IsWorking' <=> IsWorking
    BY <1>2 DEF IsWorking
  <2>. QED
    BY <2>1, <1>2, FetchingIs DEF BlacklistPageInv, JobsAreAlone
<1>6. PageIsThere(1, search)
  BY DEF PageIsThere
<1>. QED
  BY <1>1, <1>2, <1>3, <1>4, <1>5, <1>6, CallBegins

\* The page that is read again after an addition or a removal is there.
LEMMA RefreshStep == ASSUME BlacklistPageInv, NEW d \in AllDomains, Refresh(d) PROVE BlacklistPageInv'
<1>1. /\ blacklistSearch \in {"all", "some"} /\ blacklistPage \in Nat \ {0} /\ Len(blacklist) \in Nat
      /\ (blacklist = <<>> <=> Len(blacklist) = 0)
  BY PageTypes
<1>2. PICK p \in Nat \ {0} : /\ (jobs[d] = "added" /\ p = blacklistPage) \/ (jobs[d] = "removed" /\ p = PageLeft)
                            /\ Fetch(p, blacklistSearch) /\ blacklistPage' = p
  <2>1. PageLeft \in Nat \ {0}
    BY <1>1 DEF PageLeft
  <2>2. CASE jobs[d] = "added"
    <3>1. Fetch(blacklistPage, blacklistSearch) /\ blacklistPage' = blacklistPage
      BY <2>2 DEF Refresh
    <3>. QED
      BY <2>2, <3>1, <1>1
  <2>3. CASE jobs[d] = "removed"
    <3>1. Fetch(PageLeft, blacklistSearch) /\ blacklistPage' = PageLeft
      BY <2>3 DEF Refresh
    <3>. QED
      BY <2>3, <3>1, <2>1
  <2>. QED
    BY <2>2, <2>3 DEF Refresh
<1>3. /\ blacklistSearch' = blacklistSearch /\ jobs' = [jobs EXCEPT ![d] = "none"]
      /\ UNCHANGED <<flagged, blacklist, blacklistTotalPages, answered, events, astray>>
  BY DEF Refresh
<1>4. /\ jobs \in [AllDomains -> {"none", "adding", "added", "removing", "removed"}]
      /\ jobs' \in [AllDomains -> {"none", "adding", "added", "removing", "removed"}]
      /\ events' \in 0 .. MaxEvents /\ astray' \in BOOLEAN
  BY <1>3 DEF BlacklistPageInv, BlacklistPageTypeOK
<1>5. IsWorking /\ jobs[d] # "none"
  BY <1>2 DEF IsWorking
<1>6. ASSUME ~astray PROVE /\ \A e \in AllDomains : e # d => jobs[e] = "none"
                           /\ \A e \in AllDomains : jobs'[e] = "none"
                           /\ ~IsWorking'
  <2>1. \A e \in AllDomains : e # d => jobs[e] = "none"
    BY <1>5, <1>6 DEF BlacklistPageInv, OneJob
  <2>2. \A e \in AllDomains : jobs'[e] = "none"
    BY <2>1, <1>3, <1>4
  <2>. QED
    BY <2>1, <2>2 DEF IsWorking
<1>7. OneJob'
  BY <1>3, <1>6 DEF OneJob
<1>8. ASSUME ~astray, ~IsFetching PROVE PageIsThere(p, blacklistSearch)
  <2>1. CASE blacklistPage = 1
    BY <2>1, <1>2 DEF PageIsThere, PageLeft
  <2>2. CASE blacklistPage # 1
    <3>1. ~crossed /\ ~failed
      BY <2>2, <1>5, <1>8 DEF BlacklistPageInv, JobsAreAlone
    <3>2. CASE jobs[d] = "added"
      <4>1. ~IsRemoved
        <5>1. \A e \in AllDomains : jobs[e] # "removed"
          BY <3>2, <1>6, <1>8
        <5>. QED
          BY <5>1 DEF IsRemoved
      <4>2. p = blacklistPage
        BY <3>2, <1>2
      <4>. QED
        BY <4>1, <4>2, <3>1, <1>8, PagesAround
    <3>3. CASE jobs[d] = "removed"
      <4>1. IsRemoved
        BY <3>3 DEF IsRemoved
      <4>2. blacklist # <<>> /\ Offset(blacklistPage) + Len(blacklist) <= FoundOf(blacklistSearch) + 1
        BY <4>1, <3>1, <2>2, <1>8 DEF BlacklistPageInv, ShownIsFound
      <4>3. p = PageLeft /\ Len(blacklist) # 0
        BY <3>3, <4>2, <1>1, <1>2
      <4>4. blacklistPage > 1
        BY <2>2, <1>1
      <4>5. /\ FoundOf(blacklistSearch) \in Nat /\ Offset(blacklistPage) \in Nat /\ PageSize \in Nat \ {0}
            /\ blacklistPage - 1 \in Nat \ {0} /\ Offset(blacklistPage - 1) \in Nat
            /\ Offset(blacklistPage) = Offset(blacklistPage - 1) + PageSize
        <5>1. blacklistPage - 1 \in Nat \ {0}
          BY <1>1, <4>4
        <5>. QED
          BY <5>1, <4>4, <1>1, FoundIs, OffsetsAre, BlacklistPageAssumption
      <4>6. CASE Len(blacklist) = 1
        <5>1. p = blacklistPage - 1
          BY <4>3, <4>4, <4>6 DEF PageLeft
        <5>2. Offset(blacklistPage - 1) < FoundOf(blacklistSearch)
          BY <4>2, <4>5, <4>6
        <5>. QED
          BY <5>1, <5>2, <4>5 DEF PageIsThere
      <4>7. CASE Len(blacklist) # 1
        <5>1. p = blacklistPage
          BY <4>3, <4>7 DEF PageLeft
        <5>2. Offset(blacklistPage) < FoundOf(blacklistSearch)
          <6>1. PICK len \in Nat : len = Len(blacklist)
            BY <1>1
          <6>2. len >= 2 /\ Offset(blacklistPage) + len <= FoundOf(blacklistSearch) + 1
            BY <4>2, <4>3, <4>7, <6>1
          <6>. QED
            BY <4>5, <6>2
        <5>. QED
          BY <5>1, <5>2, <4>5 DEF PageIsThere
      <4>. QED
        BY <4>6, <4>7
    <3>. QED
      BY <3>2, <3>3, <1>2
  <2>. QED
    BY <2>1, <2>2
<1>. QED
  BY <1>1, <1>2, <1>3, <1>4, <1>6, <1>7, <1>8, CallBegins

\* A step that makes and ends no call: what was found is there unless the row of a removal is not.
LEMMA ListChanges ==
  ASSUME BlacklistPageInv, UNCHANGED <<listShown, fetches, answered, crossed, failed>>,
         flagged' \subseteq AllDomains, events' \in 0 .. MaxEvents, astray' \in BOOLEAN,
         jobs' \in [AllDomains -> {"none", "adding", "added", "removing", "removed"}],
         ~astray' => OneJob' /\ JobsAreAlone' /\ FetchesFind' /\ ShownIsFound'
  PROVE  BlacklistPageInv'
<1>. USE DEF BlacklistPageInv, listShown
<1>1. BlacklistPageTypeOK'
  BY DEF BlacklistPageTypeOK
<1>2. IsFetching' <=> IsFetching
  BY DEF IsFetching, Free
<1>3. NumberIsThere' /\ AnsweredIsSearch'
  BY <1>2 DEF NumberIsThere, AnsweredIsSearch
<1>4. OneFetch' /\ CallsHoldAPage'
  BY DEF OneFetch, IsActive, CallsHoldAPage
<1>5. OneJob' /\ JobsAreAlone' /\ FetchesFind' /\ ShownIsFound'
  BY DEF OneJob, JobsAreAlone, FetchesFind, ShownIsFound
<1>. QED
  BY <1>1, <1>3, <1>4, <1>5

\* No row goes.
LEMMA NothingIsRemoved ==
  ASSUME BlacklistPageInv, ~astray, UNCHANGED <<listShown, fetches, answered, crossed, failed>>,
         \A s \in {"all", "some"} : FoundOf(s)' \in Nat /\ FoundOf(s) <= FoundOf(s)',
         IsRemoved' <=> IsRemoved
  PROVE  ~astray' => FetchesFind' /\ ShownIsFound'
<1>. USE DEF BlacklistPageInv, listShown
<1>1. IsFetching' <=> IsFetching
  BY DEF IsFetching, Free
<1>2. ASSUME NEW s \in {"all", "some"}, NEW p \in Nat \ {0}
      PROVE  FoundOf(s) \in Nat /\ FoundOf(s)' \in Nat /\ FoundOf(s) <= FoundOf(s)' /\ Offset(p) \in Nat
  BY <1>2, FoundIs, OffsetsAre
<1>3. FetchesFind'
  <2>1. ASSUME ~crossed', NEW i \in 1 .. MaxFetches PROVE FetchFinds(fetches[i])'
    <3>1. PICK f \in Fetches : f = fetches[i]
      BY PageTypes
    <3>2. FetchFinds(f)
      BY <2>1, <3>1 DEF FetchesFind
    <3>3. f.search \in {"all", "some"} /\ f.page \in Nat \ {0} /\ f.total \in Nat /\ Len(f.rows) \in Nat
      BY PageTypes, LenProperties
    <3>4. PICK found \in Nat : found = FoundOf(f.search)
      BY <3>3, <1>2
    <3>5. PICK after \in Nat : after = FoundOf(f.search)' /\ found <= after
      <4>1. PICK s \in {"all", "some"} : s = f.search
        BY <3>3
      <4>. QED
        BY <4>1, <3>4, <3>3, <1>2
    <3>6. Offset(f.page) \in Nat
      BY <3>3, OffsetsAre
    <3>7. f.step = "asked" => PageIsThere(f.page, f.search)'
      BY <3>2, <3>4, <3>5, <3>6 DEF FetchFinds, PageIsThere, Offset
    <3>8. f.step \in {"counted", "read"} => /\ f.page = 1 \/ f.total > Offset(f.page)
                                            /\ IsRemoved' \/ f.total <= FoundOf(f.search)'
      BY <3>2, <3>3, <3>4, <3>5 DEF FetchFinds
    <3>9. f.step = "read" /\ ~IsRemoved' => /\ f.rows = <<>> => f.total = 0
                                            /\ Offset(f.page) + Len(f.rows) <= FoundOf(f.search)'
      BY <3>2, <3>3, <3>4, <3>5, <3>6 DEF FetchFinds
    <3>10. FetchFinds(f)'
      BY <3>7, <3>8, <3>9 DEF FetchFinds, Offset
    <3>. QED
      BY <3>1, <3>10 DEF FetchFinds, PageIsThere, Offset
  <2>. QED
    BY <2>1 DEF FetchesFind
<1>4. ShownIsFound'
  <2>. SUFFICES ASSUME ~crossed, ~failed, ~IsFetching PROVE ShownIsFound'
    BY <1>1 DEF ShownIsFound
  <2>1. blacklistSearch \in {"all", "some"} /\ blacklistPage \in Nat \ {0} /\ blacklistTotalPages \in Nat /\ Len(blacklist) \in Nat
    BY PageTypes
  <2>2. PICK found \in Nat : found = FoundOf(blacklistSearch)
    BY <2>1, <1>2
  <2>3. PICK after \in Nat : after = FoundOf(blacklistSearch)' /\ found <= after
    <3>1. PICK s \in {"all", "some"} : s = blacklistSearch
      BY <2>1
    <3>2. FoundOf(blacklistSearch)' = FoundOf(s)'
      BY <3>1 DEF FoundOf, FoundBy
    <3>. QED
      BY <3>1, <3>2, <2>1, <2>2, <1>2
  <2>4. Offset(blacklistPage) \in Nat /\ (blacklistTotalPages # 0 => Offset(blacklistTotalPages) \in Nat)
    BY <2>1, OffsetsAre
  <2>5. /\ blacklist = <<>> => blacklistPage = 1
        /\ ~IsRemoved =>
             /\ blacklist = <<>> => blacklistTotalPages = 0
             /\ Offset(blacklistPage) + Len(blacklist) <= found
             /\ blacklistTotalPages = 0 \/ Offset(blacklistTotalPages) < found
        /\ IsRemoved => blacklistPage = 1 \/ Offset(blacklistPage) + Len(blacklist) <= found + 1
    BY <2>2 DEF ShownIsFound
  <2>6. /\ ~IsRemoved => /\ Offset(blacklistPage) + Len(blacklist) <= after
                         /\ blacklistTotalPages = 0 \/ Offset(blacklistTotalPages) < after
        /\ IsRemoved => blacklistPage = 1 \/ Offset(blacklistPage) + Len(blacklist) <= after + 1
    BY <2>1, <2>3, <2>4, <2>5
  <2>. QED
    BY <2>3, <2>5, <2>6 DEF ShownIsFound, Offset
<1>. QED
  BY <1>3, <1>4

LEMMA BeginStep ==
  ASSUME BlacklistPageInv, NEW d \in AllDomains, NEW kind \in {"adding", "removing"}, Begin(d, kind)
  PROVE  BlacklistPageInv'
<1>1. /\ astray' = (astray \/ Unsettled) /\ jobs[d] = "none" /\ jobs' = [jobs EXCEPT ![d] = kind]
      /\ UNCHANGED <<flagged, listShown, fetches, answered, crossed, failed>>
  BY DEF Begin
<1>2. /\ jobs \in [AllDomains -> {"none", "adding", "added", "removing", "removed"}]
      /\ jobs' \in [AllDomains -> {"none", "adding", "added", "removing", "removed"}]
      /\ events' \in 0 .. MaxEvents /\ astray' \in BOOLEAN /\ flagged' \subseteq AllDomains
  BY <1>1, BlacklistPageAssumption
  DEF Begin, Event, BlacklistPageInv, BlacklistPageTypeOK, Unsettled, IsFetching, IsWorking
<1>3. ASSUME ~astray' PROVE OneJob' /\ JobsAreAlone' /\ FetchesFind' /\ ShownIsFound'
  <2>1. ~astray /\ ~crossed /\ ~failed /\ ~IsFetching /\ ~IsWorking
    BY <1>1, <1>3 DEF Unsettled
  <2>2. \A e \in AllDomains : jobs[e] = "none" /\ (e # d => jobs'[e] = "none") /\ jobs'[e] # "removed"
    BY <2>1, <1>1, <1>2 DEF IsWorking
  <2>3. OneJob'
    BY <2>2 DEF OneJob
  <2>4. JobsAreAlone'
    BY <2>1, <1>1 DEF JobsAreAlone, IsFetching, Free
  <2>5. IsRemoved' <=> IsRemoved
    BY <2>2 DEF IsRemoved
  <2>6. \A s \in {"all", "some"} : FoundOf(s)' \in Nat /\ FoundOf(s) <= FoundOf(s)'
    <3>1. ASSUME NEW s \in {"all", "some"} PROVE FoundOf(s)' = FoundOf(s) /\ FoundOf(s) \in Nat
      BY <1>1, FoundIs DEF FoundOf, FoundBy
    <3>. QED
      BY <3>1
  <2>. QED
    BY <2>1, <2>3, <2>4, <2>5, <2>6, <1>1, <1>3, NothingIsRemoved
<1>. QED
  BY <1>1, <1>2, <1>3, ListChanges

LEMMA StoreStep == ASSUME BlacklistPageInv, NEW d \in AllDomains, Store(d) PROVE BlacklistPageInv'
<1>1. UNCHANGED <<listShown, fetches, events, answered, crossed, failed, astray>>
  BY DEF Store, listHistory
<1>2. jobs \in [AllDomains -> {"none", "adding", "added", "removing", "removed"}] /\ flagged \subseteq AllDomains
      /\ events \in 0 .. MaxEvents /\ astray \in BOOLEAN
  BY DEF BlacklistPageInv, BlacklistPageTypeOK
<1>3. PICK kind \in {"none", "added", "removed"} : jobs' = [jobs EXCEPT ![d] = kind]
  BY DEF Store
<1>4. jobs' \in [AllDomains -> {"none", "adding", "added", "removing", "removed"}] /\ flagged' \subseteq AllDomains
  BY <1>2, <1>3 DEF Store
<1>5. IsWorking /\ jobs[d] # "none"
  BY DEF Store, IsWorking
<1>6. OneJob'
  <2>1. \A e \in AllDomains : jobs'[e] # "none" => jobs[e] # "none"
    BY <1>2, <1>3, <1>5
  <2>. QED
    BY <2>1, <1>1 DEF OneJob, BlacklistPageInv
<1>7. JobsAreAlone'
  BY <1>1, <1>5 DEF BlacklistPageInv, JobsAreAlone, IsFetching, Free, IsActive, listShown
<1>8. ASSUME ~astray PROVE FetchesFind' /\ ShownIsFound'
  <2>1. CASE jobs[d] = "adding"
    <3>1. flagged' = flagged \cup {d} /\ jobs' = [jobs EXCEPT ![d] = IF d \in flagged THEN "none" ELSE "added"]
      BY <2>1 DEF Store
    <3>2. \A e \in AllDomains : jobs'[e] = "removed" <=> jobs[e] = "removed"
      BY <2>1, <3>1, <1>2
    <3>3. IsRemoved' <=> IsRemoved
      BY <3>2 DEF IsRemoved
    <3>4. \A s \in {"all", "some"} : FoundOf(s)' \in Nat /\ FoundOf(s) <= FoundOf(s)'
      BY <3>1, FoundChanges
    <3>. QED
      BY <3>3, <3>4, <1>1, <1>8, NothingIsRemoved
  <2>2. CASE jobs[d] = "removing"
    <3>1. flagged' = flagged \ {d} /\ jobs' = [jobs EXCEPT ![d] = "removed"]
      BY <2>2, <1>8 DEF Store
    <3>2. IsRemoved' /\ ~IsRemoved
      <4>1. jobs'[d] = "removed"
        BY <3>1, <1>2
      <4>2. \A e \in AllDomains : jobs[e] # "removed"
        BY <2>2, <1>8 DEF BlacklistPageInv, OneJob
      <4>. QED
        BY <4>1, <4>2 DEF IsRemoved
    <3>3. \/ blacklistPage = 1 /\ \A i \in 1 .. MaxFetches : IsActive(i) => fetches[i].page = 1
          \/ ~IsFetching
      BY <1>5, <1>8 DEF BlacklistPageInv, JobsAreAlone
    <3>4. \A i \in 1 .. MaxFetches : fetches[i].step # "none" => fetches[i].page = 1
      BY <3>3, FetchingIs DEF IsActive
    <3>5. FetchesFind'
      <4>1. ASSUME NEW i \in 1 .. MaxFetches PROVE FetchFinds(fetches[i])'
        <5>1. PICK f \in Fetches : f = fetches[i] /\ (f.step # "none" => f.page = 1)
          BY PageTypes, <3>4
        <5>2. FetchFinds(f)'
          BY <5>1, <3>2 DEF FetchFinds, PageIsThere
        <5>. QED
          BY <5>1, <5>2, <1>1 DEF FetchFinds, PageIsThere
      <4>. QED
        BY <4>1 DEF FetchesFind
    <3>6. ShownIsFound'
      <4>. SUFFICES ASSUME ~crossed, ~failed, ~IsFetching PROVE ShownIsFound'
        BY <1>1 DEF ShownIsFound, IsFetching, Free
      <4>1. /\ blacklistSearch \in {"all", "some"} /\ blacklistPage \in Nat \ {0} /\ Len(blacklist) \in Nat
            /\ blacklist' = blacklist /\ blacklistPage' = blacklistPage /\ blacklistSearch' = blacklistSearch
        BY <1>1, PageTypes DEF listShown
      <4>2. /\ blacklist = <<>> => blacklistPage = 1
            /\ Offset(blacklistPage) + Len(blacklist) <= FoundOf(blacklistSearch)
        BY <3>2, <1>8 DEF BlacklistPageInv, ShownIsFound
      <4>3. PICK found \in Nat, after \in Nat :
              found = FoundOf(blacklistSearch) /\ after = FoundOf(blacklistSearch)' /\ found <= after + 1
        <5>1. PICK s \in {"all", "some"} : s = blacklistSearch
          BY <4>1
        <5>2. FoundOf(s)' \in Nat /\ FoundOf(s) \in Nat /\ FoundOf(s) <= FoundOf(s)' + 1
          BY <3>1, FoundChanges, FoundIs
        <5>3. FoundOf(blacklistSearch)' = FoundOf(s)'
          BY <5>1, <4>1 DEF FoundOf, FoundBy
        <5>. QED
          BY <5>1, <5>2, <5>3
      <4>4. Offset(blacklistPage) + Len(blacklist) <= after + 1
        <5>1. Offset(blacklistPage) \in Nat
          BY <4>1, OffsetsAre
        <5>. QED
          BY <5>1, <4>1, <4>2, <4>3
      <4>. QED
        BY <4>1, <4>2, <4>3, <4>4, <3>2 DEF ShownIsFound, Offset
    <3>. QED
      BY <3>5, <3>6
  <2>. QED
    BY <2>1, <2>2 DEF Store
<1>. QED
  BY <1>1, <1>2, <1>4, <1>6, <1>7, <1>8, ListChanges

LEMMA EditFailsStep == ASSUME BlacklistPageInv, NEW d \in AllDomains, EditFails(d) PROVE BlacklistPageInv'
<1>1. /\ jobs' = [jobs EXCEPT ![d] = "none"] /\ astray' = (astray \/ jobs[d] = "removed")
      /\ UNCHANGED <<flagged, listShown, fetches, answered, crossed, failed>>
  BY DEF EditFails
<1>2. /\ jobs \in [AllDomains -> {"none", "adding", "added", "removing", "removed"}]
      /\ jobs' \in [AllDomains -> {"none", "adding", "added", "removing", "removed"}]
      /\ events' \in 0 .. MaxEvents /\ astray' \in BOOLEAN /\ flagged' \subseteq AllDomains
  BY <1>1, BlacklistPageAssumption DEF EditFails, Event, BlacklistPageInv, BlacklistPageTypeOK
<1>3. \A e \in AllDomains : jobs'[e] # "none" => jobs[e] # "none" /\ e # d
  BY <1>1, <1>2
<1>4. ASSUME ~astray' PROVE OneJob' /\ JobsAreAlone' /\ FetchesFind' /\ ShownIsFound'
  <2>1. ~astray /\ jobs[d] # "removed"
    BY <1>1, <1>4
  <2>2. OneJob'
    BY <2>1, <1>3 DEF BlacklistPageInv, OneJob
  <2>3. IsWorking' => IsWorking
    BY <1>3 DEF IsWorking
  <2>4. JobsAreAlone'
    BY <2>1, <2>3, <1>1 DEF BlacklistPageInv, JobsAreAlone, IsFetching, Free, IsActive, listShown
  <2>5. IsRemoved' <=> IsRemoved
    <3>1. \A e \in AllDomains : jobs'[e] = "removed" <=> jobs[e] = "removed"
      BY <2>1, <1>1, <1>2
    <3>. QED
      BY <3>1 DEF IsRemoved
  <2>6. \A s \in {"all", "some"} : FoundOf(s)' \in Nat /\ FoundOf(s) <= FoundOf(s)'
    <3>1. ASSUME NEW s \in {"all", "some"} PROVE FoundOf(s)' = FoundOf(s) /\ FoundOf(s) \in Nat
      BY <1>1, FoundIs DEF FoundOf, FoundBy
    <3>. QED
      BY <3>1
  <2>. QED
    BY <2>1, <2>2, <2>4, <2>5, <2>6, <1>1, <1>4, NothingIsRemoved
<1>. QED
  BY <1>1, <1>2, <1>4, ListChanges

LEMMA OthersStep ==
  ASSUME BlacklistPageInv, NEW d \in AllDomains, OthersAdd(d) \/ OthersRemove(d)
  PROVE  BlacklistPageInv'
<1>1. UNCHANGED <<listShown, fetches, answered, crossed, failed, jobs>>
  BY DEF OthersAdd, OthersRemove, listHistory
<1>2. /\ jobs' \in [AllDomains -> {"none", "adding", "added", "removing", "removed"}]
      /\ events' \in 0 .. MaxEvents /\ astray' \in BOOLEAN /\ flagged' \subseteq AllDomains
  <2>1. Event /\ astray' \in {astray, TRUE} /\ flagged' \subseteq flagged \cup {d}
    BY DEF OthersAdd, OthersRemove, listHistory
  <2>2. /\ jobs \in [AllDomains -> {"none", "adding", "added", "removing", "removed"}] /\ flagged \subseteq AllDomains
        /\ events \in 0 .. MaxEvents /\ astray \in BOOLEAN
    BY DEF BlacklistPageInv, BlacklistPageTypeOK
  <2>3. events' \in 0 .. MaxEvents
    BY <2>1, <2>2, BlacklistPageAssumption DEF Event
  <2>. QED
    BY <2>1, <2>2, <2>3, <1>1
<1>3. ASSUME ~astray' PROVE OneJob' /\ JobsAreAlone' /\ FetchesFind' /\ ShownIsFound'
  <2>1. ~astray /\ flagged' = flagged \cup {d}
    BY <1>3 DEF OthersAdd, OthersRemove, listHistory
  <2>2. OneJob' /\ (IsRemoved' <=> IsRemoved)
    BY <2>1, <1>1 DEF BlacklistPageInv, OneJob, IsRemoved
  <2>3. JobsAreAlone'
    BY <2>1, <1>1 DEF BlacklistPageInv, JobsAreAlone, IsFetching, Free, IsActive, listShown, IsWorking
  <2>4. \A s \in {"all", "some"} : FoundOf(s)' \in Nat /\ FoundOf(s) <= FoundOf(s)'
    BY <2>1, FoundChanges
  <2>. QED
    BY <2>1, <2>2, <2>3, <2>4, <1>1, <1>3, NothingIsRemoved
<1>. QED
  BY <1>1, <1>2, <1>3, ListChanges

LEMMA PageGoesOn == BlacklistPageInv /\ [BlacklistPageNext]_blacklistPageVars => BlacklistPageInv'
<1>. SUFFICES ASSUME BlacklistPageInv, [BlacklistPageNext]_blacklistPageVars PROVE BlacklistPageInv'
  OBVIOUS
<1>1. ASSUME NEW i \in 1 .. MaxFetches, Count(i) \/ Read(i) \/ Answer(i) \/ FetchFails(i) PROVE BlacklistPageInv'
  BY <1>1, CountStep, ReadStep, AnswerStep, FetchFailsStep
<1>2. ASSUME NEW number \in 1 .. MaxDomain, TurnPage(number) PROVE BlacklistPageInv'
  BY <1>2, TurnPageStep
<1>3. ASSUME NEW search \in DOMAIN Finds, Search(search) PROVE BlacklistPageInv'
  BY <1>3, SearchStep
<1>4. ASSUME NEW d \in AllDomains, Store(d) \/ Refresh(d) \/ EditFails(d) \/ OthersAdd(d) \/ OthersRemove(d)
      PROVE  BlacklistPageInv'
  BY <1>4, StoreStep, RefreshStep, EditFailsStep, OthersStep
<1>5. ASSUME NEW d \in AllDomains, NEW kind \in {"adding", "removing"}, Begin(d, kind) PROVE BlacklistPageInv'
  BY <1>5, BeginStep
<1>6. ASSUME UNCHANGED blacklistPageVars PROVE BlacklistPageInv'
  <2>1. UNCHANGED <<flagged, blacklist, blacklistTotalPages, blacklistPage, blacklistSearch, fetches, jobs, events,
                    answered, crossed, failed, astray>>
    BY <1>6 DEF blacklistPageVars, listShown, listHistory
  <2>. QED
    BY <2>1 DEF BlacklistPageInv, BlacklistPageTypeOK, NumberIsThere, OneFetch, AnsweredIsSearch, OneJob, JobsAreAlone,
         CallsHoldAPage, FetchesFind, FetchFinds, ShownIsFound, PageIsThere, FoundOf, FoundBy, IsFetching, Free,
         IsActive, IsWorking, IsRemoved
<1>. QED
  BY <1>1, <1>2, <1>3, <1>4, <1>5, <1>6 DEF BlacklistPageNext

LEMMA PageIsSound == BlacklistPageInv => ListIsThere
<1>. SUFFICES ASSUME BlacklistPageInv, ~IsFetching, ~IsWorking, ~failed
              PROVE  /\ blacklistPage <= blacklistTotalPages \/ blacklistPage = 1
                     /\ ~crossed => /\ answered.search = blacklistSearch
                                    /\ ~astray /\ blacklist = <<>> => blacklistTotalPages = 0
  BY DEF ListIsThere
<1>1. ~IsRemoved
  BY DEF IsRemoved, IsWorking
<1>. QED
  BY <1>1 DEF BlacklistPageInv, NumberIsThere, AnsweredIsSearch, ShownIsFound

\* ListIsThere holds for every number of domains, size of the pages and number of calls
\* (DnsLogsView.vue, paginate).
THEOREM ListIsShown == BlacklistPageSpec => []ListIsThere
<1>. QED
  BY PageStarts, PageGoesOn, PageIsSound, PTL DEF BlacklistPageSpec

(***************************************************************************)
(* The scan of the ports.                                                  *)
(***************************************************************************)

\* Each port is in one place.
EachPortOnce ==
  /\ \A i, j \in 1 .. Len(waiting) : waiting[i] = waiting[j] => i = j
  /\ Range(waiting) \cap DOMAIN probing = {} /\ Range(waiting) \cap Found = {} /\ DOMAIN probing \cap Found = {}

\* The ports of a scan, wherever they are, and how many.
PortsAreAsked ==
  /\ asked = Range(waiting) \cup DOMAIN probing \cup Found
  /\ Cardinality(asked) = Len(waiting) + Cardinality(DOMAIN probing) + Len(results)
SocketsAreLimited ==
  /\ Cardinality(DOMAIN probing) <= Concurrency
  /\ waiting # <<>> => Cardinality(DOMAIN probing) = Concurrency
  /\ scan = "running" <=> DOMAIN probing # {}

\* What is known of a port before its probe, during it and after it.
PortsAreKnown ==
  /\ Range(waiting) \cap connected = {}
  /\ \A p \in DOMAIN probing : (p \in connected <=> probing[p] # "connecting") /\ p \notin silenced
  /\ \A r \in Range(results) : r.open <=> r.port \in connected \ silenced

SummaryIsOfScan ==
  summary # NotShown =>
    scan = "none" /\ summary.scanned = Cardinality(asked) /\ Range(summary.open) = connected \ silenced

PortScanInv ==
  /\ PortScanTypeOK /\ EachPortOnce /\ PortsAreAsked /\ SocketsAreLimited /\ PortsAreKnown /\ SummaryIsOfScan

LEMMA PortSets == \A S \in SUBSET Ports : IsFiniteSet(S) /\ Cardinality(S) \in Nat
<1>1. IsFiniteSet(Ports)
  BY PortScanAssumption, FS_Interval DEF Ports
<1>. QED
  BY <1>1, FS_Subset, FS_CardinalityType

\* As many sockets are started as there are ports taken from those that wait.
LEMMA StartedAre ==
  ASSUME NEW ports \in Seq(Ports), \A i, j \in 1 .. Len(ports) : ports[i] = ports[j] => i = j,
         NEW n \in 0 .. Len(ports)
  PROVE  /\ {ports[i] : i \in 1 .. n} \in SUBSET Ports
         /\ Cardinality({ports[i] : i \in 1 .. n}) = n
<1>. DEFINE started == {ports[i] : i \in 1 .. n}
<1>1. \A i \in 1 .. n : i \in 1 .. Len(ports) /\ ports[i] \in Ports
  BY ElementOfSeq, LenProperties
<1>2. ExistsBijection(1 .. n, started)
  <2>. DEFINE f == [i \in 1 .. n |-> ports[i]]
  <2>1. f \in Bijection(1 .. n, started)
    BY <1>1 DEF Bijection, Injection, Surjection, IsInjective
  <2>. QED
    BY <2>1 DEF ExistsBijection
<1>3. IsFiniteSet(1 .. n) /\ Cardinality(1 .. n) = n
  BY FS_Interval, LenProperties
<1>. HIDE DEF started
<1>4. Cardinality(started) = n
  BY <1>2, <1>3, FS_Bijection
<1>. QED
  BY <1>1, <1>4 DEF started

\* kick keeps every port in one place, and sockets are left unused only when none waits.
LEMMA Kicked ==
  ASSUME NEW ports \in Seq(Ports), \A i, j \in 1 .. Len(ports) : ports[i] = ports[j] => i = j,
         NEW sockets, DOMAIN sockets \in SUBSET Ports, Range(ports) \cap DOMAIN sockets = {},
         Cardinality(DOMAIN sockets) <= Concurrency, kick(ports, sockets)
  PROVE  /\ waiting' \in Seq(Ports) /\ \A i, j \in 1 .. Len(waiting') : waiting'[i] = waiting'[j] => i = j
         /\ DOMAIN probing' \in SUBSET Ports /\ Range(waiting') \cap DOMAIN probing' = {}
         /\ Range(waiting') \cup DOMAIN probing' = Range(ports) \cup DOMAIN sockets
         /\ Range(waiting') \subseteq Range(ports) /\ DOMAIN sockets \subseteq DOMAIN probing'
         /\ Len(waiting') + Cardinality(DOMAIN probing') = Len(ports) + Cardinality(DOMAIN sockets)
         /\ Cardinality(DOMAIN probing') <= Concurrency
         /\ waiting' # <<>> => Cardinality(DOMAIN probing') = Concurrency
         /\ \A p \in DOMAIN probing' :
              \/ p \in DOMAIN sockets /\ probing'[p] = sockets[p]
              \/ p \in Range(ports) /\ p \notin DOMAIN sockets /\ probing'[p] = "connecting"
<1>1. PICK len \in Nat : len = Len(ports) /\ DOMAIN ports = 1 .. len
  BY LenProperties
<1>2. PICK used \in Nat : used = Cardinality(DOMAIN sockets) /\ used <= Concurrency
  BY PortSets
<1>3. PICK n \in 0 .. len :
        /\ n = IF Concurrency - used < len THEN Concurrency - used ELSE len
        /\ used + n <= Concurrency /\ (n # len => used + n = Concurrency)
  <2>1. Concurrency \in Nat
    BY PortScanAssumption
  <2>. QED
    BY <2>1, <1>1, <1>2
<1>. DEFINE started == {ports[i] : i \in 1 .. n}
<1>4. /\ waiting' = SubSeq(ports, n + 1, len)
      /\ probing' = [p \in DOMAIN sockets \cup started |-> IF p \in started THEN "connecting" ELSE sockets[p]]
  BY <1>1, <1>2, <1>3 DEF kick
<1>5. started \in SUBSET Ports /\ Cardinality(started) = n
  BY <1>1, StartedAre
<1>6. /\ waiting' \in Seq(Ports) /\ Len(waiting') = len - n /\ Len(waiting') \in Nat
      /\ \A i \in 1 .. Len(waiting') : waiting'[i] = ports[n + i] /\ n + i \in 1 .. len
  <2>1. SubSeq(ports, n + 1, len) \in Seq(Ports) /\ Len(SubSeq(ports, n + 1, len)) = len - n
        /\ \A i \in 1 .. len - n : SubSeq(ports, n + 1, len)[i] = ports[n + i] /\ n + i \in 1 .. len
    <3>1. n + 1 \in 1 .. len + 1 /\ len \in Nat
      OBVIOUS
    <3>2. CASE n = len
      BY <3>2, <1>1, SubSeqProperties
    <3>3. CASE n # len
      BY <3>3, <1>1, SubSeqProperties
    <3>. QED
      BY <3>2, <3>3
  <2>. QED
    BY <2>1, <1>4
<1>7. \A i, j \in 1 .. Len(waiting') : waiting'[i] = waiting'[j] => i = j
  BY <1>1, <1>6
<1>8. Range(waiting') = {ports[i] : i \in n + 1 .. len}
  <2>1. ASSUME NEW i \in n + 1 .. len PROVE ports[i] \in Range(waiting')
    <3>1. i - n \in 1 .. Len(waiting') /\ n + (i - n) = i
      BY <1>6
    <3>2. waiting'[i - n] = ports[i]
      BY <3>1, <1>6
    <3>. QED
      BY <3>1, <3>2, <1>6, RangeEquality
  <2>2. ASSUME NEW p \in Range(waiting') PROVE \E i \in n + 1 .. len : p = ports[i]
    <3>1. PICK i \in 1 .. Len(waiting') : p = waiting'[i]
      BY <1>6, RangeEquality
    <3>2. n + i \in n + 1 .. len
      BY <1>6
    <3>. QED
      BY <3>1, <3>2, <1>6
  <2>. QED
    BY <2>1, <2>2
<1>9. Range(ports) = Range(waiting') \cup started
  <2>1. Range(ports) = {ports[i] : i \in 1 .. len}
    BY <1>1, RangeEquality
  <2>2. 1 .. len = (1 .. n) \cup (n + 1 .. len)
    OBVIOUS
  <2>. QED
    BY <2>1, <2>2, <1>8
<1>10. Range(waiting') \cap started = {}
  <2>1. \A i \in 1 .. n, j \in n + 1 .. len : i \in 1 .. len /\ j \in 1 .. len /\ i # j
    OBVIOUS
  <2>. QED
    BY <2>1, <1>1, <1>8
<1>11. DOMAIN probing' = DOMAIN sockets \cup started
  BY <1>4
<1>. HIDE DEF started
<1>12. Cardinality(DOMAIN probing') = used + n
  <2>1. IsFiniteSet(DOMAIN sockets) /\ IsFiniteSet(started) /\ DOMAIN sockets \cap started = {}
    BY <1>5, <1>9, PortSets
  <2>2. Cardinality(DOMAIN sockets \cap started) = 0
    BY <2>1, FS_EmptySet
  <2>3. Cardinality(DOMAIN sockets \cup started)
          = Cardinality(DOMAIN sockets) + Cardinality(started) - Cardinality(DOMAIN sockets \cap started)
    BY <2>1, FS_Union
  <2>. QED
    BY <2>2, <2>3, <1>2, <1>5, <1>11
<1>13. waiting' # <<>> => Cardinality(DOMAIN probing') = Concurrency
  <2>1. ASSUME waiting' # <<>> PROVE n # len
    BY <2>1, <1>6, EmptySeq
  <2>. QED
    BY <2>1, <1>3, <1>12
<1>14. \A p \in DOMAIN probing' :
         \/ p \in DOMAIN sockets /\ probing'[p] = sockets[p]
         \/ p \in Range(ports) /\ p \notin DOMAIN sockets /\ probing'[p] = "connecting"
  <2>1. started \cap DOMAIN sockets = {}
    BY <1>9
  <2>. QED
    BY <2>1, <1>4, <1>9, <1>11
<1>15. /\ DOMAIN probing' \in SUBSET Ports /\ Range(waiting') \cap DOMAIN probing' = {}
       /\ Range(waiting') \cup DOMAIN probing' = Range(ports) \cup DOMAIN sockets
       /\ Range(waiting') \subseteq Range(ports) /\ DOMAIN sockets \subseteq DOMAIN probing'
  BY <1>5, <1>9, <1>10, <1>11
<1>16. Len(waiting') + Cardinality(DOMAIN probing') = Len(ports) + Cardinality(DOMAIN sockets)
  BY <1>1, <1>2, <1>6, <1>12
<1>17. Cardinality(DOMAIN probing') <= Concurrency
  BY <1>3, <1>12
<1>. QED
  BY <1>6, <1>7, <1>13, <1>14, <1>15, <1>16, <1>17

LEMMA PortScanStarts == PortScanInit => PortScanInv
<1>. SUFFICES ASSUME PortScanInit PROVE PortScanInv
  OBVIOUS
<1>1. /\ target = "loading" /\ scan = "none" /\ waiting = <<>> /\ DOMAIN probing = {} /\ results = <<>>
      /\ summary = NotShown /\ scans = 0 /\ asked = {} /\ connected = {} /\ silenced = {}
  BY DEF PortScanInit, NoSockets
<1>2. Len(<<>>) = 0 /\ Range(<<>>) = {} /\ Cardinality({}) = 0 /\ <<>> \in Seq(Ports)
      /\ <<>> \in Seq([port : Ports, open : BOOLEAN])
  BY EmptySeq, FS_EmptySet DEF Range
<1>3. Found = {}
  BY <1>1, <1>2 DEF Found
<1>4. PortScanTypeOK
  BY <1>1, <1>2, PortScanAssumption DEF PortScanTypeOK
<1>5. EachPortOnce
  BY <1>1, <1>2, <1>3 DEF EachPortOnce
<1>6. PortsAreAsked
  BY <1>1, <1>2, <1>3 DEF PortsAreAsked
<1>7. SocketsAreLimited
  BY <1>1, <1>2, PortScanAssumption DEF SocketsAreLimited
<1>8. PortsAreKnown /\ SummaryIsOfScan
  BY <1>1, <1>2 DEF PortsAreKnown, SummaryIsOfScan
<1>. QED
  BY <1>4, <1>5, <1>6, <1>7, <1>8 DEF PortScanInv

LEMMA LoadEntryKeeps == ASSUME PortScanInv, LoadEntry PROVE PortScanInv'
<1>1. UNCHANGED <<scan, waiting, probing, results, summary, scans, asked, connected, silenced>>
      /\ target' \in {"loading", "private", "public", "missing"}
  BY DEF LoadEntry, serverVars, scanHistory
<1>. QED
  BY <1>1 DEF PortScanInv, PortScanTypeOK, EachPortOnce, PortsAreAsked, SocketsAreLimited, PortsAreKnown,
     SummaryIsOfScan, Found

\* The ports that a field names, and all of them when it names none.
LEMMA PortsOfField ==
  ASSUME NEW field
  PROVE  /\ parsePorts(field) \in Seq(Ports) /\ parsePorts(field) # <<>> /\ Len(parsePorts(field)) \in Nat
         /\ Len(parsePorts(field)) = Cardinality(Range(parsePorts(field)))
         /\ \A i, j \in 1 .. Len(parsePorts(field)) : parsePorts(field)[i] = parsePorts(field)[j] => i = j
<1>1. PICK chosen \in SUBSET Ports : chosen # {} /\ parsePorts(field) = InOrder(chosen)
  <2>. DEFINE out == UNION {Named(segment) : segment \in field}
              chosen == IF out = {} THEN Ports ELSE out
  <2>1. out \in SUBSET Ports
    BY DEF Named
  <2>2. Ports # {}
    <3>1. 1 \in Ports
      BY PortScanAssumption DEF Ports
    <3>. QED
      BY <3>1
  <2>3. parsePorts(field) = InOrder(chosen)
    BY DEF parsePorts
  <2>. HIDE DEF out
  <2>. QED
    BY <2>1, <2>2, <2>3
<1>2. /\ InOrder(chosen) \in Seq(Ports) /\ Len(InOrder(chosen)) = Cardinality(chosen) /\ Cardinality(chosen) \in Nat
      /\ Range(InOrder(chosen)) = chosen
      /\ \A i, j \in 1 .. Len(InOrder(chosen)) : InOrder(chosen)[i] = InOrder(chosen)[j] => i = j
  BY PortScanAssumption, InOrderIs DEF Ports
<1>3. InOrder(chosen) # <<>>
  BY <1>1, <1>2, EmptySeq DEF Range
<1>. QED
  BY <1>1, <1>2, <1>3

LEMMA RunPortScanKeeps == ASSUME PortScanInv, NEW field, NEW ms, RunPortScan(field, ms) PROVE PortScanInv'
<1>1. scans' \in 0 .. MaxScans /\ target' = target /\ summary' = NotShown /\ scan = "none"
  BY PortScanAssumption DEF RunPortScan, PortScanInv, PortScanTypeOK
<1>2. SummaryIsOfScan'
  BY <1>1 DEF SummaryIsOfScan
<1>3. CASE UNCHANGED <<scan, serverVars, scanHistory>>
  <2>1. UNCHANGED <<scan, waiting, probing, results, asked, connected, silenced>>
    BY <1>3 DEF serverVars, scanHistory
  <2>. QED
    BY <2>1, <1>1, <1>2 DEF PortScanInv, PortScanTypeOK, EachPortOnce, PortsAreAsked, SocketsAreLimited, PortsAreKnown, Found
<1>4. CASE /\ scan' = "running" /\ results' = <<>> /\ kick(parsePorts(field), NoSockets)
           /\ asked' = Range(parsePorts(field)) /\ connected' = {} /\ silenced' = {}
  <2>1. /\ parsePorts(field) \in Seq(Ports) /\ parsePorts(field) # <<>> /\ Len(parsePorts(field)) \in Nat
        /\ Len(parsePorts(field)) = Cardinality(Range(parsePorts(field)))
        /\ \A i, j \in 1 .. Len(parsePorts(field)) : parsePorts(field)[i] = parsePorts(field)[j] => i = j
    BY PortsOfField
  <2>2. DOMAIN NoSockets = {} /\ Cardinality({}) = 0 /\ Concurrency \in Nat \ {0}
    BY FS_EmptySet, PortScanAssumption DEF NoSockets
  <2>3. PICK ports \in Seq(Ports) : ports = parsePorts(field)
    BY <2>1
  <2>4. /\ waiting' \in Seq(Ports) /\ \A i, j \in 1 .. Len(waiting') : waiting'[i] = waiting'[j] => i = j
        /\ DOMAIN probing' \in SUBSET Ports /\ Range(waiting') \cap DOMAIN probing' = {}
        /\ Range(waiting') \cup DOMAIN probing' = Range(ports)
        /\ Len(waiting') + Cardinality(DOMAIN probing') = Len(ports)
        /\ Cardinality(DOMAIN probing') <= Concurrency
        /\ waiting' # <<>> => Cardinality(DOMAIN probing') = Concurrency
        /\ \A p \in DOMAIN probing' : probing'[p] = "connecting"
    <3>1. kick(ports, NoSockets) /\ \A i, j \in 1 .. Len(ports) : ports[i] = ports[j] => i = j
      BY <1>4, <2>1, <2>3
    <3>2. DOMAIN NoSockets \in SUBSET Ports /\ Range(ports) \cap DOMAIN NoSockets = {}
          /\ Cardinality(DOMAIN NoSockets) <= Concurrency
      BY <2>2
    <3>3. /\ waiting' \in Seq(Ports) /\ \A i, j \in 1 .. Len(waiting') : waiting'[i] = waiting'[j] => i = j
          /\ DOMAIN probing' \in SUBSET Ports /\ Range(waiting') \cap DOMAIN probing' = {}
          /\ Range(waiting') \cup DOMAIN probing' = Range(ports) \cup DOMAIN NoSockets
          /\ Len(waiting') + Cardinality(DOMAIN probing') = Len(ports) + Cardinality(DOMAIN NoSockets)
          /\ Cardinality(DOMAIN probing') <= Concurrency
          /\ waiting' # <<>> => Cardinality(DOMAIN probing') = Concurrency
          /\ \A p \in DOMAIN probing' :
               \/ p \in DOMAIN NoSockets /\ probing'[p] = NoSockets[p]
               \/ p \in Range(ports) /\ p \notin DOMAIN NoSockets /\ probing'[p] = "connecting"
      BY <3>1, <3>2, Kicked
    <3>4. Len(ports) \in Nat
      BY <2>1, <2>3
    <3>. QED
      BY <3>3, <3>4, <2>2
  <2>5. Found' = {} /\ Len(results') = 0 /\ Range(results') = {} /\ results' \in Seq([port : Ports, open : BOOLEAN])
    BY <1>4, EmptySeq DEF Found, Range
  <2>6. DOMAIN probing' # {}
    <3>1. ASSUME DOMAIN probing' = {} PROVE FALSE
      <4>1. waiting' = <<>>
        BY <3>1, <2>2, <2>4
      <4>2. Len(ports) = 0
        BY <3>1, <4>1, <2>2, <2>4, EmptySeq
      <4>. QED
        BY <4>2, <2>1, <2>3, EmptySeq
    <3>. QED
      BY <3>1
  <2>7. PortScanTypeOK'
    <3>1. asked' \subseteq Ports
      BY <1>4, <2>1, RangeOfSeq
    <3>2. summary' = NotShown /\ scan' = "running" /\ connected' = {} /\ silenced' = {} /\ target' = target
      BY <1>1, <1>4
    <3>. QED
      BY <3>1, <3>2, <1>1, <2>4, <2>5 DEF PortScanInv, PortScanTypeOK
  <2>8. EachPortOnce'
    BY <2>4, <2>5 DEF EachPortOnce
  <2>9. PortsAreAsked'
    <3>1. asked' = Range(waiting') \cup DOMAIN probing' \cup Found'
      BY <1>4, <2>3, <2>4, <2>5
    <3>2. Cardinality(DOMAIN probing') \in Nat /\ Len(waiting') \in Nat
      BY <2>4, PortSets, LenProperties
    <3>3. Cardinality(asked') = Len(waiting') + Cardinality(DOMAIN probing') + Len(results')
      BY <3>2, <1>4, <2>1, <2>3, <2>4, <2>5
    <3>. QED
      BY <3>1, <3>3 DEF PortsAreAsked
  <2>10. SocketsAreLimited'
    BY <1>4, <2>4, <2>6 DEF SocketsAreLimited
  <2>11. PortsAreKnown'
    BY <1>4, <2>4, <2>5 DEF PortsAreKnown
  <2>. QED
    BY <1>2, <2>7, <2>8, <2>9, <2>10, <2>11 DEF PortScanInv
<1>. QED
  BY <1>3, <1>4 DEF RunPortScan

LEMMA ConnectKeeps == ASSUME PortScanInv, NEW p \in Ports, Connect(p) PROVE PortScanInv'
<1>. USE DEF PortScanInv
<1>1. PICK step \in {"listening", "handshake"} :
        /\ probing' = [probing EXCEPT ![p] = step] /\ connected' = connected \cup {p}
        /\ p \in DOMAIN probing /\ probing[p] = "connecting"
        /\ UNCHANGED <<target, scan, waiting, results, summary, scans, asked, silenced>>
  BY DEF Connect
<1>2. DOMAIN probing' = DOMAIN probing /\ probing'[p] = step /\ \A q \in DOMAIN probing : q # p => probing'[q] = probing[q]
  BY <1>1
<1>3. p \in asked /\ p \notin Range(waiting) /\ p \notin Found
  BY <1>1 DEF PortsAreAsked, EachPortOnce
<1>4. PortScanTypeOK'
  BY <1>1, <1>2, <1>3 DEF PortScanTypeOK
<1>5. EachPortOnce' /\ PortsAreAsked' /\ SocketsAreLimited'
  BY <1>1, <1>2 DEF EachPortOnce, PortsAreAsked, SocketsAreLimited, Found
<1>6. PortsAreKnown'
  BY <1>1, <1>2, <1>3 DEF PortsAreKnown, Found
<1>7. SummaryIsOfScan'
  BY <1>1 DEF SummaryIsOfScan, SocketsAreLimited
<1>. QED
  BY <1>4, <1>5, <1>6, <1>7

\* The result of a probe.
ResultOf(p, isOpen) == [port |-> p, open |-> isOpen]

LEMMA ResultIs ==
  ASSUME NEW p \in Ports, NEW isOpen \in BOOLEAN
  PROVE  /\ ResultOf(p, isOpen) \in [port : Ports, open : BOOLEAN]
         /\ ResultOf(p, isOpen).port = p /\ ResultOf(p, isOpen).open = isOpen
<1>1. ResultOf(p, isOpen) \in [port : Ports, open : BOOLEAN]
  BY DEF ResultOf
<1>2. ResultOf(p, isOpen).port = p
  BY DEF ResultOf
<1>3. ResultOf(p, isOpen).open = isOpen
  BY DEF ResultOf
<1>. QED
  BY <1>1, <1>2, <1>3

\* The probe of a port is over, and what is known of the port is its result.
LEMMA Settled ==
  ASSUME PortScanInv, NEW p \in Ports, NEW open \in BOOLEAN, p \in DOMAIN probing, Settle(p, open),
         connected' = connected, silenced' \in SUBSET (silenced \cup {p}), silenced \subseteq silenced',
         p \in silenced' => p \in connected, open <=> p \in connected' \ silenced'
  PROVE  PortScanInv'
<1>. USE DEF PortScanInv
<1>. DEFINE sockets == [q \in DOMAIN probing \ {p} |-> probing[q]]
<1>1. /\ results' = Append(results, ResultOf(p, open)) /\ kick(waiting, sockets)
      /\ scan' = IF DOMAIN probing' = {} THEN "done" ELSE "running"
      /\ UNCHANGED <<target, summary, scans, asked>>
  BY DEF Settle, ResultOf
<1>2. /\ waiting \in Seq(Ports) /\ Len(waiting) \in Nat /\ DOMAIN probing \in SUBSET Ports
      /\ results \in Seq([port : Ports, open : BOOLEAN]) /\ Len(results) \in Nat
      /\ \A i, j \in 1 .. Len(waiting) : waiting[i] = waiting[j] => i = j
      /\ Range(waiting) \cap DOMAIN probing = {}
  BY LenProperties DEF PortScanTypeOK, EachPortOnce
<1>3. DOMAIN sockets = DOMAIN probing \ {p} /\ \A q \in DOMAIN sockets : sockets[q] = probing[q]
  OBVIOUS
<1>4. IsFiniteSet(DOMAIN probing) /\ Cardinality(DOMAIN probing) \in Nat
  BY <1>2, PortSets
<1>5. Cardinality(DOMAIN sockets) = Cardinality(DOMAIN probing) - 1 /\ Cardinality(DOMAIN sockets) \in Nat
  <2>1. DOMAIN sockets \in SUBSET Ports
    BY <1>2, <1>3
  <2>2. Cardinality(DOMAIN probing \ {p}) = Cardinality(DOMAIN probing) - 1
    BY <1>4, FS_RemoveElement
  <2>. QED
    BY <2>1, <2>2, <1>3, PortSets
<1>6. /\ waiting' \in Seq(Ports) /\ \A i, j \in 1 .. Len(waiting') : waiting'[i] = waiting'[j] => i = j
      /\ DOMAIN probing' \in SUBSET Ports /\ Range(waiting') \cap DOMAIN probing' = {}
      /\ Range(waiting') \cup DOMAIN probing' = Range(waiting) \cup DOMAIN sockets
      /\ Range(waiting') \subseteq Range(waiting) /\ DOMAIN sockets \subseteq DOMAIN probing'
      /\ Len(waiting') + Cardinality(DOMAIN probing') = Len(waiting) + Cardinality(DOMAIN sockets)
      /\ Cardinality(DOMAIN probing') <= Concurrency
      /\ waiting' # <<>> => Cardinality(DOMAIN probing') = Concurrency
      /\ \A q \in DOMAIN probing' :
           \/ q \in DOMAIN sockets /\ probing'[q] = sockets[q]
           \/ q \in Range(waiting) /\ q \notin DOMAIN sockets /\ probing'[q] = "connecting"
  <2>1. DOMAIN sockets \in SUBSET Ports /\ Range(waiting) \cap DOMAIN sockets = {}
    BY <1>2, <1>3
  <2>2. Cardinality(DOMAIN sockets) <= Concurrency
    BY <1>4, <1>5, PortScanAssumption DEF SocketsAreLimited
  <2>3. PICK old : old = sockets
    OBVIOUS
  <2>. HIDE DEF sockets
  <2>. QED
    BY <2>1, <2>2, <2>3, <1>1, <1>2, Kicked
<1>. HIDE DEF sockets
<1>7. /\ results' \in Seq([port : Ports, open : BOOLEAN]) /\ Len(results') = Len(results) + 1
      /\ Range(results') = Range(results) \cup {ResultOf(p, open)}
  <2>1. results' = Append(results, ResultOf(p, open)) /\ ResultOf(p, open) \in [port : Ports, open : BOOLEAN]
    BY <1>1, ResultIs
  <2>2. PICK last \in Nat :
          /\ last = Len(results) + 1 /\ Len(results') = last /\ results' \in Seq([port : Ports, open : BOOLEAN])
          /\ DOMAIN results' = 1 .. last /\ DOMAIN results = 1 .. Len(results)
          /\ \A i \in 1 .. Len(results) : results'[i] = results[i]
          /\ results'[last] = ResultOf(p, open)
    BY <2>1, <1>2, AppendProperties
  <2>3. 1 .. last = (1 .. Len(results)) \cup {last}
    BY <2>2, <1>2
  <2>4. ASSUME NEW r \in Range(results') PROVE r \in Range(results) \cup {ResultOf(p, open)}
    <3>1. PICK i \in 1 .. last : r = results'[i]
      BY <2>2 DEF Range
    <3>2. CASE i \in 1 .. Len(results)
      BY <3>1, <3>2, <2>2 DEF Range
    <3>3. CASE i = last
      BY <3>1, <3>3, <2>2
    <3>. QED
      BY <3>2, <3>3, <2>3
  <2>5. ASSUME NEW r \in Range(results) PROVE r \in Range(results')
    <3>1. PICK i \in 1 .. Len(results) : r = results[i]
      BY <2>2 DEF Range
    <3>2. i \in 1 .. last /\ r = results'[i]
      BY <3>1, <2>2, <2>3
    <3>. QED
      BY <3>2, <2>2 DEF Range
  <2>6. ResultOf(p, open) \in Range(results')
    BY <2>2, <2>3 DEF Range
  <2>. QED
    BY <2>2, <2>4, <2>5, <2>6
<1>8. Found' = Found \cup {p}
  <2>1. PICK settled : settled = ResultOf(p, open) /\ settled.port = p
    BY ResultIs
  <2>2. Range(results') = Range(results) \cup {settled}
    BY <2>1, <1>7
  <2>3. {r.port : r \in Range(results) \cup {settled}} = {r.port : r \in Range(results)} \cup {p}
    BY <2>1
  <2>. QED
    BY <2>2, <2>3 DEF Found
<1>9. p \notin Range(waiting) /\ p \notin DOMAIN sockets /\ p \notin Found
  BY <1>2, <1>3 DEF EachPortOnce
<1>10. EachPortOnce'
  <2>1. Range(waiting') \cap Found' = {} /\ DOMAIN probing' \cap Found' = {}
    BY <1>3, <1>6, <1>8, <1>9 DEF EachPortOnce
  <2>. QED
    BY <2>1, <1>6 DEF EachPortOnce
<1>11. PortsAreAsked'
  <2>1. asked' = Range(waiting') \cup DOMAIN probing' \cup Found'
    BY <1>1, <1>3, <1>6, <1>8 DEF PortsAreAsked
  <2>2. Len(waiting') \in Nat /\ Cardinality(DOMAIN probing') \in Nat
    BY <1>6, PortSets, LenProperties
  <2>3. Cardinality(asked') = Len(waiting') + Cardinality(DOMAIN probing') + Len(results')
    <3>1. Cardinality(asked') = Len(waiting) + Cardinality(DOMAIN probing) + Len(results)
      BY <1>1 DEF PortsAreAsked
    <3>2. Len(waiting') + Cardinality(DOMAIN probing') = Len(waiting) + (Cardinality(DOMAIN probing) - 1)
      BY <1>5, <1>6
    <3>3. Len(results') = Len(results) + 1
      BY <1>7
    <3>. QED
      BY <3>1, <3>2, <3>3, <2>2, <1>2, <1>4
  <2>. QED
    BY <2>1, <2>3 DEF PortsAreAsked
<1>12. SocketsAreLimited'
  BY <1>1, <1>6 DEF SocketsAreLimited
<1>13. PortsAreKnown'
  <2>1. Range(waiting') \cap connected' = {}
    BY <1>6 DEF PortsAreKnown
  <2>2. ASSUME NEW q \in DOMAIN probing'
        PROVE  (q \in connected' <=> probing'[q] # "connecting") /\ q \notin silenced'
    <3>1. q # p
      BY <1>6, <1>9
    <3>2. CASE q \in DOMAIN sockets /\ probing'[q] = sockets[q]
      <4>1. q \in DOMAIN probing /\ probing'[q] = probing[q]
        BY <3>2, <1>3
      <4>. QED
        BY <3>1, <4>1 DEF PortsAreKnown
    <3>3. CASE q \in Range(waiting) /\ probing'[q] = "connecting"
      <4>1. q \notin connected /\ q \notin silenced
        BY <3>3 DEF PortsAreKnown, PortScanTypeOK
      <4>. QED
        BY <3>1, <3>3, <4>1
    <3>. QED
      BY <3>2, <3>3, <1>6
  <2>3. ASSUME NEW r \in Range(results') PROVE r.open <=> r.port \in connected' \ silenced'
    <3>1. CASE r \in Range(results)
      <4>1. r.port \in Found
        BY <3>1 DEF Found
      <4>2. r.port # p
        BY <4>1, <1>9
      <4>. QED
        BY <3>1, <4>2 DEF PortsAreKnown
    <3>2. CASE r = ResultOf(p, open)
      BY <3>2, ResultIs
    <3>. QED
      BY <3>1, <3>2, <1>7
  <2>. QED
    BY <2>1, <2>2, <2>3 DEF PortsAreKnown
<1>14. SummaryIsOfScan'
  <2>1. scan = "running"
    BY DEF SocketsAreLimited
  <2>. QED
    BY <2>1, <1>1 DEF SummaryIsOfScan
<1>15. PortScanTypeOK'
  <2>1. silenced' \subseteq connected' /\ connected' \subseteq asked' /\ asked' \subseteq Ports
    BY <1>1 DEF PortScanTypeOK
  <2>2. \A q \in DOMAIN probing' : probing'[q] \in {"connecting", "listening", "handshake"}
    BY <1>3, <1>6 DEF PortScanTypeOK
  <2>3. scan' \in {"none", "running", "done"}
    BY <1>1
  <2>. QED
    BY <2>1, <2>2, <2>3, <1>1, <1>6, <1>7 DEF PortScanTypeOK
<1>. QED
  BY <1>10, <1>11, <1>12, <1>13, <1>14, <1>15

LEMMA SocketKeeps ==
  ASSUME PortScanInv, NEW p \in Ports, NoConnection(p) \/ Heard(p) \/ Silenced(p) PROVE PortScanInv'
<1>1. p \in DOMAIN probing /\ (p \in connected <=> probing[p] # "connecting") /\ p \notin silenced
  BY DEF NoConnection, Heard, Silenced, PortScanInv, PortsAreKnown
<1>2. CASE NoConnection(p)
  <2>1. Settle(p, FALSE) /\ connected' = connected /\ silenced' = silenced /\ p \notin connected
    BY <1>1, <1>2 DEF NoConnection
  <2>. QED
    BY <2>1, <1>1, Settled
<1>3. CASE Heard(p)
  <2>1. Settle(p, TRUE) /\ connected' = connected /\ silenced' = silenced /\ p \in connected
    BY <1>1, <1>3 DEF Heard
  <2>. QED
    BY <2>1, <1>1, Settled
<1>4. CASE Silenced(p)
  <2>1. Settle(p, FALSE) /\ connected' = connected /\ silenced' = silenced \cup {p} /\ p \in connected
    BY <1>1, <1>4 DEF Silenced
  <2>. QED
    BY <2>1, <1>1, Settled
<1>. QED
  BY <1>2, <1>3, <1>4

\* What the answer says is what the sockets have found.
LEMMA AnswerScanKeeps == ASSUME PortScanInv, AnswerScan PROVE PortScanInv'
<1>. USE DEF PortScanInv
<1>1. /\ scan = "done" /\ scan' = "none" /\ (summary' = Summary(results) \/ summary' = summary)
      /\ UNCHANGED <<target, waiting, probing, results, scans, asked, connected, silenced>>
  BY DEF AnswerScan, serverVars, scanHistory
<1>2. DOMAIN probing = {} /\ waiting = <<>>
  <2>1. DOMAIN probing = {}
    BY <1>1 DEF SocketsAreLimited
  <2>. QED
    BY <2>1, FS_EmptySet, PortScanAssumption DEF SocketsAreLimited
<1>3. Range(waiting) = {} /\ Len(waiting) = 0 /\ Cardinality(DOMAIN probing) = 0
  BY <1>2, EmptySeq, FS_EmptySet DEF Range
<1>4. results \in Seq([port : Ports, open : BOOLEAN]) /\ Len(results) \in Nat /\ Range(results) \subseteq [port : Ports, open : BOOLEAN]
  BY LenProperties, RangeOfSeq DEF PortScanTypeOK
<1>. DEFINE open == {r.port : r \in {x \in Range(results) : x.open}}
<1>5. open = connected \ silenced
  <2>1. ASSUME NEW p \in open PROVE p \in connected \ silenced
    BY DEF PortsAreKnown
  <2>2. ASSUME NEW p \in connected \ silenced PROVE p \in open
    <3>1. p \in Found
      BY <1>2, <1>3 DEF PortsAreAsked, PortScanTypeOK
    <3>2. PICK r \in Range(results) : r.port = p
      BY <3>1 DEF Found
    <3>3. r.open
      BY <3>2 DEF PortsAreKnown
    <3>. QED
      BY <3>2, <3>3
  <2>. QED
    BY <2>1, <2>2
<1>6. open \in SUBSET Ports
  BY <1>4
<1>7. Summary(results) = [scanned |-> Len(results), open |-> InOrder(open)]
  BY DEF Summary
<1>. HIDE DEF open
<1>8. InOrder(open) \in Seq(Ports) /\ Range(InOrder(open)) = open
  BY <1>6, PortScanAssumption, InOrderIs DEF Ports
<1>9. Summary(results) \in [scanned : Nat, open : Seq(Ports)] /\ Summary(results).scanned = Cardinality(asked)
      /\ Range(Summary(results).open) = connected \ silenced
  <2>1. Cardinality(asked) = Len(results)
    BY <1>3, <1>4 DEF PortsAreAsked
  <2>2. PICK ports \in Seq(Ports) : ports = InOrder(open) /\ Range(ports) = connected \ silenced
    BY <1>5, <1>8
  <2>3. PICK number \in Nat : number = Len(results)
    BY <1>4
  <2>4. Summary(results) = [scanned |-> number, open |-> ports]
    BY <2>2, <2>3, <1>7
  <2>. QED
    BY <2>1, <2>2, <2>3, <2>4
<1>10. summary = NotShown
  BY <1>1 DEF SummaryIsOfScan
<1>11. PortScanTypeOK'
  <2>1. summary' = NotShown \/ summary' \in [scanned : Nat, open : Seq(Ports)]
    BY <1>1, <1>9, <1>10
  <2>. QED
    BY <2>1, <1>1 DEF PortScanTypeOK
<1>12. SummaryIsOfScan'
  <2>1. ASSUME summary' # NotShown PROVE summary' = Summary(results)
    BY <2>1, <1>1, <1>10
  <2>. QED
    BY <2>1, <1>1, <1>9 DEF SummaryIsOfScan
<1>13. EachPortOnce' /\ PortsAreAsked' /\ PortsAreKnown'
  BY <1>1 DEF EachPortOnce, PortsAreAsked, PortsAreKnown, Found
<1>14. SocketsAreLimited'
  BY <1>1, <1>2 DEF SocketsAreLimited
<1>. QED
  BY <1>11, <1>12, <1>13, <1>14

LEMMA PortScanGoesOn == PortScanInv /\ [PortScanNext]_portScanVars => PortScanInv'
<1>. SUFFICES ASSUME PortScanInv, [PortScanNext]_portScanVars PROVE PortScanInv'
  OBVIOUS
<1>1. ASSUME NEW field \in Fields, NEW ms \in {0, 50, 100}, RunPortScan(field, ms) PROVE PortScanInv'
  BY <1>1, RunPortScanKeeps
<1>2. ASSUME NEW p \in Ports, NoConnection(p) \/ Connect(p) \/ Heard(p) \/ Silenced(p) PROVE PortScanInv'
  BY <1>2, ConnectKeeps, SocketKeeps
<1>3. ASSUME UNCHANGED portScanVars PROVE PortScanInv'
  <2>1. UNCHANGED <<target, scan, waiting, probing, results, summary, scans, asked, connected, silenced>>
    BY <1>3 DEF portScanVars, serverVars, scanHistory
  <2>. QED
    BY <2>1 DEF PortScanInv, PortScanTypeOK, EachPortOnce, PortsAreAsked, SocketsAreLimited, PortsAreKnown,
         SummaryIsOfScan, Found
<1>. QED
  BY <1>1, <1>2, <1>3, LoadEntryKeeps, AnswerScanKeeps DEF PortScanNext

LEMMA PortScanIsTrue == PortScanInv => ScanIsTrue
<1>. SUFFICES ASSUME PortScanInv PROVE ScanIsTrue
  OBVIOUS
<1>1. (scan = "running") = (DOMAIN probing # {})
  BY DEF PortScanInv, SocketsAreLimited
<1>. QED
  BY <1>1 DEF PortScanInv, PortsAreAsked, SocketsAreLimited, SummaryIsOfScan, ScanIsTrue

\* ScanIsTrue holds for every field, number of ports and of sockets.
THEOREM ScansAreTrue == PortScanSpec => []ScanIsTrue
<1>. QED
  BY PortScanStarts, PortScanGoesOn, PortScanIsTrue, PTL DEF PortScanSpec

(***************************************************************************)
(* Where a tab goes.                                                       *)
(***************************************************************************)

\* The tab leads nowhere before it is opened.
OneStart ==
  /\ route.stops = <<"start">> => route = Start
  /\ going.at # "none" => going.to.stops # <<"start">>

\* What the guard has let pass has its site.
LoadedHasSite ==
  going.at = "loading" /\ RequiresAuth(going.to) /\ RequiresSite(going.to) => isValidSite(going.to.site)

\* The page that is there while another one is under way has the tab's site too, and what is
\* remembered is that site as long as nothing has strayed.
RouteKeepsSite == From(route) \in {NoSite, mine}
RememberedIsMine == strayed \/ remembered = mine

\* The redirects that are still to come: a refused page and a login that is not needed lead to the first
\* page, which may have to be given a site.
HopsLeft(to) ==
  IF ~HasSession THEN IF RequiresAuth(to) THEN 1 ELSE 0
  ELSE IF IsLogin(to) \/ (RequiresAuth(to) /\ IsRefused(to)) THEN 2
  ELSE IF RequiresAuth(to) /\ RequiresSite(to) /\ ~isValidSite(to.site) THEN 1 ELSE 0
HopsAreCounted == IF going.at = "guard" THEN hops + HopsLeft(going.to) <= 2 ELSE hops <= 2

NavigationInv ==
  /\ NavigationTypeOK /\ OneStart /\ LoadedHasSite /\ RouteKeepsSite /\ RememberedIsMine /\ HopsAreCounted
  /\ PagesHaveASite /\ WantedIsReached /\ SiteIsKept

\* Two stops, one after the other.
LEMMA PairsAre == ASSUME NEW S, NEW a \in S, NEW b \in S PROVE <<a>> \o <<b>> = <<a, b>>
<1>. DEFINE s == <<a>>
            t == <<b>>
            u == <<a, b>>
<1>1. s \in Seq(S) /\ Len(s) = 1 /\ s[1] = a
  OBVIOUS
<1>2. t \in Seq(S) /\ Len(t) = 1 /\ t[1] = b
  OBVIOUS
<1>3. u \in Seq(S) /\ Len(u) = 2 /\ u[1] = a /\ u[2] = b
  OBVIOUS
<1>4. ASSUME NEW x \in Seq(S), NEW y \in Seq(S), NEW z \in Seq(S),
             Len(x) = 1, Len(y) = 1, Len(z) = 2, z[1] = x[1], z[2] = y[1]
      PROVE  x \o y = z
  <2>1. x \o y \in Seq(S) /\ Len(x \o y) = 2 /\ \A i \in 1 .. 2 : (x \o y)[i] = IF i <= 1 THEN x[i] ELSE y[i - 1]
    BY <1>4, ConcatProperties
  <2>2. \A i \in 1 .. 2 : (x \o y)[i] = z[i]
    BY <2>1, <1>4
  <2>. QED
    BY <2>1, <2>2, <1>4, SeqEqual
<1>. QED
  BY <1>1, <1>2, <1>3, <1>4

LEMMA StopsAre ==
  /\ <<"login">> \o <<>> = <<"login">> /\ <<"login">> \o <<"select-site">> = <<"login", "select-site">>
  /\ <<"select-site">> \o <<>> = <<"select-site">> /\ <<"start">> \o <<>> = <<"start">>
  /\ Tail(<<"login">>) = <<>> /\ Tail(<<"login", "select-site">>) = <<"select-site">>
  /\ <<>> \notin {<<"login">>, <<"select-site">>, <<"login", "select-site">>, <<"start">>}
  /\ <<"start">> \notin {<<"login">>, <<"select-site">>, <<"login", "select-site">>}
  /\ <<"select-site">> \notin {<<"login">>, <<"login", "select-site">>}
<1>1. \A x \in {"login", "select-site", "start"} : <<x>> \o <<>> = <<x>>
  OBVIOUS
<1>2. Tail(<<"login">>) = <<>> /\ Tail(<<"login", "select-site">>) = <<"select-site">>
  OBVIOUS
<1>3. /\ Len(<<>>) = 0 /\ Len(<<"login", "select-site">>) = 2
      /\ \A x \in {"login", "select-site", "start"} : Len(<<x>>) = 1 /\ <<x>>[1] = x
  OBVIOUS
<1>4. <<"login">> \o <<"select-site">> = <<"login", "select-site">>
  <2>1. "login" \in {"login", "select-site"} /\ "select-site" \in {"login", "select-site"}
    OBVIOUS
  <2>. QED
    BY <2>1, PairsAre
<1>. QED
  BY <1>1, <1>2, <1>3, <1>4

LEMMA AddressesAre ==
  /\ \A place \in Pages, site \in Sites \cup {NoSite} :
       /\ At(place, site) \in Addresses
       /\ At(place, site).stops = <<>> /\ At(place, site).page = place /\ At(place, site).site = site
  /\ "home" \in Pages /\ Home \in Addresses /\ Home.stops = <<>> /\ Home.page = "home" /\ Home.site = NoSite
  /\ Start \in Addresses /\ Start.stops = <<"start">>
<1>1. \A place \in Pages, site \in Sites \cup {NoSite} :
       /\ At(place, site) \in Addresses
       /\ At(place, site).stops = <<>> /\ At(place, site).page = place /\ At(place, site).site = site
  BY DEF At, Addresses, Stops
<1>2. "home" \in Pages
  BY DEF Pages, SitePages
<1>3. Home \in Addresses /\ Home.stops = <<>> /\ Home.page = "home" /\ Home.site = NoSite
  BY <1>1, <1>2 DEF Home
<1>4. Start = [Home EXCEPT !.stops = <<"start">>]
  BY <1>3, StopsAre DEF Start, Stopped
<1>. QED
  BY <1>1, <1>2, <1>3, <1>4 DEF Addresses, Stops

\* A stop before an address, or without the first one.
LEMMA StoppedIs ==
  ASSUME NEW to \in Addresses
  PROVE  /\ to.stops \in {<<>>, <<"select-site">>} =>
              Stopped("login", to) \in Addresses /\ IsLogin(Stopped("login", to))
         /\ to.stops = <<>> =>
              Stopped("select-site", to) \in Addresses /\ Stopped("select-site", to).stops = <<"select-site">>
         /\ \A stop \in {"login", "select-site"} :
              Stopped(stop, to).page = to.page /\ Stopped(stop, to).site = to.site
         /\ IsLogin(to) =>
              /\ [to EXCEPT !.stops = Tail(@)] \in Addresses
              /\ [to EXCEPT !.stops = Tail(@)].stops \in {<<>>, <<"select-site">>}
              /\ [to EXCEPT !.stops = Tail(@)].page = to.page
         /\ \A site \in Sites \cup {NoSite} :
              /\ [to EXCEPT !.site = site] \in Addresses /\ [to EXCEPT !.site = site].site = site
              /\ [to EXCEPT !.site = site].stops = to.stops /\ [to EXCEPT !.site = site].page = to.page
<1>. USE StopsAre DEF Addresses
<1>1. to.stops \in {<<>>, <<"select-site">>} =>
              Stopped("login", to) \in Addresses /\ IsLogin(Stopped("login", to))
  BY DEF Stopped, Stops, IsLogin
<1>2. to.stops = <<>> =>
              Stopped("select-site", to) \in Addresses /\ Stopped("select-site", to).stops = <<"select-site">>
  BY DEF Stopped, Stops
<1>3. \A stop \in {"login", "select-site"} :
              Stopped(stop, to).page = to.page /\ Stopped(stop, to).site = to.site
  BY DEF Stopped
<1>4. IsLogin(to) =>
              /\ [to EXCEPT !.stops = Tail(@)] \in Addresses
              /\ [to EXCEPT !.stops = Tail(@)].stops \in {<<>>, <<"select-site">>}
              /\ [to EXCEPT !.stops = Tail(@)].page = to.page
  BY DEF Stops, IsLogin
<1>. QED
  BY <1>1, <1>2, <1>3, <1>4

\* A login has no site to keep, and neither requires a session nor has one required.
LEMMA LoginsAre ==
  ASSUME NEW to \in Addresses
  PROVE  /\ IsLogin(to) => ~RequiresAuth(to) /\ to.stops # <<>> /\ to # Start
         /\ to.stops \in {<<"select-site">>, <<"start">>} => ~IsLogin(to) /\ to.stops # <<>> /\ ~IsRefused(to) /\ ~RequiresSite(to)
         /\ RequiresAuth(to) => to.stops \in {<<>>, <<"select-site">>}
         /\ ~IsLogin(to) /\ to.stops # <<"start">> => to.stops \in {<<>>, <<"select-site">>}
  BY StopsAre, AddressesAre DEF IsLogin, RequiresAuth, IsRefused, RequiresSite, Addresses, Stops

LEMMA NavigationStarts == NavigationInit => NavigationInv
<1>. SUFFICES ASSUME NavigationInit PROVE NavigationInv
  OBVIOUS
<1>. USE NavigationAssumption
<1>0. PICK place \in Places, site \in Sites \cup {NoSite} :
        going = [to |-> At(place, site), at |-> "guard"] /\ wanted = place /\ mine = site
  BY DEF NavigationInit
<1>1. NavigationTypeOK
  BY <1>0, AddressesAre DEF NavigationInit, NavigationTypeOK
<1>6. OneStart
  BY <1>0, AddressesAre, StopsAre DEF NavigationInit, OneStart
<1>2. LoadedHasSite /\ RememberedIsMine
  BY <1>0 DEF NavigationInit, LoadedHasSite, RememberedIsMine
<1>3. RouteKeepsSite /\ PagesHaveASite
  BY AddressesAre, StopsAre DEF NavigationInit, RouteKeepsSite, PagesHaveASite, OnPage, From
<1>4. HopsAreCounted
  BY <1>0 DEF NavigationInit, HopsAreCounted, HopsLeft
<1>5. WantedIsReached /\ SiteIsKept
  BY <1>0, AddressesAre DEF NavigationInit, WantedIsReached, SiteIsKept, Target, From
<1>. QED
  BY <1>1, <1>2, <1>3, <1>4, <1>5, <1>6 DEF NavigationInv

LEMMA NavLinksLead == LinksLead
  BY DEF LinksLead, NavLinks, Allowed, SitePages, RootPages, OperatorPages, AdminPages

\* What Expect leaves: the tab's site is the one given, and has strayed if it is a new one.
LEMMA Expected ==
  ASSUME NavigationInv, NEW site \in Sites \cup {NoSite}, Expect(site)
  PROVE  /\ mine' \in Sites \cup {NoSite} /\ strayed' \in BOOLEAN /\ site \in {NoSite, mine'}
         /\ strayed' \/ (mine' = mine /\ ~strayed)
         /\ site \in {NoSite, mine} => mine' = mine /\ strayed' = strayed
<1>1. mine \in Sites \cup {NoSite} /\ strayed \in BOOLEAN
  BY DEF NavigationInv, NavigationTypeOK
<1>. QED
  BY <1>1 DEF Expect

\* The parts of the invariant that a step of the guard does not touch, because the route stays.
LEMMA RouteStays ==
  ASSUME NavigationInv, UNCHANGED route
  PROVE  PagesHaveASite'
BY DEF NavigationInv, PagesHaveASite, OnPage, RequiresSite, isValidSite

LEMMA GuardSessionStep == ASSUME NavigationInv, GuardSession PROVE NavigationInv'
<1>. USE DEF NavigationInv
<1>. DEFINE to == going.to
<1>0. /\ to \in Addresses /\ going.at = "guard" /\ RequiresAuth(to) /\ ~HasSession
      /\ going' = [to |-> Stopped("login", to), at |-> "guard"] /\ hops' = hops + 1 /\ token' = "none" /\ shown' = "none"
      /\ UNCHANGED <<route, moves, remembered, wanted, mine, strayed>>
  BY DEF NavigationTypeOK, GuardSession, Guarded, Redirect, To, ToLogin, navigationHistory
<1>1. PICK to2 \in Addresses :
        /\ to2 = Stopped("login", to) /\ IsLogin(to2) /\ to2.page = to.page /\ ~RequiresAuth(to2) /\ to2.stops # <<>>
  BY <1>0, LoginsAre, StoppedIs
<1>2. NavigationTypeOK'
  BY <1>0, <1>1 DEF NavigationTypeOK
<1>3. LoadedHasSite' /\ RouteKeepsSite' /\ RememberedIsMine'
  BY <1>0, <1>1 DEF LoadedHasSite, RouteKeepsSite, RememberedIsMine, From
<1>4. ~HasSession'
  BY <1>0 DEF HasSession, Users
<1>5. HopsAreCounted'
  <2>1. HopsLeft(to) = 1 /\ HopsLeft(to2)' = 0
    BY <1>0, <1>1, <1>4 DEF HopsLeft, RequiresAuth
  <2>. QED
    BY <2>1, <1>0, <1>1 DEF HopsAreCounted, NavigationTypeOK
<1>6. WantedIsReached' /\ SiteIsKept'
  BY <1>0, <1>1 DEF WantedIsReached, SiteIsKept, Target, From
<1>7. OneStart'
  BY <1>0, <1>1, StopsAre DEF OneStart, IsLogin
<1>. QED
  BY <1>7, <1>2, <1>3, <1>5, <1>6, <1>0, RouteStays

\* Home is a page for everybody, but its address has no site.
LEMMA HomeNeedsOneHop == HopsLeft(Home) <= 1 /\ ~IsLogin(Home)
  BY AddressesAre, StopsAre DEF HopsLeft, IsRefused, IsLogin, Allowed, SitePages

LEMMA SendHomeStep ==
  ASSUME NavigationInv, Guarded, SendHome, HopsLeft(going.to) = 2
  PROVE  NavigationInv'
<1>. USE DEF NavigationInv
<1>0. /\ going' = [to |-> Home, at |-> "guard"] /\ hops' = hops + 1 /\ wanted' = "home" /\ going.at = "guard"
      /\ UNCHANGED <<token, remembered, shown, route, moves>>
  BY DEF Guarded, SendHome, Redirect, To
<1>1. route \in Addresses /\ From(route) \in Sites \cup {NoSite} /\ Expect(From(route))
  BY DEF NavigationTypeOK, From, Addresses, SendHome
<1>2. UNCHANGED <<mine, strayed>>
  BY <1>1, Expected DEF RouteKeepsSite
<1>3. NavigationTypeOK'
  BY <1>0, <1>2, AddressesAre DEF NavigationTypeOK
<1>4. LoadedHasSite' /\ RouteKeepsSite' /\ RememberedIsMine'
  BY <1>0, <1>2 DEF LoadedHasSite, RouteKeepsSite, RememberedIsMine, From
<1>5. HopsAreCounted'
  <2>1. HopsLeft(Home)' = HopsLeft(Home)
    BY <1>0 DEF HopsLeft, HasSession, IsLogin, RequiresAuth, IsRefused, RequiresSite, isValidSite
  <2>2. HopsLeft(Home) \in Nat
    BY DEF HopsLeft
  <2>. QED
    BY <2>1, <2>2, <1>0, HomeNeedsOneHop DEF HopsAreCounted, NavigationTypeOK
<1>6. WantedIsReached' /\ SiteIsKept'
  BY <1>0, AddressesAre DEF WantedIsReached, SiteIsKept, Target, From
<1>7. OneStart'
  BY <1>0, AddressesAre, StopsAre DEF OneStart
<1>. QED
  BY <1>7, <1>3, <1>4, <1>5, <1>6, <1>0, RouteStays

LEMMA GuardHomeStep == ASSUME NavigationInv, GuardRole \/ GuardGuest PROVE NavigationInv'
<1>1. HopsLeft(going.to) = 2
  BY DEF GuardRole, GuardGuest, HopsLeft
<1>. QED
  BY <1>1, SendHomeStep DEF GuardRole, GuardGuest

LEMMA GuardSiteStep == ASSUME NavigationInv, GuardSite PROVE NavigationInv'
<1>. USE NavigationAssumption DEF NavigationInv
<1>. DEFINE to == going.to
<1>0. /\ to \in Addresses /\ going.at = "guard" /\ RequiresAuth(to) /\ HasSession /\ ~IsRefused(to)
      /\ RequiresSite(to) /\ ~isValidSite(to.site) /\ to.stops = <<>>
      /\ UNCHANGED <<route, moves, token, remembered, shown, wanted, strayed>>
  BY DEF NavigationTypeOK, GuardSite, Guarded, RequiresSite
<1>1. PICK to2 \in Addresses :
        /\ going' = [to |-> to2, at |-> "guard"] /\ hops' = hops + 1 /\ to2.page = to.page
        /\ \/ /\ isValidSite(FallbackSite) /\ to2.site = FallbackSite /\ to2.stops = <<>>
              /\ mine' = (IF From(route) = NoSite /\ strayed THEN FallbackSite ELSE mine)
           \/ to2.stops = <<"select-site">> /\ mine' = mine
  <2>1. CASE isValidSite(FallbackSite)
    <3>1. FallbackSite \in Sites
      BY <2>1 DEF isValidSite
    <3>. QED
      <4>1. going' = [to |-> [to EXCEPT !.site = FallbackSite], at |-> "guard"] /\ hops' = hops + 1
        BY <2>1 DEF GuardSite, Redirect, To
      <4>2. mine' = (IF From(route) = NoSite /\ strayed THEN FallbackSite ELSE mine)
        BY <2>1 DEF GuardSite
      <4>3. /\ [to EXCEPT !.site = FallbackSite] \in Addresses
            /\ [to EXCEPT !.site = FallbackSite].site = FallbackSite
            /\ [to EXCEPT !.site = FallbackSite].stops = to.stops /\ [to EXCEPT !.site = FallbackSite].page = to.page
        BY <3>1, <1>0, StoppedIs
      <4>. QED
        BY <2>1, <1>0, <4>1, <4>2, <4>3
  <2>2. CASE ~isValidSite(FallbackSite)
    BY <2>2, <1>0, StoppedIs DEF GuardSite, Redirect, To
  <2>. QED
    BY <2>1, <2>2
<1>2. mine' \in Sites \cup {NoSite} /\ (mine' = mine \/ (strayed /\ From(route) = NoSite))
  BY <1>1 DEF NavigationTypeOK, isValidSite
<1>3. NavigationTypeOK'
  BY <1>0, <1>1, <1>2 DEF NavigationTypeOK
<1>4. LoadedHasSite' /\ RouteKeepsSite' /\ RememberedIsMine'
  BY <1>0, <1>1, <1>2 DEF LoadedHasSite, RouteKeepsSite, RememberedIsMine, From
<1>5. HopsAreCounted'
  <2>1. HopsLeft(to) = 1
    BY <1>0, LoginsAre DEF HopsLeft
  <2>2. ~IsLogin(to2)
    BY <1>1, StopsAre DEF IsLogin
  <2>3. ~(RequiresAuth(to2) /\ IsRefused(to2)) /\ ~(RequiresAuth(to2) /\ RequiresSite(to2) /\ ~isValidSite(to2.site))
    BY <1>0, <1>1, LoginsAre DEF IsRefused, isValidSite
  <2>4. HopsLeft(to2)' = HopsLeft(to2)
    BY <1>0 DEF HopsLeft, HasSession, IsLogin, RequiresAuth, IsRefused, RequiresSite, isValidSite
  <2>5. HopsLeft(to2) = 0
    BY <1>0, <2>2, <2>3 DEF HopsLeft
  <2>. QED
    BY <2>1, <2>4, <2>5, <1>0, <1>1 DEF HopsAreCounted, NavigationTypeOK
<1>6. WantedIsReached'
  BY <1>0, <1>1 DEF WantedIsReached, Target
<1>7. SiteIsKept'
  <2>1. CASE to2.stops = <<"select-site">>
    BY <2>1, <1>1, StopsAre DEF SiteIsKept, Target, From
  <2>2. CASE to2.stops = <<>> /\ to2.site = FallbackSite /\ isValidSite(FallbackSite)
    <3>0. FallbackSite # NoSite /\ From(route) \in Sites \cup {NoSite}
      BY <2>2 DEF isValidSite, NavigationTypeOK, From, Addresses
    <3>1. CASE From(route) # NoSite
      BY <3>0, <3>1, <2>2, <1>1, StopsAre DEF SiteIsKept, Target, From, FallbackSite, isValidSite, RouteKeepsSite
    <3>2. CASE From(route) = NoSite
      <4>1. FallbackSite = remembered
        BY <3>2 DEF FallbackSite, isValidSite
      <4>2. FallbackSite = mine'
        BY <4>1, <3>2, <2>2, <1>1, StopsAre DEF RememberedIsMine
      <4>. QED
        BY <4>2, <2>2, <1>1 DEF SiteIsKept, Target, From
    <3>. QED
      BY <3>1, <3>2
  <2>. QED
    BY <1>1, <2>1, <2>2
<1>8. OneStart'
  BY <1>0, <1>1, StopsAre DEF OneStart
<1>. QED
  BY <1>8, <1>3, <1>4, <1>5, <1>6, <1>7, <1>0, RouteStays

LEMMA GuardPassesStep == ASSUME NavigationInv, GuardPasses PROVE NavigationInv'
<1>. USE NavigationAssumption DEF NavigationInv
<1>. DEFINE to == going.to
<1>0. /\ to \in Addresses /\ going.at = "guard" /\ going' = [to |-> to, at |-> "loading"]
      /\ RequiresAuth(to) => HasSession /\ ~IsRefused(to) /\ (RequiresSite(to) => isValidSite(to.site))
      /\ UNCHANGED <<route, moves, token, shown, wanted, mine, hops>>
  BY DEF NavigationTypeOK, GuardPasses, Guarded
<1>1. \/ RequiresAuth(to) /\ RequiresSite(to) /\ remembered' = to.site /\ strayed' = FALSE
      \/ RequiresAuth(to) /\ RequiresSite(to) /\ remembered' = remembered /\ strayed' = TRUE
      \/ ~(RequiresAuth(to) /\ RequiresSite(to)) /\ remembered' = remembered /\ strayed' = strayed
  BY DEF GuardPasses
<1>2. NavigationTypeOK'
  BY <1>0, <1>1 DEF NavigationTypeOK, Addresses
<1>3. LoadedHasSite'
  BY <1>0 DEF LoadedHasSite, RequiresAuth, RequiresSite, isValidSite
<1>4. RouteKeepsSite'
  BY <1>0 DEF RouteKeepsSite, From
<1>5. RememberedIsMine'
  <2>1. CASE RequiresAuth(to) /\ RequiresSite(to) /\ remembered' = to.site
    <3>1. to.stops = <<>> /\ to.site \in Sites
      BY <2>1, <1>0 DEF RequiresSite, isValidSite
    <3>2. to.site = mine
      BY <3>1, <1>0 DEF SiteIsKept, Target, From
    <3>. QED
      BY <3>2, <2>1, <1>0 DEF RememberedIsMine
  <2>2. CASE ~(RequiresAuth(to) /\ RequiresSite(to) /\ remembered' = to.site)
    BY <2>2, <1>0, <1>1 DEF RememberedIsMine
  <2>. QED
    BY <2>1, <2>2
<1>6. HopsAreCounted'
  <2>1. HopsLeft(to) \in Nat
    BY DEF HopsLeft
  <2>. QED
    BY <2>1, <1>0 DEF HopsAreCounted, NavigationTypeOK
<1>7. WantedIsReached' /\ SiteIsKept'
  BY <1>0 DEF WantedIsReached, SiteIsKept, Target, From
<1>8. OneStart'
  BY <1>0 DEF OneStart
<1>. QED
  BY <1>8, <1>2, <1>3, <1>4, <1>5, <1>6, <1>7, <1>0, RouteStays

LEMMA ArriveStep == ASSUME NavigationInv, Arrive PROVE NavigationInv'
<1>. USE DEF NavigationInv
<1>0. /\ going.at = "loading" /\ going.to \in Addresses /\ route' = going.to
      /\ going' = [to |-> Start, at |-> "none"]
      /\ UNCHANGED <<token, remembered, moves, hops, wanted, mine, strayed>>
  BY DEF NavigationTypeOK, Arrive, Idle, navigationHistory
<1>1. shown' \in Users \cup {"none"}
  BY DEF NavigationTypeOK, Arrive, HasSession
<1>2. NavigationTypeOK'
  BY <1>0, <1>1, AddressesAre DEF NavigationTypeOK
<1>3. LoadedHasSite' /\ RememberedIsMine' /\ HopsAreCounted'
  BY <1>0 DEF LoadedHasSite, RememberedIsMine, HopsAreCounted
<1>4. RouteKeepsSite' /\ SiteIsKept' /\ WantedIsReached'
  BY <1>0 DEF RouteKeepsSite, SiteIsKept, WantedIsReached, Target, From
<1>5. PagesHaveASite'
  BY <1>0 DEF PagesHaveASite, LoadedHasSite, OnPage, RequiresAuth, RequiresSite, isValidSite
<1>6. OneStart'
  BY <1>0 DEF OneStart
<1>. QED
  BY <1>6, <1>2, <1>3, <1>4, <1>5

\* A navigation that begins: it is counted anew, and leads to what the user wants with the tab's site.
LEMMA PushStep ==
  ASSUME NavigationInv, NEW to \in Addresses, NEW site \in Sites \cup {NoSite},
         PushTo(to), to.stops # <<"start">>, Expect(site), wanted' = to.page, From(to) \in {NoSite, site},
         route' \in {route, Start}, remembered' = remembered,
         token' \in Users \cup {"expired", "none"}, shown' \in Users \cup {"none"},
         From(route') \in {NoSite, site}
  PROVE  NavigationInv'
<1>. USE NavigationAssumption DEF NavigationInv
<1>0. going' = [to |-> to, at |-> "guard"] /\ hops' = 0 /\ moves' \in 0 .. MaxMoves
  BY DEF PushTo, To, Move, NavigationTypeOK
<1>1. /\ mine' \in Sites \cup {NoSite} /\ strayed' \in BOOLEAN /\ site \in {NoSite, mine'}
      /\ strayed' \/ (mine' = mine /\ ~strayed)
  BY Expected
<1>2. NavigationTypeOK'
  BY <1>0, <1>1, AddressesAre DEF NavigationTypeOK, Addresses
<1>3. LoadedHasSite' /\ RememberedIsMine'
  BY <1>0, <1>1 DEF LoadedHasSite, RememberedIsMine
<1>4. RouteKeepsSite'
  BY <1>1 DEF RouteKeepsSite, From
<1>5. HopsAreCounted'
  <2>1. HopsLeft(to)' \in 0 .. 2
    BY DEF HopsLeft
  <2>. QED
    BY <2>1, <1>0 DEF HopsAreCounted
<1>6. WantedIsReached'
  BY <1>0 DEF WantedIsReached, Target
<1>7. From(to) \in {NoSite, mine'}
  BY <1>1 DEF Expect
<1>8. SiteIsKept'
  BY <1>0, <1>7 DEF SiteIsKept, Target, From
<1>9. PagesHaveASite'
  BY AddressesAre, StopsAre DEF PagesHaveASite, OnPage, RequiresSite, isValidSite
<1>10. OneStart'
  BY <1>0, AddressesAre DEF OneStart
<1>. QED
  BY <1>10, <1>2, <1>3, <1>4, <1>5, <1>6, <1>8, <1>9

LEMMA TypesOfTab ==
  ASSUME NavigationInv
  PROVE  /\ route \in Addresses /\ From(route) \in Sites \cup {NoSite} /\ route.page \in Pages
         /\ token \in Users \cup {"expired", "none"} /\ shown \in Users \cup {"none"}
BY DEF NavigationInv, NavigationTypeOK, From, Addresses

LEMMA LinkStep ==
  ASSUME NavigationInv, NEW place \in Places,
         FollowLink(place) \/ \E site \in Sites \cup {NoSite} : OpenAddress(place, site)
  PROVE  NavigationInv'
<1>1. place \in Pages
  BY NavigationAssumption
<1>2. CASE FollowLink(place)
  <2>1. /\ From(At(place, NoSite)) = NoSite /\ At(place, NoSite) \in Addresses /\ At(place, NoSite).page = place
        /\ At(place, NoSite).stops # <<"start">>
    BY <1>1, AddressesAre, StopsAre DEF From
  <2>. QED
    BY <1>2, <2>1, TypesOfTab, PushStep DEF FollowLink
<1>3. ASSUME NEW site \in Sites \cup {NoSite}, OpenAddress(place, site) PROVE NavigationInv'
  <2>1. /\ From(At(place, site)) = site /\ At(place, site) \in Addresses /\ At(place, site).page = place
        /\ At(place, site).stops # <<"start">>
    BY <1>1, AddressesAre, StopsAre DEF From
  <2>2. From(Start) = NoSite
    BY AddressesAre, StopsAre DEF From
  <2>. DEFINE expected == IF site # NoSite THEN site ELSE From(route)
  <2>3. expected \in Sites \cup {NoSite} /\ site \in {NoSite, expected}
    BY TypesOfTab
  <2>4. Expect(expected)
    BY <1>3 DEF OpenAddress
  <2>5. PushTo(At(place, site)) /\ route' = Start /\ shown' = "none" /\ UNCHANGED <<token, remembered>> /\ wanted' = place
    BY <1>3 DEF OpenAddress, Load
  <2>. HIDE DEF expected
  <2>. QED
    BY <2>1, <2>2, <2>3, <2>4, <2>5, TypesOfTab, PushStep
<1>. QED
  BY <1>2, <1>3

LEMMA StayStep ==
  ASSUME NavigationInv, SwitchSite \/ Logout \/ Reload
  PROVE  NavigationInv'
<1>1. CASE SwitchSite
  <2>1. route.stops = <<>>
    BY <1>1 DEF SwitchSite, OnPage
  <2>2. /\ Stopped("select-site", route) \in Addresses /\ Stopped("select-site", route).page = route.page
        /\ From(Stopped("select-site", route)) = NoSite /\ Stopped("select-site", route).stops # <<"start">>
    BY <2>1, TypesOfTab, StoppedIs, StopsAre DEF From
  <2>. QED
    BY <1>1, <2>2, TypesOfTab, PushStep DEF SwitchSite
<1>2. CASE Logout
  <2>1. Home.stops = <<>> /\ Home \in Addresses /\ Home.page = "home"
    BY AddressesAre
  <2>2. /\ Stopped("login", Home) \in Addresses /\ Stopped("login", Home).page = "home"
        /\ From(Stopped("login", Home)) = NoSite /\ Stopped("login", Home).stops # <<"start">>
    BY <2>1, StoppedIs, LoginsAre, StopsAre DEF From, IsLogin
  <2>. QED
    BY <1>2, <2>2, TypesOfTab, PushStep DEF Logout
<1>3. CASE Reload
  <2>1. From(Start) = NoSite
    BY AddressesAre, StopsAre DEF From
  <2>2. /\ PushTo(route) /\ route' = Start /\ shown' = "none" /\ UNCHANGED <<token, remembered>>
        /\ wanted' = route.page /\ Expect(From(route)) /\ route.stops # <<"start">>
    BY <1>3 DEF Reload, Load, NavigationInv, OneStart
  <2>. QED
    BY <2>1, <2>2, TypesOfTab, PushStep
<1>. QED
  BY <1>1, <1>2, <1>3

LEMMA ChoiceStep ==
  ASSUME NavigationInv,
         (\E site \in Sites : SelectSite(site)) \/ (\E role \in Roles : Login(role))
  PROVE  NavigationInv'
<1>1. ASSUME NEW site \in Sites, SelectSite(site) PROVE NavigationInv'
  <2>1. route.site \in Sites \cup {NoSite} /\ From(route) = NoSite
    BY <1>1, TypesOfTab, StopsAre DEF SelectSite, From, Addresses
  <2>2. At(route.page, route.site) \in Addresses /\ At(route.page, route.site).page = route.page /\ At(route.page, route.site).stops = <<>>
    BY <2>1, TypesOfTab, AddressesAre
  <2>. DEFINE to == WithSite(At(route.page, route.site), site)
  <2>3. to \in Addresses /\ to.page = route.page /\ to.site = site /\ to.stops # <<"start">>
    BY <2>2, StoppedIs, StopsAre DEF WithSite
  <2>4. PushTo(to) /\ wanted' = route.page /\ Expect(site) /\ UNCHANGED <<route, token, remembered, shown>>
    BY <1>1 DEF SelectSite
  <2>. HIDE DEF to
  <2>5. From(to) \in {NoSite, site}
    BY <2>3 DEF From
  <2>. QED
    BY <2>1, <2>3, <2>4, <2>5, TypesOfTab, PushStep
<1>2. ASSUME NEW role \in Roles, Login(role) PROVE NavigationInv'
  <2>1. IsLogin(route) /\ From(route) = NoSite
    BY <1>2, TypesOfTab, LoginsAre DEF Login, From
  <2>. DEFINE to == [route EXCEPT !.stops = Tail(@)]
  <2>2. to \in Addresses /\ to.page = route.page /\ to.stops # <<"start">>
    BY <2>1, TypesOfTab, StoppedIs, StopsAre
  <2>3. PushTo(to) /\ wanted' = route.page /\ Expect(From(to)) /\ token' = role /\ UNCHANGED <<route, remembered, shown>>
    BY <1>2 DEF Login
  <2>. HIDE DEF to
  <2>4. From(to) \in Sites \cup {NoSite}
    BY <2>2 DEF From, Addresses
  <2>. QED
    BY <2>1, <2>2, <2>3, <2>4, TypesOfTab, PushStep, NavigationAssumption
<1>. QED
  BY <1>1, <1>2

\* The steps that leave the tab where it is and where it goes.
LEMMA AroundStep == ASSUME NavigationInv, AroundNext PROVE NavigationInv'
<1>. USE NavigationAssumption
<1>1. CASE Unauthorized /\ ~IsLogin(route)
  <2>1. route.stops \in {<<>>, <<"select-site">>}
    BY <1>1, TypesOfTab, LoginsAre DEF Unauthorized, NavigationInv, OneStart
  <2>2. /\ Stopped("login", route) \in Addresses /\ Stopped("login", route).page = route.page
        /\ From(Stopped("login", route)) = NoSite /\ Stopped("login", route).stops # <<"start">>
    BY <2>1, TypesOfTab, StoppedIs, LoginsAre, StopsAre DEF From, IsLogin
  <2>3. /\ PushTo(Stopped("login", route)) /\ UNCHANGED <<route, remembered>> /\ token' = "none" /\ shown' = "none"
        /\ wanted' = route.page /\ Expect(From(route))
    BY <1>1 DEF Unauthorized
  <2>. QED
    BY <2>2, <2>3, TypesOfTab, PushStep
<1>2. ASSUME UNCHANGED <<route, going, wanted, mine>>, moves' \in 0 .. MaxMoves,
             token' \in Users \cup {"expired", "none"}, shown' \in Users \cup {"none"},
             \/ remembered' \in Sites /\ strayed' = TRUE
             \/ UNCHANGED <<remembered, strayed>>,
             \/ hops' = 0
             \/ hops' = hops /\ going.at # "guard"
             \/ UNCHANGED <<hops, token>>
      PROVE  NavigationInv'
  <2>. USE <1>2 DEF NavigationInv
  <2>5. strayed' \in BOOLEAN /\ remembered' \in Sites \cup {NoSite}
    BY DEF NavigationTypeOK
  <2>6. hops' \in Nat
    BY DEF NavigationTypeOK
  <2>7. OneStart'
    BY DEF OneStart
  <2>1. NavigationTypeOK'
    BY <2>5, <2>6 DEF NavigationTypeOK
  <2>2. LoadedHasSite' /\ RouteKeepsSite' /\ RememberedIsMine'
    BY DEF LoadedHasSite, RouteKeepsSite, RememberedIsMine, From, RequiresAuth, RequiresSite, isValidSite
  <2>3. HopsAreCounted'
    <3>1. HopsLeft(going.to)' \in 0 .. 2
      BY DEF HopsLeft
    <3>2. CASE hops' = 0
      BY <3>1, <3>2 DEF HopsAreCounted
    <3>3. CASE hops' = hops /\ going.at # "guard"
      BY <3>3 DEF HopsAreCounted
    <3>4. CASE UNCHANGED <<hops, token>>
      <4>1. HopsLeft(going.to)' = HopsLeft(going.to)
        BY <3>4 DEF HopsLeft, HasSession, IsLogin, RequiresAuth, IsRefused, RequiresSite, isValidSite
      <4>. QED
        BY <4>1, <3>4 DEF HopsAreCounted
    <3>. QED
      BY <3>2, <3>3, <3>4
  <2>4. PagesHaveASite' /\ WantedIsReached' /\ SiteIsKept'
    BY RouteStays DEF WantedIsReached, SiteIsKept, Target, From
  <2>. QED
    BY <2>1, <2>2, <2>3, <2>4, <2>7
<1>3. Move => moves' \in 0 .. MaxMoves
  BY DEF Move, NavigationInv, NavigationTypeOK
<1>4. CASE Unauthorized /\ IsLogin(route)
  BY <1>2, <1>3, <1>4, TypesOfTab DEF Unauthorized, navigationHistory
<1>5. ASSUME NEW value \in Roles \cup {"expired", "none"}, TokenChanges(value) PROVE NavigationInv'
  BY <1>2, <1>3, <1>5, TypesOfTab DEF TokenChanges, navigationHistory
<1>6. ASSUME NEW site \in Sites, OtherTabRemembers(site) PROVE NavigationInv'
  BY <1>2, <1>3, <1>6, TypesOfTab DEF OtherTabRemembers
<1>. QED
  BY <1>1, <1>4, <1>5, <1>6 DEF AroundNext

LEMMA NavigationStep == ASSUME NavigationInv, [NavigationNext]_navigationVars PROVE NavigationInv'
<1>1. CASE GuardNext
  BY <1>1, GuardSessionStep, GuardHomeStep, GuardSiteStep, GuardPassesStep, ArriveStep DEF GuardNext
<1>2. CASE UserNext
  BY <1>2, LinkStep, StayStep, ChoiceStep DEF UserNext
<1>3. CASE AroundNext
  BY <1>3, AroundStep
<1>4. CASE UNCHANGED navigationVars
  <2>. USE <1>4 DEF NavigationInv, navigationVars, navigationHistory
  <2>1. NavigationTypeOK' /\ OneStart'
    BY DEF NavigationTypeOK, OneStart
  <2>2. LoadedHasSite' /\ RouteKeepsSite' /\ RememberedIsMine'
    BY DEF LoadedHasSite, RouteKeepsSite, RememberedIsMine, From, RequiresAuth, RequiresSite, isValidSite
  <2>3. HopsLeft(going.to)' = HopsLeft(going.to)
    BY DEF HopsLeft, HasSession, IsLogin, RequiresAuth, IsRefused, RequiresSite, isValidSite
  <2>4. HopsAreCounted' /\ PagesHaveASite' /\ WantedIsReached' /\ SiteIsKept'
    BY <2>3, RouteStays DEF HopsAreCounted, WantedIsReached, SiteIsKept, Target, From
  <2>. QED
    BY <2>1, <2>2, <2>4
<1>. QED
  BY <1>1, <1>2, <1>3, <1>4 DEF NavigationNext

LEMMA NavigationIsSound == NavigationInv => NavigationIsTrue
<1>1. ASSUME NavigationInv PROVE GuardEnds
  <2>1. HopsLeft(going.to) \in 0 .. 2
    BY DEF HopsLeft
  <2>. QED
    BY <1>1, <2>1 DEF NavigationInv, NavigationTypeOK, HopsAreCounted, GuardEnds
<1>. QED
  BY <1>1, NavLinksLead DEF NavigationInv, NavigationIsTrue

\* A tab reaches the page that was asked for, keeps its site, never mounts a page without one,
\* is redirected twice at most and shows no link that is refused (router/index.js).
THEOREM TabsArrive == NavigationSpec => []NavigationIsTrue
<1>. QED
  BY NavigationIsSound, NavigationStarts, NavigationStep, PTL DEF NavigationSpec

(***************************************************************************)
(* The forms of an entry.                                                  *)
(***************************************************************************)

\* A page that is not there has asked for nothing, and a form without an entry still waits for it.
FormIsItsPage ==
  /\ page = "none" => request = NoRequest /\ ~loaded /\ ~sentAs.loaded
  /\ request.entry # "none" => ~loaded
  /\ sentAs.loaded => loaded

\* A name on its way is one, and a form on its way has an address.
RequestsCarry ==
  /\ request.add # "none" => added \in Names
  /\ request.save = "asked" => sent.ip # NoText

\* An entry on its way to the form is the row, but for what was written since it was read.
EntryIsRow == page = "edit" /\ request.entry = "read" => \A c \in Columns \ written : entryRead[c] = row[c]

\* What a form, or a request on its way, has as a department has been counted, or is loose.
HeldIsListed == \A name \in Names : Held(name) => name \in listed["department"] \/ <<"department", name>> \in loose

\* A group is deleted for which no use was counted.
DeletedWasUnused == deleting # NoDeletion => deleting.unused

FormsInv == EntryFormsTypeOK /\ FormIsItsPage /\ RequestsCarry /\ EntryIsRow /\ HeldIsListed /\ DeletedWasUnused /\ FormsAreTrue

PageRequests ==
  [entry : {"none", "asked", "read"}, groups : {"none", "asked", "read"},
   add : {"none", "asked", "done"}, save : {"none", "asked", "done"}]
PageRequestKinds == {"entry", "groups", "add", "save"}

\* Blank forms, and what a change of one column or of one request leaves.
LEMMA FormsAre ==
  /\ EmptyForm \in Forms /\ EmptyForm.department = NoText
  /\ \A f \in Forms : f.department \in Names \cup {NoText}
  /\ EntryRows \subseteq Forms /\ \A f \in Forms : f.ip # NoText => f \in EntryRows
  /\ Columns = {"ip", "os", "department"}
  BY DEF EmptyForm, Forms, Columns, EntryRows

LEMMA RequestsAre ==
  /\ NoRequest \in PageRequests /\ DOMAIN NoRequest = PageRequestKinds
  /\ \A c \in PageRequestKinds : NoRequest[c] = "none"
  /\ \A q \in PageRequests, c \in PageRequestKinds : [q EXCEPT ![c] = "none"] \in PageRequests
  BY DEF NoRequest, PageRequests, PageRequestKinds

LEMMA OpenedRequestIs ==
  ASSUME NEW calls \in {{"entry", "groups"}, {"groups"}}
  PROVE  [c \in DOMAIN NoRequest |-> IF c \in calls THEN "asked" ELSE "none"] \in PageRequests
<1>. DEFINE q == [c \in PageRequestKinds |-> IF c \in calls THEN "asked" ELSE "none"]
<1>1. q = [entry |-> q["entry"], groups |-> q["groups"], add |-> q["add"], save |-> q["save"]]
  BY DEF PageRequestKinds
<1>2. q \in PageRequests
  BY <1>1 DEF PageRequests, PageRequestKinds
<1>. QED
  BY <1>2, RequestsAre

LEMMA FormsStart == EntryFormsInit => FormsInv
<1>. SUFFICES ASSUME EntryFormsInit PROVE FormsInv
  OBVIOUS
<1>. USE EntryFormsAssumption
<1>1. EntryFormsTypeOK
  <2>1. row \in EntryRows /\ elsewhere \subseteq Names /\ ofAgents \subseteq Names /\ ofReleases \subseteq Names
    BY DEF EntryFormsInit
  <2>2. listed \in [Kinds -> SUBSET Names] /\ page = "none" /\ form \in Forms /\ options = {}
    BY FormsAre DEF EntryFormsInit
  <2>3. request \in PageRequests /\ entryRead \in Forms /\ groupsRead = {} /\ added = NoText /\ sent \in Forms
    BY FormsAre, RequestsAre DEF EntryFormsInit
  <2>4. sentAs \in [loaded : BOOLEAN, typed : SUBSET Columns] /\ loaded \in BOOLEAN /\ typed \subseteq Columns /\ written \subseteq Columns
    BY DEF EntryFormsInit, Unsent
  <2>5. loose \subseteq Kinds \X Names
    BY <2>1 DEF EntryFormsInit, Used, Kinds
  <2>6. deleting = NoDeletion /\ writes \in 0 .. MaxWrites
    BY DEF EntryFormsInit
  <2>. QED
    BY <2>1, <2>2, <2>3, <2>4, <2>5, <2>6 DEF EntryFormsTypeOK, PageRequests
<1>2. FormIsItsPage /\ RequestsCarry /\ EntryIsRow /\ DeletedWasUnused
  BY DEF EntryFormsInit, FormIsItsPage, RequestsCarry, EntryIsRow, DeletedWasUnused, NoRequest, Unsent
<1>3. HeldIsListed
  BY FormsAre DEF EntryFormsInit, HeldIsListed, Held, NoRequest
<1>4. SaveKeepsOthers
  BY DEF EntryFormsInit, SaveKeepsOthers
<1>5. UsedIsListed
  BY DEF EntryFormsInit, UsedIsListed, Kinds, Used
<1>. QED
  BY <1>1, <1>2, <1>3, <1>4, <1>5 DEF FormsInv, FormsAreTrue

\* What the invariant says of the departments, the groups and the form, for the steps below.
DepartmentsAreListed ==
  \A name \in Used("department") : name \in listed["department"] \/ <<"department", name>> \in loose
DeployedAreListed ==
  \A name \in Used("deployment") : name \in listed["deployment"] \/ <<"deployment", name>> \in loose

LEMMA UsedIsListedBoth == UsedIsListed <=> DepartmentsAreListed /\ DeployedAreListed
  BY DEF UsedIsListed, DepartmentsAreListed, DeployedAreListed, Kinds

\* The steps by which the page asks and is answered.
LEMMA OpenStep ==
  ASSUME FormsInv, OpenEdit \/ OpenAdd
  PROVE  FormsInv'
<1>. USE DEF FormsInv
<1>1. PICK kind \in {"edit", "add"}, calls \in {{"entry", "groups"}, {"groups"}} : OpenPage(kind, calls)
  BY DEF OpenEdit, OpenAdd
<1>. DEFINE q == [c \in DOMAIN NoRequest |-> IF c \in calls THEN "asked" ELSE "none"]
<1>2. request' = q /\ request' \in PageRequests /\ q \in PageRequests
  BY <1>1, OpenedRequestIs DEF OpenPage
<1>3. request'.entry \in {"asked", "none"} /\ request'.groups = "asked" /\ request'.add = "none" /\ request'.save = "none"
  BY <1>2, RequestsAre DEF PageRequestKinds
<1>4. EntryFormsTypeOK'
  BY <1>1, <1>2, EntryFormsAssumption DEF EntryFormsTypeOK, OpenPage, Write, PageRequests, tableVars, useVars, carried, formHistory
<1>5. FormIsItsPage'
  BY <1>1, <1>3 DEF FormIsItsPage, OpenPage, formHistory
<1>6. EntryIsRow' /\ DeletedWasUnused'
  BY <1>1, <1>3 DEF EntryIsRow, DeletedWasUnused, OpenPage
<1>7. HeldIsListed'
  <2>1. ASSUME NEW name \in Names, Held(name)' PROVE Held(name)
    BY <2>1, <1>1, <1>3 DEF Held, OpenPage, carried
  <2>. QED
    BY <2>1, <1>1 DEF HeldIsListed, OpenPage, tableVars
<1>8. SaveKeepsOthers'
  BY <1>1, <1>3 DEF SaveKeepsOthers, FormIsItsPage, OpenPage, formHistory
<1>9. UsedIsListed'
  BY <1>1 DEF FormsAreTrue, UsedIsListed, Used, OpenPage, tableVars, useVars
<1>10. RequestsCarry'
  BY <1>1, <1>3 DEF RequestsCarry, OpenPage, carried
<1>. QED
  BY <1>10, <1>4, <1>5, <1>6, <1>7, <1>8, <1>9 DEF FormsAreTrue

LEMMA LeaveStep == ASSUME FormsInv, Leave PROVE FormsInv'
<1>. USE DEF FormsInv
<1>1. EntryFormsTypeOK'
  BY RequestsAre, FormsAre DEF EntryFormsTypeOK, Leave, PageRequests, tableVars, useVars, Unsent
<1>2. FormIsItsPage'
  BY DEF FormIsItsPage, Leave, Unsent, NoRequest
<1>3. EntryIsRow' /\ DeletedWasUnused' /\ SaveKeepsOthers'
  BY DEF EntryIsRow, DeletedWasUnused, SaveKeepsOthers, Leave
<1>4. HeldIsListed'
  BY FormsAre, EntryFormsAssumption DEF HeldIsListed, Held, Leave, NoRequest
<1>5. UsedIsListed'
  BY DEF FormsAreTrue, UsedIsListed, Used, Leave, tableVars, useVars
<1>6. RequestsCarry'
  BY DEF RequestsCarry, Leave, NoRequest
<1>. QED
  BY <1>6, <1>1, <1>2, <1>3, <1>4, <1>5 DEF FormsAreTrue

LEMMA ReadEntryStep == ASSUME FormsInv, ReadEntry PROVE FormsInv'
<1>. USE DEF FormsInv
<1>0. request \in PageRequests /\ request' = [request EXCEPT !.entry = "read"]
  BY DEF EntryFormsTypeOK, ReadEntry, PageRequests
<1>1. request' \in PageRequests /\ request'.entry = "read" /\ \A c \in PageRequestKinds \ {"entry"} : request'[c] = request[c]
  BY <1>0 DEF PageRequests, PageRequestKinds
<1>2. EntryFormsTypeOK'
  BY <1>1, FormsAre DEF EntryFormsTypeOK, ReadEntry, PageRequests, tableVars, useVars
<1>3. FormIsItsPage'
  BY <1>1, RequestsAre DEF FormIsItsPage, ReadEntry, PageRequestKinds
<1>4. EntryIsRow' /\ DeletedWasUnused'
  BY DEF EntryIsRow, DeletedWasUnused, ReadEntry, tableVars, useVars
<1>5. HeldIsListed'
  <2>1. ASSUME NEW name \in Names, Held(name)' PROVE Held(name) \/ name \in Used("department")
    BY <2>1, <1>1 DEF Held, ReadEntry, PageRequestKinds, Used
  <2>. QED
    BY <2>1, UsedIsListedBoth DEF HeldIsListed, FormsAreTrue, DepartmentsAreListed, ReadEntry, tableVars
<1>6. SaveKeepsOthers'
  BY <1>1 DEF SaveKeepsOthers, FormIsItsPage, ReadEntry, PageRequestKinds
<1>7. UsedIsListed'
  BY DEF FormsAreTrue, UsedIsListed, Used, ReadEntry, tableVars, useVars
<1>8. RequestsCarry'
  BY <1>1 DEF RequestsCarry, ReadEntry, PageRequestKinds
<1>. QED
  BY <1>8, <1>2, <1>3, <1>4, <1>5, <1>6, <1>7 DEF FormsAreTrue

LEMMA AnswerEntryStep == ASSUME FormsInv, AnswerEntry PROVE FormsInv'
<1>. USE DEF FormsInv
<1>0. request \in PageRequests /\ request' = [request EXCEPT !.entry = "none"]
  BY DEF EntryFormsTypeOK, AnswerEntry, PageRequests
<1>1. request' \in PageRequests /\ request'.entry = "none" /\ \A c \in PageRequestKinds \ {"entry"} : request'[c] = request[c]
  BY <1>0 DEF PageRequests, PageRequestKinds
<1>2. EntryFormsTypeOK'
  BY <1>1, FormsAre DEF EntryFormsTypeOK, AnswerEntry, PageRequests, tableVars, useVars
<1>3. page # "none"
  BY RequestsAre DEF FormIsItsPage, AnswerEntry, NoRequest
<1>4. FormIsItsPage'
  BY <1>1, <1>3 DEF FormIsItsPage, AnswerEntry
<1>5. EntryIsRow' /\ DeletedWasUnused'
  BY <1>1 DEF EntryIsRow, DeletedWasUnused, AnswerEntry
<1>6. HeldIsListed'
  <2>1. ASSUME NEW name \in Names, Held(name)' PROVE Held(name)
    <3>1. request'.groups = request.groups /\ request'.add = request.add /\ request'.save = request.save
      BY <1>1 DEF PageRequestKinds
    <3>. QED
      BY <2>1, <3>1, <1>1 DEF Held, AnswerEntry
  <2>. QED
    BY <2>1 DEF HeldIsListed, AnswerEntry, tableVars
<1>7. SaveKeepsOthers'
  BY <1>1 DEF SaveKeepsOthers, FormsAreTrue, EntryIsRow, FormIsItsPage, AnswerEntry, PageRequestKinds, tableVars, useVars
<1>8. UsedIsListed'
  BY DEF FormsAreTrue, UsedIsListed, Used, AnswerEntry, tableVars, useVars
<1>9. RequestsCarry'
  BY <1>1 DEF RequestsCarry, AnswerEntry, PageRequestKinds
<1>. QED
  BY <1>9, <1>2, <1>4, <1>5, <1>6, <1>7, <1>8 DEF FormsAreTrue

LEMMA GroupsStep == ASSUME FormsInv, ReadGroups \/ AnswerGroups PROVE FormsInv'
<1>. USE DEF FormsInv
<1>0. PICK at \in {"read", "none"} :
        request \in PageRequests /\ request' = [request EXCEPT !.groups = at] /\ (AnswerGroups => at = "none")
  BY DEF EntryFormsTypeOK, ReadGroups, AnswerGroups, PageRequests
<1>1. request' \in PageRequests /\ request'.groups = at /\ \A c \in PageRequestKinds \ {"groups"} : request'[c] = request[c]
  BY <1>0 DEF PageRequests, PageRequestKinds
<1>2. EntryFormsTypeOK'
  BY <1>1 DEF EntryFormsTypeOK, ReadGroups, AnswerGroups, PageRequests, tableVars, useVars, formHistory, Kinds
<1>3. page # "none"
  BY RequestsAre DEF FormIsItsPage, ReadGroups, AnswerGroups, NoRequest
<1>4. request'.entry = request.entry /\ request'.add = request.add /\ request'.save = request.save
  BY <1>1 DEF PageRequestKinds
<1>5. FormIsItsPage'
  BY <1>4, <1>3 DEF FormIsItsPage, ReadGroups, AnswerGroups, formHistory
<1>6. EntryIsRow' /\ DeletedWasUnused'
  BY <1>4 DEF EntryIsRow, DeletedWasUnused, ReadGroups, AnswerGroups, tableVars, useVars, formHistory
<1>7. HeldIsListed'
  <2>1. ASSUME NEW name \in Names, Held(name)' PROVE Held(name) \/ name \in listed["department"]
    <3>1. CASE ReadGroups
      BY <2>1, <3>1, <1>4 DEF Held, ReadGroups
    <3>2. CASE AnswerGroups
      BY <2>1, <3>2, <1>4, <1>1, <1>0 DEF Held, AnswerGroups
    <3>. QED
      BY <3>1, <3>2
  <2>. QED
    BY <2>1 DEF HeldIsListed, ReadGroups, AnswerGroups, tableVars
<1>8. SaveKeepsOthers'
  BY <1>4 DEF SaveKeepsOthers, FormsAreTrue, ReadGroups, AnswerGroups, tableVars, useVars, formHistory
<1>9. UsedIsListed'
  BY DEF FormsAreTrue, UsedIsListed, Used, ReadGroups, AnswerGroups, tableVars, useVars
<1>10. RequestsCarry'
  BY <1>4 DEF RequestsCarry, ReadGroups, AnswerGroups
<1>. QED
  BY <1>10, <1>2, <1>5, <1>6, <1>7, <1>8, <1>9 DEF FormsAreTrue

LEMMA FailureStep == ASSUME FormsInv, NEW kind \in PageRequestKinds, RequestFails(kind) PROVE FormsInv'
<1>. USE DEF FormsInv
<1>1. request \in PageRequests /\ request' = [request EXCEPT ![kind] = "none"]
  BY DEF EntryFormsTypeOK, RequestFails, PageRequests
<1>2. /\ request' \in PageRequests
      /\ \A c \in PageRequestKinds : request'[c] \in {request[c], "none"}
  BY <1>1, RequestsAre DEF PageRequests, PageRequestKinds
<1>3. EntryFormsTypeOK'
  BY <1>2, EntryFormsAssumption DEF EntryFormsTypeOK, RequestFails, Write, PageRequests, tableVars, useVars, carried, formHistory
<1>4. page # "none"
  BY RequestsAre DEF FormIsItsPage, RequestFails
<1>5. /\ request'.entry \in {request.entry, "none"} /\ request'.groups \in {request.groups, "none"}
      /\ request'.add \in {request.add, "none"} /\ request'.save \in {request.save, "none"}
  BY <1>2 DEF PageRequestKinds
<1>6. FormIsItsPage'
  BY <1>4, <1>5 DEF FormIsItsPage, RequestFails, formHistory
<1>7. EntryIsRow' /\ DeletedWasUnused'
  BY <1>5 DEF EntryIsRow, DeletedWasUnused, RequestFails, tableVars, useVars, formHistory, carried
<1>8. HeldIsListed'
  <2>1. ASSUME NEW name \in Names, Held(name)' PROVE Held(name)
    BY <2>1, <1>5 DEF Held, RequestFails, carried
  <2>. QED
    BY <2>1 DEF HeldIsListed, RequestFails, tableVars
<1>9. SaveKeepsOthers'
  BY <1>5 DEF SaveKeepsOthers, FormsAreTrue, RequestFails, tableVars, useVars, formHistory, carried
<1>10. UsedIsListed'
  BY DEF FormsAreTrue, UsedIsListed, Used, RequestFails, tableVars, useVars
<1>11. RequestsCarry'
  BY <1>5 DEF RequestsCarry, RequestFails, carried
<1>. QED
  BY <1>11, <1>3, <1>6, <1>7, <1>8, <1>9, <1>10 DEF FormsAreTrue

\* What the user does in the form.
LEMMA TypeStep == ASSUME FormsInv, NEW c \in Columns, NEW value \in Offered(c), Type(c, value) PROVE FormsInv'
<1>. USE DEF FormsInv
<1>1. value \in (IF c = "ip" THEN {"old", "new", NoText} ELSE IF c = "os" THEN Systems \cup {NoText} ELSE options \cup {form.department, NoText})
  BY FormsAre DEF Offered
<1>2. form \in Forms /\ options \subseteq Names /\ form' = [form EXCEPT ![c] = value]
  BY DEF EntryFormsTypeOK, Type
<1>3. form' \in Forms
  BY <1>1, <1>2, FormsAre DEF Forms
<1>4. form'.department \in options \cup {form.department, NoText} /\ \A d \in Columns \ {c} : form'[d] = form[d]
  BY <1>1, <1>2, FormsAre DEF Forms
<1>5. EntryFormsTypeOK'
  BY <1>3, EntryFormsAssumption DEF EntryFormsTypeOK, Type, Write, tableVars, useVars, carried
<1>6. FormIsItsPage' /\ EntryIsRow' /\ DeletedWasUnused'
  BY DEF FormIsItsPage, EntryIsRow, DeletedWasUnused, Type, tableVars, useVars, carried
<1>7. HeldIsListed'
  <2>1. ASSUME NEW name \in Names, Held(name)' PROVE Held(name)
    BY <2>1, <1>4, EntryFormsAssumption DEF Held, Type, carried
  <2>. QED
    BY <2>1 DEF HeldIsListed, Type, tableVars
<1>8. SaveKeepsOthers'
  BY <1>4 DEF SaveKeepsOthers, FormsAreTrue, Type, tableVars, useVars, carried
<1>9. UsedIsListed'
  BY DEF FormsAreTrue, UsedIsListed, Used, Type, tableVars, useVars
<1>10. RequestsCarry'
  BY DEF RequestsCarry, Type, carried
<1>. QED
  BY <1>10, <1>5, <1>6, <1>7, <1>8, <1>9 DEF FormsAreTrue

LEMMA AddGroupStep == ASSUME FormsInv, NEW name \in Names, AddGroup(name) PROVE FormsInv'
<1>. USE DEF FormsInv
<1>0. request \in PageRequests /\ request' = [request EXCEPT !.add = "asked"]
  BY DEF EntryFormsTypeOK, AddGroup, PageRequests
<1>1. /\ request' \in PageRequests /\ request'.add = "asked" /\ request'.entry = request.entry
      /\ request'.groups = request.groups /\ request'.save = request.save
  BY <1>0 DEF PageRequests
<1>2. EntryFormsTypeOK'
  BY <1>1, EntryFormsAssumption DEF EntryFormsTypeOK, AddGroup, Write, PageRequests, tableVars, useVars, formHistory
<1>3. FormIsItsPage' /\ EntryIsRow' /\ DeletedWasUnused'
  BY <1>1 DEF FormIsItsPage, EntryIsRow, DeletedWasUnused, AddGroup, tableVars, useVars, formHistory
<1>4. HeldIsListed'
  <2>1. ASSUME NEW n \in Names, Held(n)' PROVE Held(n)
    BY <2>1, <1>1 DEF Held, AddGroup
  <2>. QED
    BY <2>1 DEF HeldIsListed, AddGroup, tableVars
<1>5. SaveKeepsOthers'
  BY <1>1 DEF SaveKeepsOthers, FormsAreTrue, AddGroup, tableVars, useVars, formHistory
<1>6. UsedIsListed'
  BY DEF FormsAreTrue, UsedIsListed, Used, AddGroup, tableVars, useVars
<1>7. RequestsCarry'
  BY <1>1 DEF RequestsCarry, AddGroup
<1>. QED
  BY <1>7, <1>2, <1>3, <1>4, <1>5, <1>6 DEF FormsAreTrue

LEMMA InsertAddedStep == ASSUME FormsInv, InsertAdded PROVE FormsInv'
<1>. USE DEF FormsInv
<1>0. PICK at \in {"none", "done"} :
        /\ request \in PageRequests /\ request' = [request EXCEPT !.add = at]
        /\ at = "done" => added \in listed["department"]'
  BY DEF EntryFormsTypeOK, InsertAdded, PageRequests, Kinds
<1>1. /\ request' \in PageRequests /\ request'.add = at /\ request'.entry = request.entry
      /\ request'.groups = request.groups /\ request'.save = request.save
  BY <1>0 DEF PageRequests
<1>2. added \in Names /\ request.add = "asked"
  BY DEF RequestsCarry, InsertAdded
<1>3. listed \in [Kinds -> SUBSET Names] /\ listed' = [listed EXCEPT !["department"] = @ \cup {added}]
  BY DEF EntryFormsTypeOK, InsertAdded
<1>4. listed' \in [Kinds -> SUBSET Names] /\ \A kind \in Kinds : listed[kind] \subseteq listed'[kind]
  BY <1>2, <1>3 DEF Kinds
<1>5. EntryFormsTypeOK'
  BY <1>1, <1>4 DEF EntryFormsTypeOK, InsertAdded, PageRequests, useVars, carried, formHistory
<1>6. FormIsItsPage' /\ EntryIsRow' /\ DeletedWasUnused' /\ RequestsCarry'
  <2>1. page # "none"
    BY <1>2 DEF FormIsItsPage, NoRequest
  <2>. QED
    BY <2>1, <1>1, <1>2 DEF FormIsItsPage, EntryIsRow, DeletedWasUnused, RequestsCarry, InsertAdded, useVars, carried, formHistory
<1>7. HeldIsListed'
  <2>1. ASSUME NEW name \in Names, Held(name)' PROVE Held(name) \/ name \in listed'["department"]
    BY <2>1, <1>0, <1>1 DEF Held, InsertAdded, carried
  <2>. QED
    BY <2>1, <1>4 DEF HeldIsListed, InsertAdded, Kinds
<1>8. SaveKeepsOthers'
  BY <1>1 DEF SaveKeepsOthers, FormsAreTrue, InsertAdded, useVars, formHistory, carried
<1>9. UsedIsListed'
  BY <1>4 DEF FormsAreTrue, UsedIsListed, Used, InsertAdded, useVars
<1>. QED
  BY <1>5, <1>6, <1>7, <1>8, <1>9 DEF FormsAreTrue

LEMMA AnswerAddedStep == ASSUME FormsInv, AnswerAdded PROVE FormsInv'
<1>. USE DEF FormsInv
<1>0. request \in PageRequests /\ request' = [request EXCEPT !.add = "none"] /\ request.add = "done" /\ added \in Names
  BY DEF EntryFormsTypeOK, AnswerAdded, PageRequests, RequestsCarry
<1>1. /\ request' \in PageRequests /\ request'.add = "none" /\ request'.entry = request.entry
      /\ request'.groups = request.groups /\ request'.save = request.save
  BY <1>0 DEF PageRequests
<1>2. form' \in Forms /\ form'.department = added /\ \A d \in Columns \ {"department"} : form'[d] = form[d]
  BY <1>0, FormsAre DEF EntryFormsTypeOK, AnswerAdded, Forms
<1>3. EntryFormsTypeOK'
  BY <1>0, <1>1, <1>2, FormsAre DEF EntryFormsTypeOK, AnswerAdded, PageRequests, tableVars, useVars, carried
<1>4. FormIsItsPage' /\ EntryIsRow' /\ DeletedWasUnused' /\ RequestsCarry'
  <2>1. page # "none"
    BY <1>0 DEF FormIsItsPage, NoRequest
  <2>. QED
    BY <2>1, <1>1 DEF FormIsItsPage, EntryIsRow, DeletedWasUnused, RequestsCarry, AnswerAdded, tableVars, useVars, carried
<1>5. HeldIsListed'
  <2>1. ASSUME NEW name \in Names, Held(name)' PROVE Held(name)
    BY <2>1, <1>0, <1>1, <1>2 DEF Held, AnswerAdded, carried
  <2>. QED
    BY <2>1 DEF HeldIsListed, AnswerAdded, tableVars
<1>6. SaveKeepsOthers'
  BY <1>1, <1>2 DEF SaveKeepsOthers, FormsAreTrue, AnswerAdded, tableVars, useVars, carried
<1>7. UsedIsListed'
  BY DEF FormsAreTrue, UsedIsListed, Used, AnswerAdded, tableVars, useVars
<1>. QED
  BY <1>3, <1>4, <1>5, <1>6, <1>7 DEF FormsAreTrue

LEMMA SaveStep == ASSUME FormsInv, Save PROVE FormsInv'
<1>. USE DEF FormsInv
<1>0. request \in PageRequests /\ request' = [request EXCEPT !.save = "asked"]
  BY DEF EntryFormsTypeOK, Save, PageRequests
<1>1. /\ request' \in PageRequests /\ request'.save = "asked" /\ request'.entry = request.entry
      /\ request'.groups = request.groups /\ request'.add = request.add
  BY <1>0 DEF PageRequests
<1>2. EntryFormsTypeOK'
  BY <1>1, EntryFormsAssumption DEF EntryFormsTypeOK, Save, Body, Write, PageRequests, tableVars, useVars
<1>3. FormIsItsPage' /\ EntryIsRow' /\ DeletedWasUnused' /\ RequestsCarry'
  BY <1>1 DEF FormIsItsPage, EntryIsRow, DeletedWasUnused, RequestsCarry, Save, Body, tableVars, useVars
<1>4. HeldIsListed'
  <2>1. ASSUME NEW name \in Names, Held(name)' PROVE Held(name)
    BY <2>1, <1>1 DEF Held, Save, Body
  <2>. QED
    BY <2>1 DEF HeldIsListed, Save, tableVars
<1>5. SaveKeepsOthers'
  BY <1>1 DEF SaveKeepsOthers, FormsAreTrue, Save, Body, tableVars, useVars
<1>6. UsedIsListed'
  BY DEF FormsAreTrue, UsedIsListed, Used, Save, tableVars, useVars
<1>. QED
  BY <1>2, <1>3, <1>4, <1>5, <1>6 DEF FormsAreTrue

LEMMA WriteSavedStep == ASSUME FormsInv, WriteSaved PROVE FormsInv'
<1>. USE DEF FormsInv
<1>0. /\ request \in PageRequests /\ request' = [request EXCEPT !.save = "done"] /\ request.save = "asked"
      /\ sent \in EntryRows /\ sent.department \in Names \cup {NoText}
  BY FormsAre DEF EntryFormsTypeOK, WriteSaved, PageRequests, RequestsCarry
<1>1. /\ request' \in PageRequests /\ request'.save = "done" /\ request'.entry = request.entry
      /\ request'.groups = request.groups /\ request'.add = request.add
  BY <1>0 DEF PageRequests
<1>2. row' \in EntryRows /\ elsewhere' \subseteq Names /\ written' \subseteq Columns /\ page # "none"
  BY <1>0 DEF EntryFormsTypeOK, WriteSaved
<1>3. EntryFormsTypeOK'
  BY <1>1, <1>2 DEF EntryFormsTypeOK, WriteSaved, PageRequests, carried
<1>4. FormIsItsPage' /\ DeletedWasUnused' /\ RequestsCarry'
  BY <1>1, <1>2 DEF FormIsItsPage, DeletedWasUnused, RequestsCarry, WriteSaved, carried
<1>5. \A c \in Columns \ written' : row'[c] = row[c] /\ c \notin written
  BY DEF WriteSaved
<1>6. EntryIsRow'
  BY <1>1, <1>5 DEF EntryIsRow, WriteSaved, carried
<1>7. HeldIsListed'
  <2>1. ASSUME NEW name \in Names, Held(name)' PROVE Held(name)
    BY <2>1, <1>1 DEF Held, WriteSaved, carried
  <2>. QED
    BY <2>1 DEF HeldIsListed, WriteSaved
<1>8. SaveKeepsOthers'
  BY <1>1, <1>5 DEF SaveKeepsOthers, FormsAreTrue, WriteSaved, carried
<1>9. UsedIsListed'
  <2>1. ASSUME NEW name \in Used("department")' PROVE name \in Used("department") \/ (name \in Names /\ Held(name))
    BY <2>1, <1>0 DEF Used, Held, WriteSaved
  <2>2. Used("deployment")' = Used("deployment")
    BY DEF Used, WriteSaved
  <2>3. DepartmentsAreListed' /\ DeployedAreListed'
    BY <2>1, <2>2, UsedIsListedBoth DEF FormsAreTrue, HeldIsListed, DepartmentsAreListed, DeployedAreListed, WriteSaved
  <2>. QED
    BY <2>3 DEF UsedIsListed, DepartmentsAreListed, DeployedAreListed, Kinds
<1>. QED
  BY <1>3, <1>4, <1>6, <1>7, <1>8, <1>9 DEF FormsAreTrue

\* Agents and other administrators leave the page and its requests alone.
PageIsLeft == UNCHANGED <<page, form, options, request, carried, loaded, typed, sentAs>>

LEMMA PageStays ==
  ASSUME FormsInv, PageIsLeft
  PROVE  /\ FormIsItsPage' /\ RequestsCarry'
         /\ \A name \in Names : Held(name)' = Held(name)
BY DEF FormsInv, PageIsLeft, FormIsItsPage, RequestsCarry, Held, carried

LEMMA OthersWriteStep ==
  ASSUME FormsInv, NEW c \in Columns, NEW value \in Names \cup Systems \cup {"old", "new", NoText}, OthersWrite(c, value)
  PROVE  FormsInv'
<1>. USE DEF FormsInv
<1>1. value \in (IF c = "ip" THEN {"old", "new"} ELSE IF c = "os" THEN Systems ELSE listed["department"] \cup {NoText})
  BY FormsAre DEF OthersWrite
<1>2. row \in EntryRows /\ listed["department"] \subseteq Names /\ row' = [row EXCEPT ![c] = value]
  BY DEF EntryFormsTypeOK, OthersWrite, Kinds
<1>3. row' \in Forms
  BY <1>1, <1>2, FormsAre DEF Forms, EntryRows
<1>4. row'.ip # NoText
  <2>1. CASE c = "ip"
    <3>1. value = row'.ip /\ value # NoText
      BY <2>1, <1>1, <1>2, EntryFormsAssumption DEF EntryRows, Forms
    <3>. QED
      BY <3>1
  <2>2. CASE c # "ip"
    BY <2>2, <1>2 DEF EntryRows, Forms
  <2>. QED
    BY <2>1, <2>2
<1>5. row' \in EntryRows
  BY <1>3, <1>4 DEF EntryRows
<1>6. row'.department \in {row.department} \cup listed["department"] \cup {NoText} /\ \A d \in Columns \ {c} : row'[d] = row[d]
  BY <1>1, <1>2, FormsAre DEF EntryRows, Forms
<1>7. EntryFormsTypeOK'
  BY <1>5, EntryFormsAssumption DEF EntryFormsTypeOK, OthersWrite, Write, carried
<1>8. PageIsLeft
  BY DEF PageIsLeft, OthersWrite
<1>9. EntryIsRow' /\ DeletedWasUnused' /\ SaveKeepsOthers'
  BY <1>6 DEF EntryIsRow, DeletedWasUnused, SaveKeepsOthers, FormsAreTrue, OthersWrite, carried
<1>10. HeldIsListed'
  BY <1>8, PageStays DEF HeldIsListed, OthersWrite
<1>11. UsedIsListed'
  <2>1. ASSUME NEW name \in Used("department")' PROVE name \in Used("department") \/ name \in listed["department"]
    BY <2>1, <1>6, EntryFormsAssumption DEF Used, OthersWrite
  <2>2. Used("deployment")' = Used("deployment")
    BY DEF Used, OthersWrite
  <2>3. DepartmentsAreListed' /\ DeployedAreListed'
    BY <2>1, <2>2, UsedIsListedBoth DEF FormsAreTrue, DepartmentsAreListed, DeployedAreListed, OthersWrite
  <2>. QED
    BY <2>3 DEF UsedIsListed, DepartmentsAreListed, DeployedAreListed, Kinds
<1>. QED
  BY <1>7, <1>8, PageStays, <1>9, <1>10, <1>11 DEF FormsAreTrue

\* Agents and releases take groups into use, or give them up.
LEMMA AgentGroupsStep ==
  ASSUME FormsInv, NEW name \in Names, NEW names \in SUBSET Names,
         AddAgentGroup(name) \/ RemoveAgentGroup(name) \/ SetReleaseGroups(names)
  PROVE  FormsInv'
<1>. USE DEF FormsInv
<1>0. PageIsLeft /\ UNCHANGED <<row, elsewhere, listed, deleting, written>>
  BY DEF PageIsLeft, AddAgentGroup, RemoveAgentGroup, SetReleaseGroups, formHistory
<1>1. loose \subseteq loose' /\ loose' \subseteq Kinds \X Names
  <2>1. \A n \in Names : loose \subseteq Deploy(n) /\ Deploy(n) \subseteq Kinds \X Names
    BY DEF Deploy, EntryFormsTypeOK, Kinds
  <2>. QED
    <3>1. loose \subseteq Kinds \X Names
      BY DEF EntryFormsTypeOK
    <3>2. CASE AddAgentGroup(name) \/ RemoveAgentGroup(name)
      BY <2>1, <3>1, <3>2 DEF AddAgentGroup, RemoveAgentGroup
    <3>3. CASE SetReleaseGroups(names)
      <4>1. PICK taken : taken = UNION {Deploy(n) : n \in names \ ofReleases}
        OBVIOUS
      <4>2. \A n \in names \ ofReleases : Deploy(n) \subseteq Kinds \X Names
        BY <2>1
      <4>3. taken \subseteq Kinds \X Names
        BY <4>1, <4>2
      <4>4. loose' = loose \cup taken
        BY <3>3, <4>1 DEF SetReleaseGroups
      <4>. QED
        BY <3>1, <4>3, <4>4
    <3>. QED
      BY <3>2, <3>3
<1>2. ofAgents' \subseteq Names /\ ofReleases' \subseteq Names /\ writes' \in 0 .. MaxWrites
  BY EntryFormsAssumption DEF AddAgentGroup, RemoveAgentGroup, SetReleaseGroups, EntryFormsTypeOK, Write
<1>3. EntryFormsTypeOK'
  BY <1>0, <1>1, <1>2 DEF EntryFormsTypeOK, PageIsLeft, carried
<1>4. EntryIsRow' /\ DeletedWasUnused' /\ SaveKeepsOthers'
  BY <1>0 DEF EntryIsRow, DeletedWasUnused, SaveKeepsOthers, FormsAreTrue, PageIsLeft, carried
<1>5. HeldIsListed'
  BY <1>0, <1>1, PageStays DEF HeldIsListed
<1>6. \A n \in Used("deployment")' : n \in Used("deployment") \/ n \in listed["deployment"] \/ <<"deployment", n>> \in loose'
  <2>1. CASE AddAgentGroup(name)
    BY <2>1 DEF Used, AddAgentGroup, Deploy
  <2>2. CASE RemoveAgentGroup(name)
    BY <2>2 DEF Used, RemoveAgentGroup
  <2>3. CASE SetReleaseGroups(names)
    <3>1. ofAgents' = ofAgents /\ ofReleases' = names
      BY <2>3 DEF SetReleaseGroups
    <3>2. loose' = loose \cup UNION {Deploy(n) : n \in names \ ofReleases}
      BY <2>3 DEF SetReleaseGroups
    <3>3. ASSUME NEW n \in names \ ofReleases PROVE n \in listed["deployment"] \/ <<"deployment", n>> \in loose'
      <4>1. n \notin listed["deployment"] => <<"deployment", n>> \in Deploy(n)
        BY DEF Deploy
      <4>. QED
        BY <3>2, <4>1
    <3>. QED
      BY <3>1, <3>3 DEF Used
  <2>. QED
    BY <2>1, <2>2, <2>3
<1>7. Used("department")' = Used("department")
  BY <1>0 DEF Used
<1>8. DepartmentsAreListed' /\ DeployedAreListed'
  BY <1>0, <1>1, <1>6, <1>7, UsedIsListedBoth DEF FormsAreTrue, DepartmentsAreListed, DeployedAreListed
<1>9. UsedIsListed'
  BY <1>8 DEF UsedIsListed, DepartmentsAreListed, DeployedAreListed, Kinds
<1>. QED
  BY <1>0, PageStays, <1>3, <1>4, <1>5, <1>9 DEF FormsAreTrue

\* Groups are created and deleted.
LEMMA GroupListStep ==
  ASSUME FormsInv, NEW kind \in Kinds, NEW name \in Names,
         CreateGroup(kind, name) \/ BeginDelete(kind, name) \/ DeleteFails
  PROVE  FormsInv'
<1>. USE DEF FormsInv
<1>0. PageIsLeft /\ UNCHANGED <<useVars, written, loose>>
  BY DEF PageIsLeft, CreateGroup, BeginDelete, DeleteFails, formHistory, tableVars
<1>1. listed' \in [Kinds -> SUBSET Names] /\ \A k \in Kinds : listed[k] \subseteq listed'[k]
  <2>1. listed \in [Kinds -> SUBSET Names]
    BY DEF EntryFormsTypeOK
  <2>. QED
    BY <2>1 DEF CreateGroup, BeginDelete, DeleteFails, tableVars
<1>2. deleting' \in [kind : Kinds, name : Names, unused : BOOLEAN] \cup {NoDeletion} /\ DeletedWasUnused'
  <2>1. CASE CreateGroup(kind, name) \/ DeleteFails
    BY <2>1 DEF EntryFormsTypeOK, DeletedWasUnused, CreateGroup, DeleteFails
  <2>2. CASE BeginDelete(kind, name)
    <3>1. name \notin Used(kind) /\ deleting' = [kind |-> kind, name |-> name, unused |-> TRUE]
      BY <2>2 DEF BeginDelete, Counted
    <3>. QED
      BY <3>1 DEF DeletedWasUnused
  <2>. QED
    BY <2>1, <2>2
<1>3. EntryFormsTypeOK'
  <2>1. writes' \in 0 .. MaxWrites
    BY EntryFormsAssumption DEF EntryFormsTypeOK, CreateGroup, BeginDelete, DeleteFails, Write
  <2>. QED
    BY <2>1, <1>0, <1>1, <1>2 DEF EntryFormsTypeOK, PageIsLeft, carried, useVars
<1>4. EntryIsRow' /\ SaveKeepsOthers'
  BY <1>0 DEF EntryIsRow, SaveKeepsOthers, FormsAreTrue, PageIsLeft, carried, useVars
<1>5. HeldIsListed'
  BY <1>0, <1>1, PageStays DEF HeldIsListed, Kinds
<1>6. \A k \in Kinds : Used(k)' = Used(k)
  BY <1>0 DEF Used, useVars
<1>7. UsedIsListed'
  BY <1>0, <1>1, <1>6 DEF UsedIsListed, FormsAreTrue
<1>. QED
  BY <1>0, PageStays, <1>2, <1>3, <1>4, <1>5, <1>7 DEF FormsAreTrue

LEMMA DeleteGroupStep == ASSUME FormsInv, DeleteGroup PROVE FormsInv'
<1>. USE DEF FormsInv
<1>. DEFINE name == deleting.name
            kind == deleting.kind
<1>0. PageIsLeft /\ UNCHANGED <<useVars, written, writes>> /\ deleting' = NoDeletion
  BY DEF PageIsLeft, DeleteGroup, formHistory
<1>1. name \in Names /\ kind \in Kinds /\ deleting.unused
  BY DEF EntryFormsTypeOK, DeletedWasUnused, DeleteGroup
<1>2. listed \in [Kinds -> SUBSET Names] /\ listed' = [listed EXCEPT ![kind] = @ \ {name}]
  BY DEF EntryFormsTypeOK, DeleteGroup
<1>3. /\ listed' \in [Kinds -> SUBSET Names]
      /\ \A k \in Kinds : \A n \in listed[k] : n \in listed'[k] \/ (k = kind /\ n = name)
  BY <1>2
<1>4. /\ loose \subseteq loose' /\ loose' \subseteq Kinds \X Names
      /\ name \in Used(kind) \/ (kind = "department" /\ Held(name)) => <<kind, name>> \in loose'
  BY <1>1 DEF EntryFormsTypeOK, DeleteGroup
<1>5. EntryFormsTypeOK' /\ DeletedWasUnused'
  BY <1>0, <1>3, <1>4 DEF EntryFormsTypeOK, DeletedWasUnused, PageIsLeft, carried, useVars
<1>6. EntryIsRow' /\ SaveKeepsOthers'
  BY <1>0 DEF EntryIsRow, SaveKeepsOthers, FormsAreTrue, PageIsLeft, carried, useVars
<1>7. HeldIsListed'
  BY <1>0, <1>3, <1>4, PageStays DEF HeldIsListed, Kinds
<1>8. \A k \in Kinds : Used(k)' = Used(k)
  BY <1>0 DEF Used, useVars
<1>9. UsedIsListed'
  BY <1>3, <1>4, <1>8 DEF UsedIsListed, FormsAreTrue
<1>. QED
  BY <1>0, PageStays, <1>5, <1>6, <1>7, <1>9 DEF FormsAreTrue

LEMMA FormsStep == ASSUME FormsInv, [EntryFormsNext]_entryFormsVars PROVE FormsInv'
<1>1. CASE PageNext
  BY <1>1, OpenStep, LeaveStep, ReadEntryStep, AnswerEntryStep, GroupsStep, FailureStep, TypeStep, AddGroupStep,
     InsertAddedStep, AnswerAddedStep, SaveStep, WriteSavedStep DEF PageNext, PageRequestKinds
<1>2. CASE OthersNext
  <2>1. {} \in SUBSET Names
    OBVIOUS
  <2>2. ASSUME NEW n \in Names, AddAgentGroup(n) \/ RemoveAgentGroup(n) PROVE FormsInv'
    BY <2>1, <2>2, AgentGroupsStep
  <2>3. ASSUME NEW names \in SUBSET Names, SetReleaseGroups(names) PROVE FormsInv'
    <3>1. CASE Names = {}
      <4>1. names = ofReleases
        BY <3>1 DEF FormsInv, EntryFormsTypeOK
      <4>. QED
        BY <4>1, <2>3 DEF SetReleaseGroups
    <3>2. CASE Names # {}
      BY <2>3, <3>2, AgentGroupsStep
    <3>. QED
      BY <3>1, <3>2
  <2>4. CASE DeleteFails
    <3>1. deleting.name \in Names /\ deleting.kind \in Kinds
      BY <2>4 DEF DeleteFails, FormsInv, EntryFormsTypeOK
    <3>. QED
      BY <3>1, <2>4, GroupListStep
  <2>. QED
    BY <1>2, <2>2, <2>3, <2>4, OthersWriteStep, GroupListStep, DeleteGroupStep DEF OthersNext
<1>3. CASE UNCHANGED entryFormsVars
  <2>1. EntryFormsTypeOK'
    BY <1>3 DEF FormsInv, EntryFormsTypeOK, entryFormsVars, tableVars, useVars, carried, formHistory
  <2>2. FormIsItsPage' /\ RequestsCarry' /\ EntryIsRow' /\ DeletedWasUnused'
    BY <1>3 DEF FormsInv, FormIsItsPage, RequestsCarry, EntryIsRow, DeletedWasUnused,
                entryFormsVars, tableVars, useVars, carried, formHistory
  <2>3. PageIsLeft /\ listed' = listed /\ loose' = loose /\ \A k \in Kinds : Used(k)' = Used(k)
    BY <1>3 DEF PageIsLeft, Used, entryFormsVars, tableVars, useVars, carried, formHistory
  <2>4. HeldIsListed'
    BY <2>3, PageStays DEF FormsInv, HeldIsListed
  <2>5. FormsAreTrue'
    <3>1. SaveKeepsOthers'
      BY <1>3 DEF FormsInv, FormsAreTrue, SaveKeepsOthers, entryFormsVars, tableVars, useVars, carried, formHistory
    <3>2. UsedIsListed'
      BY <2>3 DEF FormsInv, FormsAreTrue, UsedIsListed
    <3>. QED
      BY <3>1, <3>2 DEF FormsAreTrue
  <2>. QED
    BY <2>1, <2>2, <2>4, <2>5 DEF FormsInv
<1>. QED
  BY <1>1, <1>2, <1>3 DEF EntryFormsNext

\* What a form writes back was typed into it or is what it read, and a group in use is listed,
\* but for the exceptions of FormsAreTrue (EditIpView.vue, groups.js, deploymentGroups.js).
THEOREM FormsStand == EntryFormsSpec => []FormsAreTrue
<1>1. FormsInv => FormsAreTrue
  BY DEF FormsInv
<1>. QED
  BY <1>1, FormsStart, FormsStep, PTL DEF EntryFormsSpec

(***************************************************************************)
(* The parts beside the queue, of which one moves.                         *)
(***************************************************************************)

PartsInv ==
  /\ part = "tab" => NavigationInv
  /\ part = "forms" => FormsInv
  /\ part = "list" => BlacklistInv
  /\ part = "page" => BlacklistPageInv
  /\ part = "ports" => PortScanInv

LEMMA PartsStart == MCInit => PartsInv
  BY NavigationStarts, FormsStart, BlacklistStarts, PageStarts, PortScanStarts DEF MCInit, PartsInv

LEMMA PartsGoOn == PartsInv /\ [MCNext]_<<part, vars, blacklistVars, pageVars>> => PartsInv'
<1>. SUFFICES ASSUME PartsInv, [MCNext]_<<part, vars, blacklistVars, pageVars>> PROVE PartsInv'
  OBVIOUS
<1>1. UNCHANGED part
  BY DEF MCNext
<1>2. ASSUME part = "tab" PROVE NavigationInv'
  <2>1. [NavigationNext]_navigationVars
    BY <1>2 DEF MCNext, pageVars
  <2>. QED
    BY <1>2, <2>1, NavigationStep DEF PartsInv
<1>3. ASSUME part = "forms" PROVE FormsInv'
  <2>1. [EntryFormsNext]_entryFormsVars
    BY <1>3 DEF MCNext, pageVars
  <2>. QED
    BY <1>3, <2>1, FormsStep DEF PartsInv
<1>4. ASSUME part = "list" PROVE BlacklistInv'
  <2>1. [DnsBlacklistNext]_blacklistVars
    BY <1>4 DEF MCNext
  <2>. QED
    BY <1>4, <2>1, BlacklistStep DEF PartsInv
<1>5. ASSUME part = "page" PROVE BlacklistPageInv'
  <2>1. [BlacklistPageNext]_blacklistPageVars
    BY <1>5 DEF MCNext, pageVars
  <2>. QED
    BY <1>5, <2>1, PageGoesOn DEF PartsInv
<1>6. ASSUME part = "ports" PROVE PortScanInv'
  <2>1. [PortScanNext]_portScanVars
    BY <1>6 DEF MCNext, pageVars
  <2>. QED
    BY <1>6, <2>1, PortScanGoesOn DEF PartsInv
<1>. QED
  BY <1>1, <1>2, <1>3, <1>4, <1>5, <1>6 DEF PartsInv

\* Whichever of the parts moves, and next to the queue, it is correct by what PartsAreSound says of it.
THEOREM PartsStaySound == MCSpec => []PartsAreSound
<1>1. PartsInv => PartsAreSound
  <2>1. NavigationInv => NavigationTypeOK /\ NavigationIsTrue
    BY NavigationIsSound DEF NavigationInv
  <2>2. FormsInv => EntryFormsTypeOK /\ FormsAreTrue
    BY DEF FormsInv
  <2>3. BlacklistInv => DnsBlacklistTypeOK /\ BlacklistIsTrue
    BY BlacklistIsSound DEF BlacklistInv
  <2>4. BlacklistPageInv => BlacklistPageTypeOK /\ ListIsThere
    BY PageIsSound DEF BlacklistPageInv
  <2>5. PortScanInv => PortScanTypeOK /\ ScanIsTrue
    BY PortScanIsTrue DEF PortScanInv
  <2>. QED
    BY <2>1, <2>2, <2>3, <2>4, <2>5 DEF PartsInv, PartsAreSound
<1>. QED
  BY <1>1, PartsStart, PartsGoOn, PTL DEF MCSpec
=============================================================================
