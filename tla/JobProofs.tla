------------------------------ MODULE JobProofs ------------------------------
(***************************************************************************)
(* Proofs about the jobs beside the poll.  Catalog, for any cafes, places, *)
(* spots and bounds: whatever the records, references and snapshots the    *)
(* pipelines are given, and in whatever order they are applied.  Backfill, *)
(* for any months, losses and kills.  SourceSweep, for any places, cells,  *)
(* page sizes and limits, whatever comes or goes while a job reads.        *)
(***************************************************************************)
EXTENDS Catalog, Backfill, SourceSweep, FiniteSetTheorems, FunctionTheorems, WellFoundedInduction, TLAPS

\* What a table given as a partial function is.
LEMMA RowsAreFunctions ==
    ASSUME NEW ids, NEW row, NEW f
    PROVE  f \in Rows(ids, row) <=> DOMAIN f \subseteq ids /\ f \in [DOMAIN f -> row]
  BY DEF Rows

\* Providers divide the places.
LEMMA ProvidersDivide ==
    /\ \A p \in Places : p \in ProviderOf(p)
    /\ \A p \in Places : \A q \in ProviderOf(p) : ProviderOf(q) = ProviderOf(p)
    /\ \A p \in Overture : ProviderOf(p) = Overture
    /\ \A p \in Kakao : ProviderOf(p) = Kakao
    /\ \A p \in Naver : ProviderOf(p) = Naver
  BY CatalogAssumption DEF Places, ProviderOf

\* The rows the pipelines write.
LEMMA RowsAreTyped ==
    /\ \A spot \in SeoulSpots : /\ Row(spot) \in [active : BOOLEAN, spot : SeoulSpots]
                           /\ Row(spot).active = TRUE
    /\ \A row \in [active : BOOLEAN, spot : SeoulSpots] :
          /\ Off(row) \in [active : BOOLEAN, spot : SeoulSpots]
          /\ Off(row).spot = row.spot /\ Off(row).active = FALSE
    /\ \A c \in Cafes, m \in Methods :
          Link(c, m) \in [cafe : Cafes, method : Methods, active : BOOLEAN]
    /\ \A row \in [cafe : Cafes, method : Methods, active : BOOLEAN] :
          Off(row) = [cafe |-> row.cafe, method |-> row.method, active |-> FALSE]
    /\ {"source_primary", "source_direct_url", "naver_exact"} \cup Managed \subseteq Methods
  <1>1. \A row \in [cafe : Cafes, method : Methods, active : BOOLEAN] :
            Off(row) = [cafe |-> row.cafe, method |-> row.method, active |-> FALSE]
    <2>1. SUFFICES ASSUME NEW M, NEW row \in [cafe : Cafes, method : M, active : BOOLEAN]
                   PROVE  Off(row) = [cafe |-> row.cafe, method |-> row.method, active |-> FALSE]
      OBVIOUS
    <2>2. Off(row) \in [cafe : Cafes, method : M, active : BOOLEAN]
      BY DEF Off
    <2>3. Off(row).cafe = row.cafe /\ Off(row).method = row.method /\ Off(row).active = FALSE
      BY DEF Off
    <2> QED
      BY <2>2, <2>3
  <1>2. \A row \in [active : BOOLEAN, spot : SeoulSpots] :
            /\ Off(row) \in [active : BOOLEAN, spot : SeoulSpots]
            /\ Off(row).spot = row.spot /\ Off(row).active = FALSE
    BY DEF Off
  <1>3. \A spot \in SeoulSpots : Row(spot) \in [active : BOOLEAN, spot : SeoulSpots] /\ Row(spot).active = TRUE
    BY DEF Row
  <1>4. \A c \in Cafes, m \in Methods :
            Link(c, m) \in [cafe : Cafes, method : Methods, active : BOOLEAN]
    BY DEF Link
  <1> QED
    BY <1>1, <1>2, <1>3, <1>4 DEF Methods

\* The targets of a Kakao refresh are consistent because of the owners.
LEMMA PrimaryIsConsistent ==
    CatalogTypes /\ OwnershipValid /\ PrimaryIsOwn => TargetsConsistent
  <1> SUFFICES ASSUME CatalogTypes, OwnershipValid, PrimaryIsOwn, NEW k \in Targets
               PROVE  links[k].cafe \in Kakao <=> links[k].method = "source_primary"
    BY DEF TargetsConsistent
  <1>1. k \in DOMAIN links /\ k \in Kakao
    BY DEF Targets
  <1>2. ASSUME links[k].cafe \in Kakao
        PROVE  links[k].method = "source_primary"
    <2> DEFINE c == links[k].cafe
    <2>1. c \in DOMAIN links /\ links[c] = Link(c, "source_primary")
      BY <1>1, <1>2 DEF OwnershipValid
    <2>2. links[c].cafe = c /\ links[c].method = "source_primary"
      BY <2>1 DEF Link
    <2>3. c = k
      BY <1>1, <1>2, <2>1, <2>2, ProvidersDivide DEF OwnershipValid
    <2> QED
      BY <2>2, <2>3
  <1> QED
    BY <1>1, <1>2 DEF PrimaryIsOwn

LEMMA CatalogInitInv == CatalogInit => CatalogInv
  <1> SUFFICES ASSUME CatalogInit PROVE CatalogInv
    OBVIOUS
  <1>1. DOMAIN cafes = {} /\ DOMAIN links = {}
    BY DEF CatalogInit
  <1>2. cafes \in [DOMAIN cafes -> [active : BOOLEAN, spot : SeoulSpots]]
    BY <1>1 DEF CatalogInit
  <1>3. links \in [DOMAIN links -> [cafe : Cafes, method : Methods, active : BOOLEAN]]
    BY <1>1 DEF CatalogInit
  <1>4. CatalogTypes
    BY <1>1, <1>2, <1>3 DEF CatalogTypes, CatalogInit
  <1>5. OvertureFollows /\ OwnershipValid /\ TargetsConsistent
    BY <1>1 DEF OvertureFollows, OwnershipValid, TargetsConsistent, Targets
  <1>6. PrimaryIsOwn /\ FoundIsInsertable
    BY <1>1 DEF PrimaryIsOwn, FoundIsInsertable, CatalogInit
  <1> QED
    BY <1>4, <1>5, <1>6 DEF CatalogInv

----------------------------------------------------------------------------
(* An Overture seed.                                                         *)

Freed(records) == UNION {Left(records, o) : o \in DOMAIN records}
Claimant(records, p) == CHOOSE o \in DOMAIN records : records[o].direct = p

LEMMA RecordsAre ==
    ASSUME NEW records \in Records
    PROVE  /\ DOMAIN records \subseteq Overture
           /\ \A o \in DOMAIN records :
                 /\ records[o].spot \in SeoulSpots
                 /\ records[o].direct \in Kakao \cup Naver \cup {None}
           /\ \A o, n \in DOMAIN records :
                 records[o].direct = records[n].direct => o = n \/ records[o].direct = None
  <1> DEFINE record == [spot : SeoulSpots, direct : Kakao \cup Naver \cup {None}]
  <1>1. records \in Rows(Overture, record)
    BY DEF Records
  <1>2. DOMAIN records \subseteq Overture /\ records \in [DOMAIN records -> record]
    <2> HIDE DEF record
    <2> QED
      BY <1>1, RowsAreFunctions
  <1>3. \A o \in DOMAIN records : records[o] \in record
    BY <1>2
  <1> QED
    BY <1>2, <1>3 DEF Records

\* The places named are no Overture ids, and each has one claimant.
LEMMA ClaimantsAre ==
    ASSUME NEW records \in Records
    PROVE  /\ Named(records) \subseteq Kakao \cup Naver
           /\ Named(records) \cap Overture = {}
           /\ \A p \in Named(records) :
                 /\ Claimant(records, p) \in DOMAIN records
                 /\ records[Claimant(records, p)].direct = p
  <1>1. Named(records) \subseteq Kakao \cup Naver
    BY RecordsAre DEF Named
  <1>2. ASSUME NEW p \in Named(records)
        PROVE  \E o \in DOMAIN records : records[o].direct = p
    BY DEF Named
  <1> QED
    BY <1>1, <1>2, CatalogAssumption DEF Claimant

\* A place is left only by the cafe that has it, and only while its link came
\* from a website.
LEMMA LeftAre ==
    ASSUME NEW records \in Records, NEW STATE earlier,
           \A o \in DOMAIN records : Synced(records, o, earlier)
    PROVE  \A p \in Freed(records) :
              /\ p \in DOMAIN links
              /\ links[p].method = "source_direct_url"
              /\ \E o \in DOMAIN records : links[p].cafe = o
  BY DEF Freed, Left, Held, Synced

\* The links after a seed, place by place.
LEMMA SeedLinks ==
    ASSUME NEW records \in Records, Seed(records),
           \A o \in DOMAIN records : Synced(records, o, Freed(records))
    PROVE  /\ DOMAIN links' = (DOMAIN links \ Freed(records)) \cup DOMAIN records \cup Named(records)
           /\ \A p \in DOMAIN records : links'[p] = Link(p, "source_primary")
           /\ \A p \in Named(records) :
                 /\ links'[p].cafe = Claimant(records, p)
                 /\ \/ p \in DOMAIN links /\ links'[p] = links[p]
                                          /\ links[p].method # "source_direct_url"
                    \/ links'[p] = Link(Claimant(records, p), "source_direct_url")
                 /\ /\ p \in DOMAIN links /\ links[p].cafe = Claimant(records, p)
                    /\ links[p].method # "source_direct_url"
                    => links'[p] = links[p]
           /\ \A p \in DOMAIN links' \ (DOMAIN records \cup Named(records)) :
                 p \in DOMAIN links \ Freed(records) /\ links'[p] = Retained(records, p)
  <1> DEFINE kept(p) == p \in DOMAIN links /\ links[p].cafe = Claimant(records, p)
                        /\ links[p].method # "source_direct_url"
             row(p) == IF p \in DOMAIN records THEN Link(p, "source_primary")
                       ELSE IF p \notin Named(records) THEN Retained(records, p)
                       ELSE IF kept(p) THEN links[p]
                       ELSE Link(Claimant(records, p), "source_direct_url")
             places == (DOMAIN links \ Freed(records)) \cup DOMAIN records \cup Named(records)
  <1>1. links' = [p \in places |-> row(p)]
    BY DEF Seed, Freed, Claimant
  <1>2. Named(records) \cap DOMAIN records = {}
    BY ClaimantsAre, RecordsAre
  <1>3. ASSUME NEW p \in Named(records)
        PROVE  /\ links'[p].cafe = Claimant(records, p)
               /\ \/ p \in DOMAIN links /\ links'[p] = links[p]
                                        /\ links[p].method # "source_direct_url"
                  \/ links'[p] = Link(Claimant(records, p), "source_direct_url")
               /\ kept(p) => links'[p] = links[p]
    <2>1. links'[p] = IF kept(p) THEN links[p]
                      ELSE Link(Claimant(records, p), "source_direct_url")
      BY <1>1, <1>2
    <2> QED
      BY <2>1 DEF Link
  <1>4. \A p \in DOMAIN links' \ (DOMAIN records \cup Named(records)) :
            p \in DOMAIN links \ Freed(records) /\ links'[p] = Retained(records, p)
    BY <1>1
  <1>5. DOMAIN links' = places /\ \A p \in DOMAIN records : links'[p] = Link(p, "source_primary")
    BY <1>1
  <1> QED
    BY <1>3, <1>4, <1>5

\* The link of a known place that no record names keeps its cafe and method.
LEMMA RetainedIs ==
    ASSUME CatalogInv, NEW records \in Records, NEW p \in DOMAIN links
    PROVE  /\ Retained(records, p) \in [cafe : Cafes, method : Methods, active : BOOLEAN]
           /\ Retained(records, p).cafe = links[p].cafe
           /\ Retained(records, p).method = links[p].method
           /\ Retained(records, p).active =>
                 /\ links[p].active
                 /\ Retained(records, p) = links[p]
  <1>1. links[p] \in [cafe : Cafes, method : Methods, active : BOOLEAN]
    BY DEF CatalogInv, CatalogTypes
  <1>2. Retained(records, p) \in {links[p], Off(links[p])}
    BY DEF Retained
  <1> QED
    BY <1>1, <1>2 DEF Off

LEMMA SeedInv ==
    ASSUME CatalogInv, NEW records \in Records, Seed(records),
           \A o \in DOMAIN records : Synced(records, o, Freed(records))
    PROVE  CatalogInv'
  <1> DEFINE cafe == [active : BOOLEAN, spot : SeoulSpots]
             link == [cafe : Cafes, method : Methods, active : BOOLEAN]
  <1>1. /\ DOMAIN cafes' = DOMAIN cafes \cup DOMAIN records
        /\ \A c \in DOMAIN records : cafes'[c] = Row(records[c].spot)
        /\ \A c \in DOMAIN cafes \ DOMAIN records :
              cafes'[c] = IF c \in Missing(records) THEN Off(cafes[c]) ELSE cafes[c]
        /\ cafes' \in [DOMAIN cafes' -> {cafes'[c] : c \in DOMAIN cafes'}]
        /\ found' = found
    BY DEF Seed
  <1>2. /\ CatalogTypes
        /\ \A c \in DOMAIN cafes : cafes[c] \in cafe
        /\ \A p \in DOMAIN links : links[p] \in link
    BY DEF CatalogInv, CatalogTypes
  <1>r. /\ DOMAIN records \subseteq Overture
        /\ \A o \in DOMAIN records : records[o].spot \in SeoulSpots
    BY RecordsAre
  <1>n. /\ Named(records) \subseteq (Kakao \cup Naver) \ Overture
        /\ \A p \in Named(records) : Claimant(records, p) \in DOMAIN records
    BY ClaimantsAre
  <1>l. /\ DOMAIN links' = (DOMAIN links \ Freed(records)) \cup DOMAIN records \cup Named(records)
        /\ \A p \in DOMAIN records : links'[p] = Link(p, "source_primary")
        /\ \A p \in Named(records) :
              /\ links'[p].cafe = Claimant(records, p)
              /\ \/ p \in DOMAIN links /\ links'[p] = links[p]
                                       /\ links[p].method # "source_direct_url"
                 \/ links'[p] = Link(Claimant(records, p), "source_direct_url")
        /\ \A p \in DOMAIN links' \ (DOMAIN records \cup Named(records)) :
              p \in DOMAIN links \ Freed(records) /\ links'[p] = Retained(records, p)
    BY SeedLinks
  <1>f. \A p \in Freed(records) :
            p \in DOMAIN links /\ links[p].method = "source_direct_url"
    BY LeftAre
  <1>3. \A c \in DOMAIN cafes' : cafes'[c] \in cafe
    <2>1. ASSUME NEW c \in DOMAIN records
          PROVE  cafes'[c] \in cafe
      BY <1>1, <1>r, RowsAreTyped
    <2>2. ASSUME NEW c \in DOMAIN cafes \ DOMAIN records
          PROVE  cafes'[c] \in cafe
      <3>1. cafes[c] \in cafe /\ Off(cafes[c]) \in cafe
        BY <1>2, RowsAreTyped
      <3>2. cafes'[c] \in {cafes[c], Off(cafes[c])}
        BY <1>1
      <3> HIDE DEF cafe
      <3> QED
        BY <3>1, <3>2
    <2> QED
      BY <1>1, <2>1, <2>2
  <1>4. \A p \in DOMAIN links' : links'[p] \in link
    <2>1. ASSUME NEW p \in DOMAIN records
          PROVE  links'[p] \in link
      BY <1>l, <1>r, RowsAreTyped DEF Cafes
    <2>2. ASSUME NEW p \in Named(records)
          PROVE  links'[p] \in link
      BY <1>l, <1>n, <1>r, <1>2, RowsAreTyped DEF Cafes
    <2>3. ASSUME NEW p \in DOMAIN links' \ (DOMAIN records \cup Named(records))
          PROVE  links'[p] \in link
      BY <1>l, RetainedIs
    <2> QED
      BY <2>1, <2>2, <2>3, <1>l
  <1>5. CatalogTypes'
    <2>1. DOMAIN cafes' \subseteq Cafes /\ DOMAIN links' \subseteq Places
      BY <1>1, <1>2, <1>l, <1>r, <1>n DEF CatalogTypes, Cafes, Places
    <2>2. cafes' \in [DOMAIN cafes' -> cafe]
      BY <1>1, <1>3
    <2>3. links' \in [DOMAIN links' -> link]
      BY <1>4 DEF Seed
    <2> QED
      BY <1>1, <1>2, <2>1, <2>2, <2>3 DEF CatalogTypes
  <1>6. \A p \in DOMAIN links' \ (DOMAIN records \cup Named(records)) :
            /\ p \in DOMAIN links \ Freed(records)
            /\ links'[p].cafe = links[p].cafe
            /\ links'[p].method = links[p].method
    BY <1>l, RetainedIs
  <1>7. PrimaryIsOwn'
    <2>1. ASSUME NEW p \in DOMAIN records
          PROVE  links'[p].method = "source_primary" /\ links'[p].cafe = p
      BY <1>l DEF Link
    <2>2. ASSUME NEW p \in Named(records)
          PROVE  /\ p \notin Overture
                 /\ links'[p].method = "source_primary" => links'[p].cafe = p
      BY <1>l, <1>n DEF Link, CatalogInv, PrimaryIsOwn
    <2> QED
      BY <1>6, <2>1, <2>2 DEF PrimaryIsOwn, CatalogInv
  <1>8. FoundIsInsertable'
    BY <1>1 DEF CatalogInv, FoundIsInsertable
  <1>9. OvertureFollows'
    <2>1. ASSUME NEW o \in DOMAIN records
          PROVE  /\ o \in DOMAIN links'
                 /\ links'[o] = [cafe |-> o, method |-> "source_primary",
                                active |-> cafes'[o].active]
      <3>1. cafes'[o].active = TRUE
        BY <1>1, <1>r, RowsAreTyped
      <3>2. o \in DOMAIN links' /\ links'[o] = Link(o, "source_primary")
        BY <1>l
      <3> QED
        BY <3>1, <3>2 DEF Link
    <2>2. ASSUME NEW o \in DOMAIN cafes \cap Overture, o \notin DOMAIN records
          PROVE  /\ o \in DOMAIN links'
                 /\ links'[o] = [cafe |-> o, method |-> "source_primary",
                                active |-> cafes'[o].active]
      <3>1. /\ o \in DOMAIN links
            /\ links[o] = [cafe |-> o, method |-> "source_primary", active |-> cafes[o].active]
        BY <2>2 DEF CatalogInv, OvertureFollows
      <3>2. o \notin Named(records) /\ o \notin Freed(records)
        BY <1>f, <1>n, <3>1
      <3>3. o \in DOMAIN links' /\ links'[o] = Retained(records, o)
        BY <1>l, <2>2, <3>1, <3>2
      <3>4. cafes[o] \in cafe
        BY <1>2
      <3>5. CASE o \in Missing(records)
        <4>1. cafes'[o].active = FALSE
          BY <1>1, <2>2, <3>4, <3>5, RowsAreTyped
        <4>2. Retained(records, o) = IF cafes[o].active THEN Off(links[o]) ELSE links[o]
          BY <3>1, <3>5 DEF Retained
        <4>3. cafes[o].active \in BOOLEAN
          BY <3>4
        <4>4. Off(links[o]) = [cafe |-> o, method |-> "source_primary", active |-> FALSE]
          <5>1. links[o] \in [cafe : Cafes, method : Methods, active : BOOLEAN]
            BY <1>2, <3>1
          <5>2. Off(links[o]) = [cafe |-> links[o].cafe, method |-> links[o].method, active |-> FALSE]
            BY <5>1, RowsAreTyped
          <5> QED
            BY <3>1, <5>2
        <4>5. ~cafes[o].active => links[o] = [cafe |-> o, method |-> "source_primary", active |-> FALSE]
          BY <3>1, <4>3
        <4> QED
          BY <3>1, <3>3, <4>1, <4>2, <4>4, <4>5
      <3>6. CASE o \notin Missing(records)
        <4>1. cafes'[o] = cafes[o]
          BY <1>1, <2>2, <3>6
        <4>2. Retained(records, o) = links[o]
          BY <2>2, <3>1, <3>6 DEF Retained
        <4> QED
          BY <3>1, <3>3, <4>1, <4>2
      <3> QED
        BY <3>5, <3>6
    <2> QED
      BY <1>1, <2>1, <2>2 DEF OvertureFollows
  <1>10. OwnershipValid'
    <2>1. ASSUME NEW p \in DOMAIN links'
          PROVE  links'[p].cafe \in DOMAIN cafes'
      BY <1>1, <1>6, <1>l, <1>n DEF Link, CatalogInv, OwnershipValid
    <2>2. ASSUME NEW p \in Named(records), NEW q \in DOMAIN links', p # q,
                 links'[p].cafe = links'[q].cafe, ProviderOf(p) = ProviderOf(q)
          PROVE  FALSE
      <3> DEFINE o == Claimant(records, p)
      <3>1. /\ o \in DOMAIN records /\ records[o].direct = p /\ links'[p].cafe = o
            /\ p # None /\ p \in Places /\ q \in Places
        BY ClaimantsAre, <1>l, <1>n, <1>5, CatalogAssumption DEF CatalogTypes, Places
      <3>2. q \in ProviderOf(p) /\ q \notin Overture
        <4>1. q \in ProviderOf(q) /\ ProviderOf(q) = ProviderOf(p)
          BY <2>2, <3>1, ProvidersDivide
        <4>2. p \in Naver \cup Kakao /\ p \notin Overture
          BY <2>2, <1>n, CatalogAssumption
        <4>3. q \in Overture => ProviderOf(q) = Overture
          BY ProvidersDivide
        <4>4. p \in ProviderOf(p)
          BY <3>1, ProvidersDivide
        <4> QED
          BY <4>1, <4>2, <4>3, <4>4, Zenon
      <3>3. q \notin DOMAIN records
        BY <3>2, <1>r
      <3>4. q \notin Named(records)
        <4>1. ASSUME q \in Named(records)
              PROVE  records[Claimant(records, q)].direct = q
          BY <4>1, ClaimantsAre
        <4>2. q \in Named(records) => links'[q].cafe = Claimant(records, q)
          BY <1>l
        <4> QED
          BY <2>2, <3>1, <4>1, <4>2
      <3>5. q \in DOMAIN links \ Freed(records) /\ links[q].cafe = o
        BY <1>6, <2>2, <3>1, <3>3, <3>4
      <3>6. q \in Left(records, o)
        BY <2>2, <3>1, <3>2, <3>5 DEF Left, Held
      <3> QED
        BY <3>1, <3>5, <3>6 DEF Freed
    <2>3. ASSUME NEW p \in DOMAIN links' \ Named(records), NEW q \in DOMAIN links' \ Named(records),
                 links'[p].cafe = links'[q].cafe, ProviderOf(p) = ProviderOf(q)
          PROVE  p = q
      <3>1. /\ p \in Places /\ q \in Places
            /\ p \in Overture <=> q \in Overture
        BY <1>5, <2>3, ProvidersDivide, CatalogAssumption DEF CatalogTypes, Places
      <3>2. CASE p \in Overture
        BY <1>7, <2>3, <3>1, <3>2 DEF PrimaryIsOwn
      <3>3. CASE p \notin Overture
        <4>1. p \notin DOMAIN records /\ q \notin DOMAIN records
          BY <1>r, <3>1, <3>3
        <4>2. /\ p \in DOMAIN links /\ q \in DOMAIN links
              /\ links[p].cafe = links[q].cafe
          BY <1>6, <2>3, <4>1
        <4> QED
          BY <2>3, <4>2 DEF CatalogInv, OwnershipValid
      <3> QED
        BY <3>2, <3>3
    <2>4. ASSUME NEW k \in DOMAIN cafes' \cap Kakao
          PROVE  k \in DOMAIN links' /\ links'[k] = Link(k, "source_primary")
      <3>1. k \in DOMAIN cafes /\ k \notin Overture /\ k \notin DOMAIN records
        BY <1>1, <1>r, CatalogAssumption
      <3>2. k \in DOMAIN links /\ links[k] = Link(k, "source_primary")
        BY <3>1 DEF CatalogInv, OwnershipValid
      <3>3. k \notin Freed(records)
        BY <1>f, <3>2 DEF Link
      <3>4. ASSUME k \in Named(records)
            PROVE  FALSE
        <4>1. /\ Claimant(records, k) \in DOMAIN records
              /\ records[Claimant(records, k)].direct = k
          BY <3>4, ClaimantsAre
        <4>2. links[k].cafe = Claimant(records, k) \/ k \in Freed(records)
          BY <3>2, <4>1 DEF Synced
        <4> QED
          BY <1>r, <3>1, <3>2, <3>3, <4>1, <4>2 DEF Link
      <3>5. k \in DOMAIN links' /\ links'[k] = Retained(records, k)
        BY <1>l, <3>1, <3>2, <3>3, <3>4
      <3>6. Retained(records, k) = links[k]
        BY <3>1, <3>2 DEF Retained, Link
      <3> QED
        BY <3>2, <3>5, <3>6
    <2> QED
      BY <2>1, <2>2, <2>3, <2>4 DEF OwnershipValid, Link
  <1>11. TargetsConsistent'
    BY <1>5, <1>7, <1>10, PrimaryIsConsistent, PTL
  <1> QED
    BY <1>5, <1>7, <1>8, <1>9, <1>10, <1>11 DEF CatalogInv


\* Being freed is monotone: what an earlier record may claim, a later one may.
LEMMA SeedsAreSynced ==
    ASSUME SeedCurated \/ SeedDirectly
    PROVE  \E records \in Records :
              /\ Seed(records)
              /\ \A o \in DOMAIN records : Synced(records, o, Freed(records))
  <1>1. CASE SeedCurated
    <2>1. PICK records \in Records :
              /\ \A o \in DOMAIN records : Synced(records, o, {})
              /\ Seed(records)
      BY <1>1 DEF SeedCurated
    <2>2. \A o \in DOMAIN records : Synced(records, o, Freed(records))
      BY <2>1 DEF Synced
    <2> QED
      BY <2>1, <2>2
  <1>2. CASE SeedDirectly
    <2> DEFINE earlier(records, o) ==
            UNION {Left(records, n) : n \in {n \in DOMAIN records : n < o}}
    <2>1. PICK records \in Records :
              /\ \A o \in DOMAIN records : Synced(records, o, earlier(records, o))
              /\ Seed(records)
      BY <1>2 DEF SeedDirectly
    <2>2. \A o \in DOMAIN records : earlier(records, o) \subseteq Freed(records)
      BY DEF Freed
    <2>3. \A o \in DOMAIN records : Synced(records, o, Freed(records))
      <3> HIDE DEF earlier
      <3> QED
        BY <2>1, <2>2 DEF Synced
    <2> QED
      BY <2>1, <2>3
  <1> QED
    BY <1>1, <1>2

LEMMA SeedsPreserve ==
    ASSUME CatalogInv, SeedCurated \/ SeedDirectly
    PROVE  CatalogInv'
  <1>1. PICK records \in Records :
            /\ Seed(records)
            /\ \A o \in DOMAIN records : Synced(records, o, Freed(records))
    BY SeedsAreSynced
  <1> QED
    BY <1>1, SeedInv

----------------------------------------------------------------------------
(* The provider catalog.                                                     *)

LEMMA ReferencesAre ==
    ASSUME NEW refs \in References
    PROVE  /\ DOMAIN refs \subseteq Kakao \cup Naver
           /\ \A p \in DOMAIN refs :
                 /\ refs[p].cafe \in Overture \cup Permits
                 /\ refs[p].method \in Managed \cup {"source_direct_url"}
           /\ \A p, q \in DOMAIN refs :
                 refs[p].cafe = refs[q].cafe /\ ProviderOf(p) = ProviderOf(q) => p = q
  <1> DEFINE ref == [cafe : Overture \cup Permits, method : Managed \cup {"source_direct_url"}]
  <1>1. refs \in Rows(Kakao \cup Naver, ref)
    BY DEF References
  <1>2. DOMAIN refs \subseteq Kakao \cup Naver /\ refs \in [DOMAIN refs -> ref]
    <2> HIDE DEF ref
    <2> QED
      BY <1>1, RowsAreFunctions
  <1>3. \A p \in DOMAIN refs : refs[p] \in ref
    BY <1>2
  <1> QED
    BY <1>2, <1>3 DEF References

LEMMA ProviderPreserves ==
    ASSUME CatalogInv, SeedProvider
    PROVE  CatalogInv'
  <1> DEFINE cafe == [active : BOOLEAN, spot : SeoulSpots]
             link == [cafe : Cafes, method : Methods, active : BOOLEAN]
             turned(p) == p \in Kakao /\ links[p].method \in Managed
  <1>1. PICK refs \in References :
            /\ AcceptableReferences(refs)
            /\ \E spots \in [Candidates(refs) -> SeoulSpots] :
                  cafes' = [c \in DOMAIN cafes \cup DOMAIN spots |->
                               IF c \in DOMAIN spots THEN Row(spots[c]) ELSE cafes[c]]
            /\ links' = [p \in DOMAIN links \cup DOMAIN refs |->
                            IF p \in DOMAIN refs THEN Link(refs[p].cafe, refs[p].method)
                            ELSE IF turned(p) THEN Off(links[p])
                            ELSE links[p]]
            /\ found' = found
    BY DEF SeedProvider
  <1>2. PICK spots \in [Candidates(refs) -> SeoulSpots] :
            cafes' = [c \in DOMAIN cafes \cup DOMAIN spots |->
                         IF c \in DOMAIN spots THEN Row(spots[c]) ELSE cafes[c]]
    BY <1>1
  <1>3. /\ CatalogTypes
        /\ \A c \in DOMAIN cafes : cafes[c] \in cafe
        /\ \A p \in DOMAIN links : links[p] \in link
    BY DEF CatalogInv, CatalogTypes
  <1>4. /\ DOMAIN refs \subseteq Kakao \cup Naver
        /\ \A p \in DOMAIN refs :
              /\ refs[p].cafe \in Overture \cup Permits
              /\ refs[p].method \in Managed \cup {"source_direct_url"}
        /\ \A p, q \in DOMAIN refs :
              refs[p].cafe = refs[q].cafe /\ ProviderOf(p) = ProviderOf(q) => p = q
    BY ReferencesAre
  <1>5. /\ DOMAIN cafes' = DOMAIN cafes \cup Candidates(refs)
        /\ Candidates(refs) \subseteq Permits
        /\ \A c \in DOMAIN cafes \cap Overture : cafes'[c] = cafes[c]
        /\ \A c \in DOMAIN cafes' : cafes'[c] \in cafe
    <2>1. DOMAIN spots = Candidates(refs) /\ Candidates(refs) \subseteq Permits
      BY DEF Candidates
    <2>2. ASSUME NEW c \in DOMAIN cafes'
          PROVE  cafes'[c] \in cafe
      <3>1. CASE c \in DOMAIN spots
        <4>1. cafes'[c] = Row(spots[c]) /\ spots[c] \in SeoulSpots
          BY <1>2, <2>1, <3>1
        <4> QED
          BY <4>1, RowsAreTyped
      <3>2. CASE c \notin DOMAIN spots
        BY <1>2, <1>3, <2>2, <3>2
      <3> QED
        BY <3>1, <3>2
    <2> QED
      BY <1>2, <2>1, <2>2, CatalogAssumption
  <1>6. /\ DOMAIN links' = DOMAIN links \cup DOMAIN refs
        /\ \A p \in DOMAIN refs :
              /\ links'[p] \in link
              /\ links'[p].cafe = refs[p].cafe
              /\ links'[p].method \in Managed \cup {"source_direct_url"}
        /\ \A p \in DOMAIN links \ DOMAIN refs :
              /\ links'[p] \in link
              /\ links'[p].cafe = links[p].cafe
              /\ links'[p].method = links[p].method
              /\ ~turned(p) => links'[p] = links[p]
    <2>1. ASSUME NEW p \in DOMAIN refs
          PROVE  /\ links'[p] \in link
                 /\ links'[p].cafe = refs[p].cafe
                 /\ links'[p].method \in Managed \cup {"source_direct_url"}
      <3>1. links'[p] = Link(refs[p].cafe, refs[p].method)
        BY <1>1
      <3>2. refs[p].cafe \in Cafes /\ refs[p].method \in Methods
        BY <1>4 DEF Cafes, Methods
      <3>3. links'[p] \in link
        BY <3>1, <3>2, RowsAreTyped
      <3>4. links'[p].cafe = refs[p].cafe /\ links'[p].method = refs[p].method
        BY <3>1 DEF Link
      <3> QED
        BY <1>4, <3>3, <3>4
    <2>2. ASSUME NEW p \in DOMAIN links \ DOMAIN refs
          PROVE  /\ links'[p] \in link
                 /\ links'[p].cafe = links[p].cafe
                 /\ links'[p].method = links[p].method
                 /\ ~turned(p) => links'[p] = links[p]
      <3>1. links[p] \in link
        BY <1>3
      <3>2. /\ Off(links[p]) \in link
            /\ Off(links[p]).cafe = links[p].cafe /\ Off(links[p]).method = links[p].method
        BY <3>1 DEF Off
      <3>3. links'[p] = IF turned(p) THEN Off(links[p]) ELSE links[p]
        BY <1>1
      <3> QED
        BY <3>1, <3>2, <3>3
    <2> QED
      BY <1>1, <2>1, <2>2
  <1> HIDE DEF turned
  <1>7. \A p \in DOMAIN refs : p \in DOMAIN links => links[p].cafe = refs[p].cafe
    BY <1>1 DEF AcceptableReferences
  <1>8. \A p \in DOMAIN links : p \in DOMAIN links' /\ links'[p].cafe = links[p].cafe
    BY <1>6, <1>7
  <1>9. CatalogTypes'
    <2>1. DOMAIN cafes' \subseteq Cafes /\ DOMAIN links' \subseteq Places
      BY <1>3, <1>4, <1>5, <1>6 DEF CatalogTypes, Cafes, Places
    <2>2. cafes' \in [DOMAIN cafes' -> cafe]
      BY <1>2, <1>5
    <2>3. links' \in [DOMAIN links' -> link]
      <3>1. \A p \in DOMAIN links' : links'[p] \in link
        BY <1>6
      <3> QED
        BY <1>1, <3>1
    <2> QED
      BY <1>1, <1>3, <2>1, <2>2, <2>3 DEF CatalogTypes
  <1>10. PrimaryIsOwn'
    <2>1. ASSUME NEW p \in DOMAIN refs
          PROVE  p \notin Overture /\ links'[p].method # "source_primary"
      BY <1>4, <1>6, CatalogAssumption DEF Managed
    <2> QED
      BY <1>6, <2>1 DEF CatalogInv, PrimaryIsOwn
  <1>11. FoundIsInsertable'
    BY <1>1, <1>5 DEF CatalogInv, FoundIsInsertable
  <1>12. OvertureFollows'
    <2>1. ASSUME NEW o \in DOMAIN cafes' \cap Overture
          PROVE  /\ o \in DOMAIN links'
                 /\ links'[o] = [cafe |-> o, method |-> "source_primary",
                                active |-> cafes'[o].active]
      <3>1. o \in DOMAIN cafes /\ cafes'[o] = cafes[o]
        BY <1>5, CatalogAssumption
      <3>2. o \notin DOMAIN refs /\ o \notin Kakao
        BY <1>4, CatalogAssumption
      <3> QED
        BY <1>6, <3>1, <3>2 DEF CatalogInv, OvertureFollows, turned
    <2> QED
      BY <2>1 DEF OvertureFollows
  <1>13. OwnershipValid'
    <2>1. ASSUME NEW p \in DOMAIN links'
          PROVE  links'[p].cafe \in DOMAIN cafes'
      <3>1. CASE p \in DOMAIN refs
        <4>1. refs[p].cafe \in DOMAIN cafes \cup Permits
          BY <1>1, <3>1 DEF AcceptableReferences
        <4>2. refs[p].cafe \in DOMAIN cafes \/ refs[p].cafe \in Candidates(refs)
          BY <3>1, <4>1 DEF Candidates
        <4> QED
          BY <1>5, <1>6, <3>1, <4>2
      <3>2. CASE p \notin DOMAIN refs
        BY <1>5, <1>6, <3>2 DEF CatalogInv, OwnershipValid
      <3> QED
        BY <3>1, <3>2
    <2>2. ASSUME NEW p \in DOMAIN links', NEW q \in DOMAIN links',
                 links'[p].cafe = links'[q].cafe, ProviderOf(p) = ProviderOf(q)
          PROVE  p = q
      <3>1. CASE p \in DOMAIN links /\ q \in DOMAIN links
        BY <1>8, <2>2, <3>1 DEF CatalogInv, OwnershipValid
      <3>2. CASE p \in DOMAIN refs /\ q \in DOMAIN refs
        BY <1>4, <1>6, <2>2, <3>2
      <3>3. ASSUME NEW r \in DOMAIN refs, NEW s \in DOMAIN links,
                   refs[r].cafe = links[s].cafe, ProviderOf(r) = ProviderOf(s)
            PROVE  r = s
        <4>1. s \in ProviderOf(r)
          BY <1>3, <3>3, ProvidersDivide DEF CatalogTypes
        <4>2. s \in Held(refs[r].cafe, ProviderOf(r))
          BY <3>3, <4>1 DEF Held
        <4> QED
          BY <1>1, <4>2 DEF AcceptableReferences
      <3>4. \A r \in DOMAIN refs : links'[r].cafe = refs[r].cafe
        BY <1>6
      <3> QED
        BY <1>6, <1>8, <2>2, <3>1, <3>2, <3>3, <3>4
    <2>3. ASSUME NEW k \in DOMAIN cafes' \cap Kakao
          PROVE  k \in DOMAIN links' /\ links'[k] = Link(k, "source_primary")
      <3>1. k \in DOMAIN cafes
        BY <1>5, CatalogAssumption
      <3>2. k \in DOMAIN links /\ links[k] = Link(k, "source_primary")
        BY <3>1 DEF CatalogInv, OwnershipValid
      <3>3. links[k].cafe = k /\ links[k].method = "source_primary"
        BY <3>2 DEF Link
      <3>4. k \notin DOMAIN refs
        BY <1>4, <1>7, <3>2, <3>3, CatalogAssumption
      <3>5. ~turned(k)
        BY <3>3 DEF turned, Managed
      <3> QED
        BY <1>6, <3>2, <3>4, <3>5
    <2> QED
      BY <2>1, <2>2, <2>3 DEF OwnershipValid, Link
  <1>14. TargetsConsistent'
    BY <1>9, <1>10, <1>13, PrimaryIsConsistent, PTL
  <1> QED
    BY <1>9, <1>10, <1>11, <1>12, <1>13, <1>14 DEF CatalogInv

----------------------------------------------------------------------------
(* The Kakao expansion.                                                      *)

LEMMA KakaoPreserves ==
    ASSUME CatalogInv, ApplyKakao
    PROVE  /\ CatalogInv'
           /\ \A p \in DOMAIN links : p \in DOMAIN links' /\ links'[p] = links[p]
  <1> DEFINE cafe == [active : BOOLEAN, spot : SeoulSpots]
             link == [cafe : Cafes, method : Methods, active : BOOLEAN]
             unknown(snapshot) == InSeoul(snapshot) \ DOMAIN links
             moved(snapshot, c) == {k \in Applicable(snapshot) : links[k].cafe = c}
             applied(snapshot, new) ==
                /\ cafes' = [c \in DOMAIN cafes \cup new |->
                                IF c \in new THEN Row(snapshot[c])
                                ELSE IF moved(snapshot, c) = {} THEN cafes[c]
                                ELSE [cafes[c] EXCEPT
                                         !.spot = snapshot[CHOOSE k \in moved(snapshot, c) : TRUE]]]
                /\ links' = [p \in DOMAIN links \cup new |->
                                IF p \in new THEN Link(p, "source_primary") ELSE links[p]]
                /\ found' = found
  <1>0. PICK snapshot \in Rows(Kakao, SeoulSpots \cup {Outside}) :
            \E colliding \in SUBSET unknown(snapshot) :
                applied(snapshot, unknown(snapshot) \ colliding)
    BY DEF ApplyKakao
  <1>1. PICK colliding \in SUBSET unknown(snapshot) :
            applied(snapshot, unknown(snapshot) \ colliding)
    BY <1>0
  <1> DEFINE new == unknown(snapshot) \ colliding
             at(c) == snapshot[CHOOSE k \in moved(snapshot, c) : TRUE]
  <1>2. /\ DOMAIN snapshot \subseteq Kakao
        /\ InSeoul(snapshot) \subseteq DOMAIN snapshot
        /\ \A k \in InSeoul(snapshot) : snapshot[k] \in SeoulSpots
    BY RowsAreFunctions DEF InSeoul
  <1>3. new \subseteq Kakao /\ new \cap DOMAIN links = {} /\ new \cap DOMAIN cafes = {}
    BY <1>2 DEF CatalogInv, OwnershipValid
  <1>4. \A c : moved(snapshot, c) # {} => at(c) \in SeoulSpots
    <2>1. Applicable(snapshot) \subseteq InSeoul(snapshot)
      BY DEF Applicable, Moved
    <2> QED
      BY <1>2, <2>1
  <1>5. /\ CatalogTypes
        /\ \A c \in DOMAIN cafes : cafes[c] \in cafe
        /\ \A p \in DOMAIN links : links[p] \in link
    BY DEF CatalogInv, CatalogTypes
  <1>6. /\ DOMAIN cafes' = DOMAIN cafes \cup new
        /\ \A c \in new : cafes'[c] = Row(snapshot[c])
        /\ \A c \in DOMAIN cafes :
              cafes'[c] = IF moved(snapshot, c) = {} THEN cafes[c]
                          ELSE [cafes[c] EXCEPT !.spot = at(c)]
    BY <1>1, <1>3
  <1>7. /\ DOMAIN links' = DOMAIN links \cup new
        /\ \A p \in new : links'[p] = Link(p, "source_primary")
        /\ \A p \in DOMAIN links : links'[p] = links[p]
    BY <1>1, <1>3
  <1>8. links' = [p \in DOMAIN links' |-> links'[p]] /\ cafes' = [c \in DOMAIN cafes' |-> cafes'[c]]
    BY <1>1
  <1>9. found' = found
    BY <1>1
  <1>10. new \subseteq InSeoul(snapshot)
    OBVIOUS
  <1> HIDE DEF new, at, moved
  <1>11. \A c \in DOMAIN cafes : cafes'[c] \in cafe /\ cafes'[c].active = cafes[c].active
    BY <1>4, <1>5, <1>6
  <1>12. CatalogTypes'
    <2>1. \A c \in new : cafes'[c] \in cafe
      BY <1>2, <1>6, <1>10, RowsAreTyped
    <2>2. cafes' \in [DOMAIN cafes' -> cafe]
      <3> HIDE DEF cafe
      <3> QED
        BY <1>6, <1>8, <1>11, <2>1
    <2>3. \A p \in new : links'[p] \in link
      <3>1. new \subseteq Cafes /\ "source_primary" \in Methods
        BY <1>3 DEF Cafes, Methods
      <3> QED
        BY <1>7, <3>1, RowsAreTyped
    <2>4. links' \in [DOMAIN links' -> link]
      <3> HIDE DEF link
      <3> QED
        BY <1>5, <1>7, <1>8, <2>3
    <2>5. DOMAIN cafes' \subseteq Cafes /\ DOMAIN links' \subseteq Places
      BY <1>3, <1>5, <1>6, <1>7 DEF CatalogTypes, Cafes, Places
    <2> QED
      BY <1>5, <1>9, <2>2, <2>4, <2>5 DEF CatalogTypes
  <1>13. PrimaryIsOwn'
    BY <1>3, <1>7, CatalogAssumption DEF CatalogInv, PrimaryIsOwn, Link
  <1>14. FoundIsInsertable'
    BY <1>6, <1>9 DEF CatalogInv, FoundIsInsertable
  <1>15. OvertureFollows'
    <2>1. ASSUME NEW o \in DOMAIN cafes' \cap Overture
          PROVE  /\ o \in DOMAIN links'
                 /\ links'[o] = [cafe |-> o, method |-> "source_primary",
                                active |-> cafes'[o].active]
      <3>1. o \in DOMAIN cafes
        BY <1>3, <1>6, CatalogAssumption
      <3> QED
        BY <1>7, <1>11, <3>1 DEF CatalogInv, OvertureFollows
    <2> QED
      BY <2>1 DEF OvertureFollows
  <1>16. OwnershipValid'
    <2>1. ASSUME NEW p \in DOMAIN links'
          PROVE  links'[p].cafe \in DOMAIN cafes'
      BY <1>6, <1>7 DEF CatalogInv, OwnershipValid, Link
    <2>2. ASSUME NEW p \in DOMAIN links', NEW q \in DOMAIN links',
                 links'[p].cafe = links'[q].cafe, ProviderOf(p) = ProviderOf(q)
          PROVE  p = q
      <3>1. \A k \in new : links'[k].cafe = k /\ k \notin DOMAIN cafes
        BY <1>3, <1>7 DEF Link
      <3>2. \A k \in DOMAIN links : links'[k].cafe \in DOMAIN cafes
        BY <1>7 DEF CatalogInv, OwnershipValid
      <3>3. CASE p \in new \/ q \in new
        BY <1>7, <2>2, <3>1, <3>2, <3>3
      <3>4. CASE p \in DOMAIN links /\ q \in DOMAIN links
        BY <1>7, <2>2, <3>4 DEF CatalogInv, OwnershipValid
      <3> QED
        BY <1>7, <3>3, <3>4
    <2>3. ASSUME NEW k \in DOMAIN cafes' \cap Kakao
          PROVE  k \in DOMAIN links' /\ links'[k] = Link(k, "source_primary")
      BY <1>6, <1>7 DEF CatalogInv, OwnershipValid
    <2> QED
      BY <2>1, <2>2, <2>3 DEF OwnershipValid, Link
  <1>17. TargetsConsistent'
    BY <1>12, <1>13, <1>16, PrimaryIsConsistent, PTL
  <1> QED
    BY <1>7, <1>12, <1>13, <1>14, <1>15, <1>16, <1>17 DEF CatalogInv

----------------------------------------------------------------------------
(* The Naver job.                                                            *)

LEMMA SearchPreserves ==
    ASSUME CatalogInv, SearchNaver
    PROVE  CatalogInv'
  <1> DEFINE searched == {c \in DOMAIN cafes : cafes[c].active /\ Held(c, Naver) = {}}
  <1>1. PICK f \in Rows(Naver \ DOMAIN links, searched) :
            /\ \A p, q \in DOMAIN f : f[p] = f[q] => p = q
            /\ found' = f
    BY DEF SearchNaver
  <1>2. DOMAIN f \subseteq Naver \ DOMAIN links /\ f \in [DOMAIN f -> searched]
    <2> HIDE DEF searched
    <2> QED
      BY RowsAreFunctions
  <1>3. searched \subseteq DOMAIN cafes /\ DOMAIN cafes \subseteq Cafes
    BY DEF CatalogInv, CatalogTypes
  <1> HIDE DEF searched
  <1>4. found' \in Rows(Naver, Cafes) /\ \A p \in DOMAIN found' : found'[p] \in DOMAIN cafes
    <2>1. f \in [DOMAIN f -> Cafes] /\ DOMAIN f \subseteq Naver
      BY <1>2, <1>3
    <2>2. f \in Rows(Naver, Cafes)
      BY <2>1, RowsAreFunctions
    <2> QED
      BY <1>1, <1>2, <1>3, <2>2
  <1>5. cafes' = cafes /\ links' = links
    BY DEF SearchNaver
  <1>6. CatalogTypes'
    BY <1>4, <1>5 DEF CatalogInv, CatalogTypes
  <1>7. FoundIsInsertable'
    BY <1>1, <1>4, <1>5 DEF FoundIsInsertable
  <1>8. OvertureFollows' /\ PrimaryIsOwn' /\ OwnershipValid' /\ TargetsConsistent'
    BY <1>5 DEF CatalogInv, OvertureFollows, PrimaryIsOwn, OwnershipValid,
                TargetsConsistent, Targets
  <1> QED
    BY <1>6, <1>7, <1>8 DEF CatalogInv

LEMMA CommitPreserves ==
    ASSUME CatalogInv, CommitNaver
    PROVE  /\ CatalogInv'
           /\ \A p \in DOMAIN links : p \in DOMAIN links' /\ links'[p] = links[p]
  <1> DEFINE link == [cafe : Cafes, method : Methods, active : BOOLEAN]
  <1>1. /\ \A p \in DOMAIN found : p \notin DOMAIN links /\ Held(found[p], Naver) = {}
        /\ DOMAIN links' = DOMAIN links \cup DOMAIN found
        /\ \A p \in DOMAIN found : links'[p] = Link(found[p], "naver_exact")
        /\ \A p \in DOMAIN links : links'[p] = links[p]
        /\ links' = [p \in DOMAIN links' |-> links'[p]]
        /\ found' = None /\ cafes' = cafes
    BY DEF CommitNaver
  <1>2. /\ DOMAIN found \subseteq Naver
        /\ \A p \in DOMAIN found : found[p] \in DOMAIN cafes
        /\ \A p, q \in DOMAIN found : found[p] = found[q] => p = q
        /\ DOMAIN cafes \subseteq Cafes
    <2>1. found \in Rows(Naver, Cafes)
      BY DEF CommitNaver, CatalogInv, CatalogTypes
    <2> QED
      BY <2>1, RowsAreFunctions DEF CommitNaver, CatalogInv, CatalogTypes, FoundIsInsertable
  <1>3. /\ CatalogTypes
        /\ \A p \in DOMAIN links : links[p] \in link
    BY DEF CatalogInv, CatalogTypes
  <1>4. \A p \in DOMAIN found : links'[p].cafe = found[p] /\ links'[p].method = "naver_exact"
    BY <1>1 DEF Link
  <1>5. CatalogTypes'
    <2>1. \A p \in DOMAIN found : links'[p] \in link
      <3>1. "naver_exact" \in Methods
        BY DEF Methods
      <3> QED
        BY <1>1, <1>2, <3>1, RowsAreTyped
    <2>2. links' \in [DOMAIN links' -> link]
      <3> HIDE DEF link
      <3> QED
        BY <1>1, <1>3, <2>1
    <2>3. DOMAIN links' \subseteq Places
      BY <1>1, <1>2, <1>3 DEF CatalogTypes, Places
    <2> QED
      BY <1>1, <1>3, <2>2, <2>3 DEF CatalogTypes
  <1>6. PrimaryIsOwn'
    BY <1>1, <1>2, <1>4, CatalogAssumption DEF CatalogInv, PrimaryIsOwn
  <1>7. FoundIsInsertable'
    BY <1>1 DEF FoundIsInsertable
  <1>8. OvertureFollows'
    BY <1>1 DEF CatalogInv, OvertureFollows
  <1>9. OwnershipValid'
    <2>1. \A p \in DOMAIN links' : links'[p].cafe \in DOMAIN cafes'
      BY <1>1, <1>2, <1>4 DEF CatalogInv, OwnershipValid
    <2>2. ASSUME NEW p \in DOMAIN links', NEW q \in DOMAIN links',
                 links'[p].cafe = links'[q].cafe, ProviderOf(p) = ProviderOf(q)
          PROVE  p = q
      <3>1. CASE p \in DOMAIN links /\ q \in DOMAIN links
        BY <1>1, <2>2, <3>1 DEF CatalogInv, OwnershipValid
      <3>2. CASE p \in DOMAIN found /\ q \in DOMAIN found
        BY <1>2, <1>4, <2>2, <3>2
      <3>3. ASSUME NEW r \in DOMAIN found, NEW s \in DOMAIN links,
                   found[r] = links[s].cafe, ProviderOf(r) = ProviderOf(s)
            PROVE  FALSE
        <4>1. ProviderOf(r) = Naver /\ s \in ProviderOf(s)
          BY <1>2, <1>3, <3>3, ProvidersDivide DEF CatalogTypes
        <4>2. s \in Held(found[r], Naver)
          BY <3>3, <4>1 DEF Held
        <4> QED
          BY <1>1, <4>2
      <3> QED
        BY <1>1, <1>4, <2>2, <3>1, <3>2, <3>3
    <2>3. ASSUME NEW k \in DOMAIN cafes' \cap Kakao
          PROVE  k \in DOMAIN links' /\ links'[k] = Link(k, "source_primary")
      BY <1>1 DEF CatalogInv, OwnershipValid
    <2> QED
      BY <2>1, <2>2, <2>3 DEF OwnershipValid, Link
  <1>10. TargetsConsistent'
    BY <1>5, <1>6, <1>9, PrimaryIsConsistent, PTL
  <1> QED
    BY <1>1, <1>5, <1>6, <1>7, <1>8, <1>9, <1>10 DEF CatalogInv

----------------------------------------------------------------------------

LEMMA StutterPreserves ==
    ASSUME CatalogInv, cafes' = cafes, links' = links, found' \in {found, None}
    PROVE  CatalogInv'
  BY DEF CatalogInv, CatalogTypes, OvertureFollows, PrimaryIsOwn, OwnershipValid,
         TargetsConsistent, Targets, FoundIsInsertable

LEMMA CatalogNextInv == CatalogInv /\ [CatalogNext]_catalogVars => CatalogInv'
  <1> SUFFICES ASSUME CatalogInv, [CatalogNext]_catalogVars
               PROVE  CatalogInv'
    OBVIOUS
  <1>1. CASE SeedCurated \/ SeedDirectly
    BY <1>1, SeedsPreserve
  <1>2. CASE SeedProvider
    BY <1>2, ProviderPreserves
  <1>3. CASE ApplyKakao
    BY <1>3, KakaoPreserves
  <1>4. CASE SearchNaver
    BY <1>4, SearchPreserves
  <1>5. CASE CommitNaver
    BY <1>5, CommitPreserves
  <1>6. CASE NaverFails
    BY <1>6, StutterPreserves DEF NaverFails
  <1>7. CASE UNCHANGED catalogVars
    BY <1>7, StutterPreserves DEF catalogVars
  <1> QED
    BY <1>1, <1>2, <1>3, <1>4, <1>5, <1>6, <1>7 DEF CatalogNext

\* The six pipelines that own overlapping rows of cafes and
\* cafe_provider_places never bring the tables to a state that one of them
\* refuses: for any catalogs, in any order, with any number of refused runs.
THEOREM CatalogInvariant == CatalogSpec => []CatalogInv
  BY CatalogInitInv, CatalogNextInv, PTL DEF CatalogSpec

----------------------------------------------------------------------------
(* What a step may do to a verified identity.                                *)

Verified(p) == links[p].method # "source_direct_url"

\* The place stays with its cafe, is turned off only by its own pipeline, and
\* becomes a website's only as a Naver place of an Overture cafe.
Kept(p) ==
    /\ p \in DOMAIN links' /\ links'[p].cafe = links[p].cafe
    /\ links[p].active /\ ~links'[p].active =>
          \/ p \in Overture /\ ~cafes'[p].active
          \/ p \in Kakao /\ links[p].method \in Managed
    /\ links'[p].method = "source_direct_url" =>
          p \in Naver /\ links[p].cafe \in Overture /\ links'[p].active

LEMMA SeedKeeps ==
    ASSUME CatalogInv, NEW records \in Records, Seed(records),
           \A o \in DOMAIN records : Synced(records, o, Freed(records)),
           NEW p \in DOMAIN links, Verified(p)
    PROVE  Kept(p)
  <1>1. p \notin Freed(records)
    BY LeftAre DEF Verified
  <1>2. p \in DOMAIN links'
    BY <1>1, SeedLinks
  <1>3. CASE p \in DOMAIN records
    <2>1. links'[p] = Link(p, "source_primary")
      BY <1>3, SeedLinks
    <2>2. links[p].cafe = p
      BY <1>3, RecordsAre DEF CatalogInv, PrimaryIsOwn
    <2> QED
      BY <1>2, <2>1, <2>2 DEF Kept, Link
  <1>4. CASE p \in Named(records)
    <2> DEFINE o == Claimant(records, p)
    <2>1. o \in DOMAIN records /\ records[o].direct = p
      BY <1>4, ClaimantsAre
    <2>2. links[p].cafe = o
      BY <1>1, <2>1 DEF Synced
    <2>3. links'[p] = links[p]
      BY <1>4, <2>2, SeedLinks DEF Verified
    <2> QED
      BY <1>2, <2>3 DEF Kept, Verified
  <1>5. CASE p \notin DOMAIN records /\ p \notin Named(records)
    <2>1. links'[p] = Retained(records, p)
      BY <1>2, <1>5, SeedLinks
    <2>2. links'[p].cafe = links[p].cafe /\ links'[p].method = links[p].method
      BY <2>1, RetainedIs
    <2>3. ASSUME links[p].active, ~links'[p].active
          PROVE  p \in Overture /\ ~cafes'[p].active
      <3>1. p \in Overture /\ links[p].cafe \in Missing(records)
        BY <2>1, <2>3 DEF Retained, Verified
      <3>2. links[p].cafe = p
        BY <3>1 DEF CatalogInv, PrimaryIsOwn
      <3>3. cafes'[p] = Off(cafes[p])
        BY <1>5, <3>1, <3>2 DEF Seed, Missing
      <3>4. cafes[p] \in [active : BOOLEAN, spot : SeoulSpots]
        BY <3>1, <3>2 DEF Missing, CatalogInv, CatalogTypes
      <3> QED
        BY <3>1, <3>3, <3>4, RowsAreTyped
    <2> QED
      BY <1>2, <2>2, <2>3 DEF Kept, Verified
  <1> QED
    BY <1>3, <1>4, <1>5

LEMMA SeedsKeep ==
    ASSUME CatalogInv, SeedCurated \/ SeedDirectly, NEW p \in DOMAIN links, Verified(p)
    PROVE  Kept(p)
  <1>1. PICK records \in Records :
            /\ Seed(records)
            /\ \A o \in DOMAIN records : Synced(records, o, Freed(records))
    BY SeedsAreSynced
  <1> QED
    BY <1>1, SeedKeeps

LEMMA ProviderKeeps ==
    ASSUME CatalogInv, SeedProvider, NEW p \in DOMAIN links, Verified(p)
    PROVE  Kept(p)
  <1>1. PICK refs \in References :
            /\ AcceptableReferences(refs)
            /\ links' = [q \in DOMAIN links \cup DOMAIN refs |->
                            IF q \in DOMAIN refs THEN Link(refs[q].cafe, refs[q].method)
                            ELSE IF q \in Kakao /\ links[q].method \in Managed THEN Off(links[q])
                            ELSE links[q]]
    BY DEF SeedProvider
  <1>2. CASE p \in DOMAIN refs
    <2>1. links[p].cafe = refs[p].cafe
      BY <1>1, <1>2 DEF AcceptableReferences
    <2>2. p \in DOMAIN links' /\ links'[p] = Link(refs[p].cafe, refs[p].method)
      BY <1>1, <1>2
    <2>3. refs[p].method = "source_direct_url" => p \in Naver /\ refs[p].cafe \in Overture
      <3>1. /\ p \in Kakao \cup Naver
            /\ refs[p].method \in Managed <=> p \in Kakao
            /\ p \in Naver => refs[p].cafe \in Overture
        BY <1>2 DEF References, Rows
      <3> QED
        BY <3>1 DEF Managed
    <2> QED
      BY <2>1, <2>2, <2>3 DEF Kept, Link
  <1>3. CASE p \notin DOMAIN refs
    <2>1. links[p] \in [cafe : Cafes, method : Methods, active : BOOLEAN]
      BY DEF CatalogInv, CatalogTypes
    <2>2. Off(links[p]).cafe = links[p].cafe /\ Off(links[p]).method = links[p].method
      BY <2>1 DEF Off
    <2>3. /\ p \in DOMAIN links'
          /\ links'[p] = IF p \in Kakao /\ links[p].method \in Managed THEN Off(links[p])
                         ELSE links[p]
      BY <1>1, <1>3
    <2> QED
      BY <2>2, <2>3 DEF Kept, Verified
  <1> QED
    BY <1>2, <1>3

\* A place that its origin, Naver or an exact match gave to a cafe stays with it,
\* and no pipeline turns off a link that is not its own, until the provider
\* catalog relabels it: a Naver place, as the website's of its Overture cafe.
THEOREM VerifiedIdentities == CatalogSpec => VerifiedIdentitiesStay
  <1>1. ASSUME CatalogInv, [CatalogNext]_catalogVars, NEW p \in DOMAIN links, Verified(p)
        PROVE  Kept(p)
    <2>1. ASSUME links' = links
          PROVE  Kept(p)
      BY <1>1, <2>1 DEF Kept, Verified
    <2>2. ASSUME p \in DOMAIN links', links'[p] = links[p]
          PROVE  Kept(p)
      BY <1>1, <2>2 DEF Kept, Verified
    <2>3. CASE SeedCurated \/ SeedDirectly
      BY <1>1, <2>3, SeedsKeep
    <2>4. CASE SeedProvider
      BY <1>1, <2>4, ProviderKeeps
    <2>5. CASE ApplyKakao
      BY <1>1, <2>2, <2>5, KakaoPreserves
    <2>6. CASE CommitNaver
      BY <1>1, <2>2, <2>6, CommitPreserves
    <2>7. CASE SearchNaver \/ NaverFails \/ UNCHANGED catalogVars
      BY <2>1, <2>7 DEF SearchNaver, NaverFails, catalogVars
    <2> QED
      BY <1>1, <2>3, <2>4, <2>5, <2>6, <2>7 DEF CatalogNext
  <1>2. CatalogInv /\ [CatalogNext]_catalogVars =>
            [\A p \in DOMAIN links : links[p].method # "source_direct_url" =>
                /\ p \in DOMAIN links' /\ links'[p].cafe = links[p].cafe
                /\ links[p].active /\ ~links'[p].active =>
                      \/ p \in Overture /\ ~cafes'[p].active
                      \/ p \in Kakao /\ links[p].method \in Managed
                /\ links'[p].method = "source_direct_url" =>
                      p \in Naver /\ links[p].cafe \in Overture /\ links'[p].active]_catalogVars
    BY <1>1 DEF Verified, Kept
  <1> QED
    BY <1>2, CatalogInvariant, PTL DEF CatalogSpec, VerifiedIdentitiesStay

-----------------------------------------------------------------------------
(* The backfill. *)

\* A set of numbers that is not empty has a least one.
LEMMA NumbersHaveALeast ==
    ASSUME NEW S \in SUBSET Nat, S # {}
    PROVE  \E m \in S : \A i \in S : m <= i
<1>1. IsWellFoundedOn(OpToRel(<, Nat), Nat)
  BY NatLessThanWellFounded
<1>2. \A x \in Nat, y \in Nat : x < y => <<x, y>> \in OpToRel(<, Nat)
  BY Zenon DEF OpToRel
<1>3. PICK R : IsWellFoundedOn(R, Nat) /\ \A x \in Nat, y \in Nat : x < y => <<x, y>> \in R
  BY <1>1, <1>2, Zenon
<1>4. IsWellFoundedOn(R, Nat) /\ S \subseteq Nat /\ S # {}
  BY <1>3
<1>5. \E m \in S : \A i \in S : ~(<<i, m>> \in R)
  BY <1>4, WFMin, Zenon
<1>6. PICK m \in S : \A i \in S : ~(<<i, m>> \in R)
  BY <1>5
<1>7. \A i \in S : ~(i < m)
  BY <1>3, <1>6
<1> QED
  BY <1>7

\* It is the first one.
LEMMA FirstIsMember ==
    ASSUME NEW S \in SUBSET Nat, S # {}
    PROVE  First(S) \in S
<1>1. \E m \in S : \A i \in S : m <= i
  BY NumbersHaveALeast
<1> QED
  BY <1>1 DEF First

\* The month a run turns to is one that is left, or none.
LEMMA NextIsOpen ==
    ASSUME NEW entries
    PROVE  NextOpen(entries) \in Open(entries) \cup {None}
<1>1. CASE Open(entries) = {}
  BY <1>1 DEF NextOpen
<1>2. CASE Open(entries) # {}
  <2>1. Open(entries) \in SUBSET Nat
    BY BackfillAssumption DEF Open
  <2>2. First(Open(entries)) \in Open(entries)
    BY <1>2, <2>1, FirstIsMember
  <2> QED
    BY <1>2, <2>2 DEF NextOpen
<1> QED
  BY <1>1, <1>2

\* What an entry is, by what it says.
LEMMA EntryKinds ==
    ASSUME NEW entries \in Entries, NEW m \in Months
    PROVE  /\ Vouches(entries[m]) => entries[m].content \in Contents
           /\ ~Vouches(entries[m]) => entries[m].content = None
BY DEF Entries, Vouches

LEMMA NewEntries ==
    /\ \A c \in Contents : Vouches(Downloaded(c)) /\ Downloaded(c).content = c
    /\ \A c \in Contents : Vouches(Skipped(c)) /\ Skipped(c).content = c
    /\ ~Vouches(Planned)
BY DEF Vouches, Downloaded, Skipped, Planned

\* A set without two members has one at most, and conversely.
LEMMA AtMostOne ==
    ASSUME NEW S
    PROVE  /\ (\A m, n \in S : m = n) => IsFiniteSet(S) /\ Cardinality(S) <= 1
           /\ IsFiniteSet(S) /\ Cardinality(S) <= 1 => \A m, n \in S : m = n
<1>1. ASSUME \A m, n \in S : m = n
      PROVE  IsFiniteSet(S) /\ Cardinality(S) <= 1
  <2>1. CASE S = {}
    <3>1. IsFiniteSet(S) /\ Cardinality(S) = 0
      BY <2>1, FS_EmptySet, Zenon
    <3> QED
      BY <3>1
  <2>2. CASE S # {}
    <3>1. PICK m : m \in S
      BY <2>2
    <3>2. S = {m}
      BY <1>1, <3>1
    <3>3. IsFiniteSet({m}) /\ Cardinality({m}) = 1
      BY FS_Singleton, Zenon
    <3>4. IsFiniteSet(S) /\ Cardinality(S) = 1
      BY <3>2, <3>3, Zenon
    <3> QED
      BY <3>4
  <2> QED
    BY <2>1, <2>2
<1>2. ASSUME IsFiniteSet(S), Cardinality(S) <= 1, NEW m \in S, NEW n \in S
      PROVE  m = n
  <2>1. IsFiniteSet({n}) /\ Cardinality({n}) = 1
    BY FS_Singleton, Zenon
  <2>2. m \notin {n} => Cardinality({n} \cup {m}) = Cardinality({n}) + 1
    BY <2>1, FS_AddElement, Zenon
  <2>3. {n} \cup {m} \subseteq S
    BY <1>2
  <2>4. Cardinality({n} \cup {m}) <= Cardinality(S) /\ Cardinality(S) \in Nat
    BY <1>2, <2>3, FS_Subset, FS_CardinalityType, Zenon
  <2>5. m \in {n}
    BY <1>2, <2>1, <2>2, <2>4
  <2> QED
    BY <2>5
<1> QED
  BY <1>1, <1>2

\* What remains to be shown once the parts that speak of single months are.
LEMMA BackfillParts ==
    ASSUME BackfillTypes', RunIsOnRecord',
           run' # None => parts' \subseteq {run'.month},
           \A m, n \in parts' : m = n,
           run' # None => \A m \in Months : Vouches(run'.entries[m]) =>
               archives'[m] = run'.entries[m].content
    PROVE  BackfillInv'
<1>1. VouchedIsOnDisk'
  <2> SUFFICES ASSUME run' # None, NEW m \in Months, Vouches(manifest'.entries[m])
               PROVE  archives'[m] = manifest'.entries[m].content /\ archives'[m] # Bad
    BY DEF VouchedIsOnDisk
  <2>1. manifest'.entries = run'.entries /\ manifest'.entries \in Entries
    BY DEF RunIsOnRecord, Manifests, Entries
  <2>2. manifest'.entries[m].content \in Contents
    BY <2>1, EntryKinds
  <2> QED
    BY <2>1, <2>2, BackfillAssumption
<1>2. AtMostOneAhead'
  <2> DEFINE ahead == {m \in Months : archives'[m] # None /\ ~Vouches(manifest'.entries[m])}
  <2>1. run' # None => \A m, n \in ahead : m = n
    BY DEF RunIsOnRecord, Open
  <2>2. run' # None => Cardinality(ahead) <= 1
    BY <2>1, AtMostOne
  <2> QED
    BY <2>2 DEF AtMostOneAhead, Vouches
<1>3. OnePart'
  BY AtMostOne DEF OnePart
<1> QED
  BY <1>1, <1>2, <1>3 DEF BackfillInv

LEMMA OneOrNoPart ==
    ASSUME BackfillInv
    PROVE  \A m, n \in parts : m = n
<1>1. IsFiniteSet(parts) /\ Cardinality(parts) <= 1
  BY FS_Subset, BackfillAssumption DEF BackfillInv, BackfillTypes, OnePart
<1> QED
  BY <1>1, AtMostOne

\* A step of a run changes the month under way only: what has to be shown of it.
LEMMA RunStepKeepsInv ==
    ASSUME BackfillInv, run # None, NEW month \in Months, run.month = month,
           archives' \in [Months -> Contents \cup {Bad, None}],
           \A m \in Months \ {month} : archives'[m] = archives[m],
           parts' \subseteq {month}, manifest' = manifest, losses' = losses,
           run'.entries = run.entries, run'.month = month, run' \in Runs,
           parts' # {} => run'.phase \in {"link", "unlink"},
           archives'[month] # None <=> run'.phase \in {"unlink", "record"},
           archives'[month] # Bad
    PROVE  BackfillInv'
<1>0. /\ BackfillTypes /\ RunIsOnRecord
      /\ manifest \in Manifests /\ manifest.entries = run.entries
      /\ month \in Open(run.entries)
  BY BackfillAssumption, OutcomesAssumption DEF BackfillInv, RunIsOnRecord
<1>1. BackfillTypes'
  BY <1>0 DEF BackfillTypes, Entries, Manifests, Runs
<1>2. RunIsOnRecord'
  <2>1. \A m \in Open(run'.entries) :
           archives'[m] # None <=> m = run'.month /\ run'.phase \in {"unlink", "record"}
    BY <1>0 DEF RunIsOnRecord, Open
  <2> QED
    BY <1>0, <2>1 DEF RunIsOnRecord, Manifests, Entries, Open
<1>3. /\ run' # None => parts' \subseteq {run'.month}
      /\ \A m, n \in parts' : m = n
  OBVIOUS
<1>4. \A m \in Months : Vouches(run'.entries[m]) => archives'[m] = run'.entries[m].content
  <2>1. \A m \in Months : Vouches(run.entries[m]) => archives[m] = run.entries[m].content
    BY <1>0 DEF BackfillInv, VouchedIsOnDisk
  <2> QED
    BY <1>0, <2>1 DEF Open
<1> QED
  BY <1>1, <1>2, <1>3, <1>4, BackfillParts

\* A run that ends leaves a manifest; what it did not delete stays.
LEMMA EndKeepsInv ==
    ASSUME BackfillInv, run' = None, manifest' = None \/ manifest' \in Manifests,
           parts' \subseteq parts, archives' \in [Months -> Contents \cup {Bad, None}],
           losses' \in 0..MaxLosses
    PROVE  BackfillInv'
<1>1. BackfillTypes'
  BY DEF BackfillInv, BackfillTypes, Entries, Manifests, Runs
<1>2. RunIsOnRecord'
  BY DEF RunIsOnRecord
<1>3. \A m, n \in parts' : m = n
  BY OneOrNoPart
<1> QED
  BY <1>1, <1>2, <1>3, BackfillParts

\* A run begins over what is on disk, if its manifest vouches for it.
LEMMA StartKeepsInv ==
    ASSUME BackfillInv, NEW resume \in BOOLEAN, Start(resume)
    PROVE  BackfillInv' /\ KeepsEvidence
<1> DEFINE entries == [m \in Months |-> IF archives[m] = None THEN Planned ELSE Skipped(archives[m])]
<1>1. /\ run = None /\ parts = {}
      /\ manifest' = [status |-> "in_progress", entries |-> entries]
      /\ run' = [entries |-> entries, month |-> NextOpen(entries), phase |-> "stream"]
      /\ UNCHANGED <<archives, parts, losses>>
      /\ manifest = None \/ manifest \in Manifests
      /\ archives \in [Months -> Contents \cup {Bad, None}] /\ losses \in 0..MaxLosses
  BY DEF Start, BackfillInv, BackfillTypes
<1>2. ASSUME NEW m \in Months, archives[m] # None
      PROVE  /\ manifest \in Manifests /\ Vouches(manifest.entries[m])
             /\ archives[m] = manifest.entries[m].content /\ archives[m] \in Contents
  <2>1. /\ manifest \in Manifests
        /\ Vouches(manifest.entries[m]) /\ archives[m] = manifest.entries[m].content
    BY <1>1, <1>2 DEF Start, MayResume
  <2>2. manifest.entries \in Entries
    BY <2>1 DEF Manifests
  <2> QED
    BY <2>1, <2>2, EntryKinds
<1>3. ASSUME NEW m \in Months
      PROVE  /\ archives[m] = None => entries[m] = Planned
             /\ archives[m] # None => entries[m] = Skipped(archives[m])
             /\ entries[m] \in [status : {"planned", "failed"}, content : {None}]
                      \cup [status : {"downloaded", "skipped_verified"}, content : Contents]
  BY <1>2 DEF Planned, Skipped
<1>4. entries \in Entries
  BY <1>3 DEF Entries
<1>5. \A m \in Months :
         /\ Vouches(entries[m]) <=> archives[m] # None
         /\ Vouches(entries[m]) => entries[m].content = archives[m]
  BY <1>2, <1>3, NewEntries
<1> HIDE DEF entries
<1>6. NextOpen(entries) \in Open(entries) \cup {None}
  BY NextIsOpen
<1>7. manifest' \in Manifests /\ manifest'.entries = entries
  BY <1>1, <1>4 DEF Manifests
<1>8. /\ run' \in Runs /\ run'.entries = entries /\ run'.phase = "stream"
      /\ run'.month = NextOpen(entries)
  BY <1>1, <1>4, <1>6 DEF Runs, Open
<1>9. BackfillTypes'
  BY <1>1, <1>7, <1>8 DEF BackfillTypes, Manifests, Runs, Entries
<1>10. RunIsOnRecord'
  BY <1>1, <1>5, <1>6, <1>7, <1>8 DEF RunIsOnRecord, Open, Manifests, Entries
<1>11. BackfillInv'
  BY <1>1, <1>5, <1>8, <1>9, <1>10, BackfillParts
<1>12. ASSUME manifest # None, NEW m \in Months, Vouches(manifest.entries[m])
       PROVE  archives[m] # None
  BY <1>1, <1>12 DEF Start, MayResume
<1>13. KeepsEvidence
  BY <1>1, <1>2, <1>5, <1>7, <1>12 DEF KeepsEvidence
<1> QED
  BY <1>11, <1>13

\* What a month under way knows, and what a file it publishes must not replace.
LEMMA RunUnderWay ==
    ASSUME BackfillInv, run # None
    PROVE  /\ manifest \in Manifests /\ manifest.entries = run.entries
           /\ run.entries \in Entries /\ run \in Runs
           /\ run.month # None => run.month \in Open(run.entries) /\ run.month \in Months
           /\ run.month = None \/ run.month \in Open(run.entries)
           /\ archives \in [Months -> Contents \cup {Bad, None}] /\ losses \in 0..MaxLosses
           /\ parts \subseteq {run.month} /\ parts \subseteq Months
           /\ run.month # None /\ run.phase \in {"stream", "link"} => archives[run.month] = None
           /\ run.month # None /\ run.phase \in {"unlink", "record"} =>
                 archives[run.month] \in Contents
           /\ run.month # None => \A m \in Open(run.entries) \ {run.month} : archives[m] = None
           /\ \A m \in Months : Vouches(run.entries[m]) => archives[m] = run.entries[m].content
BY OutcomesAssumption, BackfillAssumption
   DEF BackfillInv, BackfillTypes, RunIsOnRecord, VouchedIsOnDisk, OnePart, Runs, Manifests, Open

LEMMA DownloadKeepsInv ==
    ASSUME BackfillInv, Stream \/ LinkFile \/ Unlink
    PROVE  BackfillInv' /\ KeepsEvidence
<1>1. run # None /\ run.month # None
  BY DEF Stream, LinkFile, Unlink
<1>2. PICK month \in Months : run.month = month
  BY <1>1, RunUnderWay
<1>3. /\ manifest \in Manifests /\ run \in Runs
      /\ archives \in [Months -> Contents \cup {Bad, None}]
      /\ parts \subseteq {month} /\ month \in Open(run.entries)
      /\ run.phase \in {"stream", "link"} => archives[month] = None
      /\ run.phase \in {"unlink", "record"} => archives[month] \in Contents
  BY <1>1, <1>2, RunUnderWay
<1>4. PICK phase \in {"link", "unlink", "record"} : run' = [run EXCEPT !.phase = phase]
  BY DEF Stream, LinkFile, Unlink
<1>5. /\ run'.entries = run.entries /\ run'.month = month /\ run' \in Runs
      /\ run'.phase = phase
  BY <1>2, <1>3, <1>4 DEF Runs
<1>6. manifest' = manifest /\ losses' = losses
  BY DEF Stream, LinkFile, Unlink
<1>7. /\ archives' \in [Months -> Contents \cup {Bad, None}]
      /\ \A m \in Months \ {month} : archives'[m] = archives[m]
      /\ archives'[month] # None <=> phase \in {"unlink", "record"}
      /\ archives'[month] # Bad
      /\ archives[month] # None => archives'[month] = archives[month]
      /\ parts' \subseteq {month} /\ (parts' # {} => phase \in {"link", "unlink"})
  <2>1. CASE Stream
    <3>1. run.phase = "stream" /\ parts' = parts \cup {month} /\ archives' = archives
      BY <1>2, <2>1 DEF Stream
    <3>2. run'.phase = "link"
      BY <1>3, <2>1 DEF Stream, Runs
    <3> QED
      BY <1>3, <1>5, <3>1, <3>2, BackfillAssumption
  <2>2. CASE LinkFile
    <3>1. PICK c \in Contents : archives' = [archives EXCEPT ![month] = c]
      BY <1>2, <2>2 DEF LinkFile
    <3>2. run.phase = "link" /\ parts' = parts
      BY <2>2 DEF LinkFile
    <3>3. run'.phase = "unlink"
      BY <1>3, <2>2 DEF LinkFile, Runs
    <3> QED
      BY <1>3, <1>5, <3>1, <3>2, <3>3, BackfillAssumption
  <2>3. CASE Unlink
    <3>1. run.phase = "unlink" /\ parts' = parts \ {month} /\ archives' = archives
      BY <1>2, <2>3 DEF Unlink
    <3>2. run'.phase = "record"
      BY <1>3, <2>3 DEF Unlink, Runs
    <3> QED
      BY <1>3, <1>5, <3>1, <3>2, BackfillAssumption
  <2> QED
    BY <2>1, <2>2, <2>3
<1>8. /\ parts' \subseteq {month} /\ (parts' # {} => run'.phase \in {"link", "unlink"})
      /\ archives'[month] # None <=> run'.phase \in {"unlink", "record"}
  BY <1>5, <1>7
<1>9. BackfillInv'
  BY <1>1, <1>2, <1>5, <1>6, <1>7, <1>8, RunStepKeepsInv
<1>10. KeepsEvidence
  BY <1>6, <1>7 DEF KeepsEvidence
<1> QED
  BY <1>9, <1>10

\* What is recorded of the month under way is what is on disk.
LEMMA RecordedEntries ==
    ASSUME BackfillInv, run # None, run.month # None, run.phase = "record"
    PROVE  /\ Recorded \in Entries
           /\ Open(Recorded) = Open(run.entries) \ {run.month}
           /\ \A m \in Months : Vouches(Recorded[m]) => archives[m] = Recorded[m].content
           /\ \A m \in Months : Vouches(run.entries[m]) => Recorded[m] = run.entries[m]
<1> DEFINE entry == Downloaded(archives[run.month])
<1>1. /\ run.entries \in Entries /\ run.month \in Months /\ run.month \in Open(run.entries)
      /\ archives[run.month] \in Contents
      /\ \A m \in Months : Vouches(run.entries[m]) => archives[m] = run.entries[m].content
  BY RunUnderWay
<1>2. /\ Vouches(entry) /\ entry.content = archives[run.month]
      /\ entry \in [status : {"downloaded", "skipped_verified"}, content : Contents]
  BY <1>1 DEF Downloaded, Vouches
<1>3. Recorded = [run.entries EXCEPT ![run.month] = entry]
  BY DEF Recorded
<1> HIDE DEF entry
<1>4. Recorded \in Entries
  BY <1>1, <1>2, <1>3 DEF Entries
<1>5. Recorded[run.month] = entry /\ \A m \in Months \ {run.month} : Recorded[m] = run.entries[m]
  BY <1>1, <1>3 DEF Entries
<1>6. Open(Recorded) = Open(run.entries) \ {run.month}
  BY <1>1, <1>2, <1>5 DEF Open
<1> QED
  BY <1>1, <1>2, <1>4, <1>5, <1>6 DEF Open

LEMMA RecordKeepsInv ==
    ASSUME BackfillInv, Record
    PROVE  BackfillInv' /\ KeepsEvidence
<1>1. /\ run # None /\ run.month # None /\ run.phase = "record"
      /\ manifest' = [manifest EXCEPT !.entries = Recorded]
      /\ run' = [entries |-> Recorded, month |-> NextOpen(Recorded), phase |-> "stream"]
      /\ UNCHANGED <<archives, parts, losses>>
  BY DEF Record
<1>2. /\ Recorded \in Entries
      /\ Open(Recorded) = Open(run.entries) \ {run.month}
      /\ \A m \in Months : Vouches(Recorded[m]) => archives[m] = Recorded[m].content
      /\ \A m \in Months : Vouches(run.entries[m]) => Recorded[m] = run.entries[m]
  BY <1>1, RecordedEntries
<1>3. /\ manifest \in Manifests /\ manifest.entries = run.entries
      /\ archives \in [Months -> Contents \cup {Bad, None}] /\ losses \in 0..MaxLosses
      /\ \A m \in Open(run.entries) \ {run.month} : archives[m] = None
  BY <1>1, RunUnderWay
<1>4. parts = {}
  BY <1>1 DEF BackfillInv, RunIsOnRecord
<1>5. NextOpen(Recorded) \in Open(Recorded) \cup {None}
  BY NextIsOpen
<1>6. manifest' \in Manifests /\ manifest'.entries = Recorded
  BY <1>1, <1>2, <1>3 DEF Manifests
<1>7. /\ run' \in Runs /\ run'.entries = Recorded /\ run'.phase = "stream"
      /\ run'.month = NextOpen(Recorded)
  BY <1>1, <1>2, <1>5 DEF Runs, Open
<1>8. BackfillTypes'
  BY <1>1, <1>3, <1>4, <1>6, <1>7 DEF BackfillTypes, Manifests, Runs, Entries
<1>9. RunIsOnRecord'
  BY <1>1, <1>2, <1>3, <1>4, <1>5, <1>6, <1>7 DEF RunIsOnRecord, Open, Manifests, Entries
<1>10. BackfillInv'
  BY <1>1, <1>2, <1>4, <1>7, <1>8, <1>9, BackfillParts
<1>11. KeepsEvidence
  BY <1>1, <1>2, <1>3, <1>6 DEF KeepsEvidence
<1> QED
  BY <1>10, <1>11

LEMMA WriteFailsKeepsInv ==
    ASSUME BackfillInv, WriteFails
    PROVE  BackfillInv' /\ KeepsEvidence
<1> DEFINE entries == IF run.month = None THEN run.entries ELSE Recorded
<1>1. /\ run # None /\ (run.month # None => run.phase = "record") /\ run' = None
      /\ manifest' = [status |-> "failed", entries |-> entries]
      /\ UNCHANGED <<archives, parts, losses>>
  BY DEF WriteFails
<1>2. /\ run.entries \in Entries /\ manifest.entries = run.entries
      /\ archives \in [Months -> Contents \cup {Bad, None}] /\ losses \in 0..MaxLosses
  BY <1>1, RunUnderWay
<1>3. entries \in Entries /\ \A m \in Months : Vouches(run.entries[m]) => entries[m] = run.entries[m]
  BY <1>1, <1>2, RecordedEntries
<1> HIDE DEF entries
<1>4. manifest' \in Manifests /\ manifest'.entries = entries
  BY <1>1, <1>3 DEF Manifests
<1>5. BackfillInv'
  BY <1>1, <1>2, <1>4, EndKeepsInv
<1>6. KeepsEvidence
  BY <1>1, <1>2, <1>3, <1>4 DEF KeepsEvidence
<1> QED
  BY <1>5, <1>6

LEMMA FailKeepsInv ==
    ASSUME BackfillInv, Fail
    PROVE  BackfillInv' /\ KeepsEvidence
<1> DEFINE entries == [run.entries EXCEPT ![run.month].status = "failed"]
<1>1. /\ run # None /\ run.month # None /\ run' = None /\ parts' \subseteq parts
      /\ manifest' = [status |-> "failed", entries |-> entries]
      /\ UNCHANGED <<archives, losses>>
  BY DEF Fail
<1>2. /\ run.entries \in Entries /\ manifest.entries = run.entries
      /\ run.month \in Months /\ run.month \in Open(run.entries)
      /\ archives \in [Months -> Contents \cup {Bad, None}] /\ losses \in 0..MaxLosses
  BY <1>1, RunUnderWay
<1>3. ~Vouches(run.entries[run.month])
      /\ run.entries[run.month] \in [status : {"planned", "failed"}, content : {None}]
  BY <1>2 DEF Open, Entries, Vouches
<1>4. [run.entries[run.month] EXCEPT !.status = "failed"]
      \in [status : {"planned", "failed"}, content : {None}]
  BY <1>3
<1>5. /\ \A m \in Months \ {run.month} : entries[m] = run.entries[m]
      /\ entries \in Entries
  BY <1>2, <1>4 DEF Entries
<1> HIDE DEF entries
<1>6. manifest' \in Manifests /\ manifest'.entries = entries
  BY <1>1, <1>5 DEF Manifests
<1>7. BackfillInv'
  BY <1>1, <1>2, <1>6, EndKeepsInv
<1>8. KeepsEvidence
  BY <1>1, <1>2, <1>3, <1>5, <1>6 DEF KeepsEvidence
<1> QED
  BY <1>7, <1>8

LEMMA RunEndsKeepInv ==
    ASSUME BackfillInv, Finish \/ KillDownload
    PROVE  BackfillInv' /\ KeepsEvidence
<1>1. /\ run # None /\ run' = None /\ UNCHANGED <<archives, parts, losses>>
      /\ manifest' = manifest \/ manifest' = [status |-> "complete", entries |-> run.entries]
  BY DEF Finish, KillDownload
<1>2. /\ manifest \in Manifests /\ run.entries \in Entries /\ manifest.entries = run.entries
      /\ archives \in [Months -> Contents \cup {Bad, None}] /\ losses \in 0..MaxLosses
  BY <1>1, RunUnderWay
<1>3. manifest' \in Manifests /\ manifest'.entries = run.entries
  BY <1>1, <1>2 DEF Manifests
<1>4. BackfillInv'
  BY <1>1, <1>2, <1>3, EndKeepsInv
<1>5. KeepsEvidence
  BY <1>1, <1>2, <1>3 DEF KeepsEvidence
<1> QED
  BY <1>4, <1>5

LEMMA BetweenRunsKeepInv ==
    ASSUME BackfillInv, NEW m \in Months, Clean(m) \/ Lose(m)
    PROVE  BackfillInv' /\ KeepsEvidence
<1>1. run = None /\ run' = None /\ manifest' = manifest /\ parts' \subseteq parts
  BY DEF Clean, Lose
<1>2. /\ archives \in [Months -> Contents \cup {Bad, None}] /\ losses \in 0..MaxLosses
      /\ manifest = None \/ manifest \in Manifests
  BY DEF BackfillInv, BackfillTypes
<1>3. archives' \in [Months -> Contents \cup {Bad, None}]
  BY <1>2 DEF Clean, Lose
<1>4. losses' \in 0..MaxLosses
  BY <1>2, BackfillAssumption DEF Clean, Lose
<1>5. BackfillInv'
  BY <1>1, <1>2, <1>3, <1>4, EndKeepsInv
<1>6. KeepsEvidence
  BY <1>1 DEF KeepsEvidence
<1> QED
  BY <1>5, <1>6

LEMMA BackfillStep ==
    ASSUME BackfillInv, [BackfillNext]_backfillVars
    PROVE  BackfillInv' /\ [KeepsEvidence]_backfillVars
<1>1. CASE UNCHANGED backfillVars
  BY <1>1 DEF backfillVars, BackfillInv, BackfillTypes, VouchedIsOnDisk, AtMostOneAhead, OnePart,
              RunIsOnRecord, Entries, Manifests, Runs, Open, Vouches
<1>2. CASE \E resume \in BOOLEAN : Start(resume)
  BY <1>2, StartKeepsInv
<1>3. CASE Stream \/ LinkFile \/ Unlink
  BY <1>3, DownloadKeepsInv
<1>4. CASE Record
  BY <1>4, RecordKeepsInv
<1>5. CASE WriteFails
  BY <1>5, WriteFailsKeepsInv
<1>6. CASE Fail
  BY <1>6, FailKeepsInv
<1>7. CASE Finish \/ KillDownload
  BY <1>7, RunEndsKeepInv
<1>8. CASE \E m \in Months : Clean(m) \/ Lose(m)
  BY <1>8, BetweenRunsKeepInv
<1> QED
  BY <1>1, <1>2, <1>3, <1>4, <1>5, <1>6, <1>7, <1>8 DEF BackfillNext, RunStep

\* Wherever a run is killed, however often it is resumed and whatever is lost in
\* between: nothing is vouched for before it is whole on disk, and a run is one
\* month ahead of its manifest at most.
THEOREM BackfillInvariant == BackfillSpec => []BackfillInv
<1>1. BackfillInit => BackfillInv
  <2> SUFFICES ASSUME BackfillInit PROVE BackfillInv
    OBVIOUS
  <2>1. /\ archives = [m \in Months |-> None] /\ parts = {}
        /\ manifest = None /\ run = None /\ losses = 0
    BY DEF BackfillInit
  <2>2. Cardinality(parts) = 0
    BY <2>1, FS_EmptySet, Zenon
  <2>3. 0 \in 0..MaxLosses
    BY BackfillAssumption
  <2> QED
    BY <2>1, <2>2, <2>3 DEF BackfillInv, BackfillTypes, VouchedIsOnDisk, AtMostOneAhead, OnePart,
                            RunIsOnRecord
<1>2. BackfillInv /\ [BackfillNext]_backfillVars => BackfillInv'
  BY BackfillStep
<1> QED
  BY <1>1, <1>2, PTL DEF BackfillSpec

\* What a manifest once vouched for is never replaced by something else, and no
\* run writes over a file.
THEOREM RecordedEvidenceIsKept == BackfillSpec => EvidenceIsKept
<1>1. BackfillInv /\ [BackfillNext]_backfillVars => [KeepsEvidence]_backfillVars
  BY BackfillStep
<1> QED
  BY <1>1, BackfillInvariant, PTL DEF BackfillSpec, EvidenceIsKept

-----------------------------------------------------------------------------
(* The sweeps: listings, and what their pages bring. *)

\* How many come before a place: fewer than all, if it is one of them.
LEMMA AheadIsANumber ==
    ASSUME NEW all \in SUBSET Nat, IsFiniteSet(all), NEW p \in Nat
    PROVE  /\ Ahead(p, all) \in Nat
           /\ p \in all => Ahead(p, all) < Cardinality(all)
<1> DEFINE below == {q \in all : q < p}
<1>1. /\ IsFiniteSet(below) /\ Cardinality(below) \in Nat
      /\ Cardinality(below) <= Cardinality(all)
      /\ Cardinality(below) = Cardinality(all) => below = all
  BY FS_Subset, FS_CardinalityType
<1>2. p \in all => below # all
  OBVIOUS
<1>3. Cardinality(all) \in Nat
  BY FS_CardinalityType
<1> HIDE DEF below
<1>4. Ahead(p, all) = Cardinality(below)
  BY DEF Ahead, below
<1> QED
  BY <1>1, <1>2, <1>3, <1>4

\* A later place has more ahead of it.
LEMMA AheadRises ==
    ASSUME NEW all \in SUBSET Nat, IsFiniteSet(all), NEW p \in all, NEW q \in all, p < q
    PROVE  Ahead(p, all) < Ahead(q, all)
<1> DEFINE low == {x \in all : x < p}
           high == {x \in all : x < q}
<1>1. IsFiniteSet(high)
  BY FS_Subset
<1>2. low \in SUBSET high /\ p \in high /\ p \notin low
  <2>1. \A x \in all : x \in Nat /\ (x < p => x < q)
    OBVIOUS
  <2>2. p < q /\ ~(p < p)
    OBVIOUS
  <2> QED
    BY <2>1, <2>2, Zenon
<1>3. low # high
  BY <1>2
<1> HIDE DEF low, high
<1>4. /\ IsFiniteSet(low) /\ Cardinality(low) <= Cardinality(high)
      /\ Cardinality(low) # Cardinality(high)
  BY <1>1, <1>2, <1>3, FS_Subset
<1>5. Cardinality(low) \in Nat /\ Cardinality(high) \in Nat
  BY <1>1, <1>4, FS_CardinalityType
<1>6. Cardinality(low) < Cardinality(high)
  BY <1>4, <1>5
<1> QED
  BY <1>6 DEF Ahead, low, high

\* The places of a listing are numbered 0 to its length less one.
LEMMA PlacesAreAPermutation ==
    ASSUME NEW all \in SUBSET Nat, IsFiniteSet(all)
    PROVE  [p \in all |-> Ahead(p, all)] \in Bijection(all, 0..(Cardinality(all) - 1))
<1> DEFINE n == Cardinality(all)
           place == [p \in all |-> Ahead(p, all)]
<1>1. n \in Nat
  BY FS_CardinalityType
<1> HIDE DEF n
<1>2. place \in [all -> 0..(n - 1)]
  <2>1. ASSUME NEW p \in all PROVE Ahead(p, all) \in 0..(n - 1)
    BY <1>1, AheadIsANumber DEF n
  <2> QED
    BY <2>1
<1>3. ASSUME NEW p \in all, NEW q \in all, p # q PROVE place[p] # place[q]
  <2>1. Ahead(p, all) \in Nat /\ Ahead(q, all) \in Nat
    BY AheadIsANumber
  <2>2. p < q \/ q < p
    BY <1>3
  <2> QED
    BY <2>1, <2>2, AheadRises
<1>4. place \in Injection(all, 0..(n - 1))
  <2> HIDE DEF place
  <2> QED
    BY <1>2, <1>3 DEF Injection, IsInjective
<1>5. IsFiniteSet(0..(n - 1)) /\ Cardinality(0..(n - 1)) = n
  BY <1>1, FS_Interval
<1>6. place \in Surjection(all, 0..(n - 1))
  <2> HIDE DEF place
  <2> QED
    BY <1>4, <1>5, FS_Injection DEF n
<1> QED
  BY <1>4, <1>6 DEF Bijection, n

\* Between two positions of a listing there are as many places as positions.
LEMMA SlicesAreFull ==
    ASSUME NEW all \in SUBSET Nat, IsFiniteSet(all), NEW a \in Nat, NEW b \in Nat,
           a <= b, b <= Cardinality(all)
    PROVE  LET slice == {p \in all : Ahead(p, all) >= a /\ Ahead(p, all) < b} IN
           IsFiniteSet(slice) /\ Cardinality(slice) = b - a
<1> DEFINE slice == {p \in all : Ahead(p, all) >= a /\ Ahead(p, all) < b}
           place == [p \in all |-> Ahead(p, all)]
           part == [p \in slice |-> place[p]]
<1>1. Cardinality(all) \in Nat
  BY FS_CardinalityType
<1>2. place \in Bijection(all, 0..(Cardinality(all) - 1))
  BY PlacesAreAPermutation
<1>3. \A p \in all : place[p] = Ahead(p, all)
  OBVIOUS
<1>4. slice = {p \in all : place[p] >= a /\ place[p] < b}
  BY <1>3
<1> HIDE DEF place, slice
<1>5. /\ place \in [all -> 0..(Cardinality(all) - 1)]
      /\ \A p, q \in all : place[p] = place[q] => p = q
      /\ \A i \in 0..(Cardinality(all) - 1) : \E p \in all : place[p] = i
  BY <1>2 DEF Bijection, Injection, Surjection, IsInjective
<1>6. part \in [slice -> a..(b - 1)]
  BY <1>1, <1>4, <1>5
<1>7. \A p, q \in slice : part[p] = part[q] => p = q
  BY <1>4, <1>5
<1>8. \A i \in a..(b - 1) : \E p \in slice : part[p] = i
  BY <1>1, <1>4, <1>5
<1>9. part \in Bijection(slice, a..(b - 1))
  <2> HIDE DEF part
  <2> QED
    BY <1>6, <1>7, <1>8 DEF Bijection, Injection, Surjection, IsInjective
<1>10. IsFiniteSet(slice)
  BY <1>4, FS_Subset
<1>12. IsFiniteSet(a..(b - 1)) /\ Cardinality(a..(b - 1)) = b - a
  <2> DEFINE c == b - 1
  <2>1. c \in Int /\ a \in Int
    OBVIOUS
  <2> HIDE DEF c
  <2>2. IsFiniteSet(a..c) /\ Cardinality(a..c) = IF a > c THEN 0 ELSE c - a + 1
    BY <2>1, FS_Interval
  <2> USE DEF c
  <2>3. (IF a > c THEN 0 ELSE c - a + 1) = b - a
    OBVIOUS
  <2> QED
    BY <2>2, <2>3
<1>11. Cardinality(slice) = Cardinality(a..(b - 1))
  <2> HIDE DEF part
  <2> QED
    BY <1>9, <1>10, <1>12, FS_Bijection DEF ExistsBijection
<1> QED
  BY <1>10, <1>11, <1>12 DEF slice

\* The stable places S of a listing L whose turn among the first n is over
\* without a document D of theirs.
SlippedIn(S, L, D, n) == {p \in S : p \notin D /\ Ahead(p, L) < n}

\* The greater and the smaller of two numbers.
LEMMA MaxIsALeastBound ==
    ASSUME NEW a \in Int, NEW b \in Int
    PROVE  /\ Max2(a, b) \in Int /\ a <= Max2(a, b) /\ b <= Max2(a, b)
           /\ Max2(a, b) \in {a, b}
           /\ Min2(a, b) \in Int /\ a >= Min2(a, b) /\ b >= Min2(a, b)
           /\ Min2(a, b) \in {a, b}
  BY DEF Max2, Min2

\* How the greater of a length and of what was read changes with the length.
LEMMA MaximaMove ==
    ASSUME NEW a \in Nat, NEW b \in Nat, NEW n \in Nat
    PROVE  /\ b = a - 1 /\ n < a => Max2(b, n) = b /\ Max2(a, n) = a
           /\ b <= a /\ a <= n => Max2(b, n) = n /\ Max2(a, n) = n
           /\ b = a + 1 => Max2(b, n) <= Max2(a, n) + 1
           /\ Max2(a, n) \in Nat /\ Max2(b, n) \in Nat
  BY DEF Max2

\* Of two finite sets one within the other.
LEMMA PartsAreFewer ==
    ASSUME NEW T, IsFiniteSet(T), NEW S, S \subseteq T
    PROVE  /\ IsFiniteSet(S) /\ Cardinality(S) \in Nat /\ Cardinality(T) \in Nat
           /\ Cardinality(S) <= Cardinality(T)
<1>1. S \in SUBSET T
  OBVIOUS
<1> QED
  BY <1>1, FS_Subset, FS_CardinalityType

\* What comes after p does not matter to how many are ahead of it.
LEMMA DeparturesMoveOneAhead ==
    ASSUME NEW L \in SUBSET Nat, IsFiniteSet(L), NEW p \in Nat, NEW x \in Nat
    PROVE  /\ Ahead(x, L \ {p}) \in Nat /\ Ahead(x, L) \in Nat
           /\ Ahead(x, L \ {p}) <= Ahead(x, L)
           /\ Ahead(x, L) <= Ahead(x, L \ {p}) + 1
<1> DEFINE below == {q \in L : q < x}
           left == {q \in L \ {p} : q < x}
<1>1. left = below \ {p}
  OBVIOUS
<1>2. IsFiniteSet(below)
  BY FS_Subset
<1>3. IsFiniteSet(left) /\ Cardinality(left) = IF p \in below THEN Cardinality(below) - 1 ELSE Cardinality(below)
  <2> HIDE DEF left, below
  <2> QED
    BY <1>1, <1>2, FS_RemoveElement
<1>4. Cardinality(left) \in Nat /\ Cardinality(below) \in Nat
  <2> HIDE DEF left, below
  <2> QED
    BY <1>2, <1>3, FS_CardinalityType
<1>5. Ahead(x, L) = Cardinality(below) /\ Ahead(x, L \ {p}) = Cardinality(left)
  BY DEF Ahead
<1> HIDE DEF left, below
<1> QED
  BY <1>3, <1>4, <1>5

\* A place that leaves lets at most one slip into the pages already read, and
\* then the listing, longer than they are, gets shorter by one.
LEMMA DeparturesShorten ==
    ASSUME NEW L \in SUBSET Nat, IsFiniteSet(L), NEW S \in SUBSET L, NEW p \in L, NEW D, NEW n \in Nat
    PROVE  Cardinality(SlippedIn(S \ {p}, L \ {p}, D, n)) + Max2(Cardinality(L \ {p}), n)
             <= Cardinality(SlippedIn(S, L, D, n)) + Max2(Cardinality(L), n)
<1> DEFINE old == SlippedIn(S, L, D, n)
           new == SlippedIn(S \ {p}, L \ {p}, D, n)
           turn == {x \in L : Ahead(x, L) >= n /\ Ahead(x, L) < n + 1}
<1> SUFFICES Cardinality(new) + Max2(Cardinality(L \ {p}), n)
                <= Cardinality(old) + Max2(Cardinality(L), n)
  OBVIOUS
<1>1. /\ IsFiniteSet(L \ {p}) /\ Cardinality(L \ {p}) = Cardinality(L) - 1
      /\ Cardinality(L) \in Nat /\ Cardinality(L \ {p}) \in Nat
  BY FS_RemoveElement, FS_CardinalityType
<1>2. \A x \in S : /\ Ahead(x, L) \in Nat /\ Ahead(x, L \ {p}) \in Nat
                   /\ Ahead(x, L) <= Ahead(x, L \ {p}) + 1
  BY DeparturesMoveOneAhead
<1>3. \A x \in new : x \in old \/ x \in turn
  <2>1. ASSUME NEW x \in new PROVE x \in old \cup turn
    <3>1. x \in S /\ x \in L /\ x \notin D /\ Ahead(x, L \ {p}) < n
      BY <2>1 DEF SlippedIn
    <3>2. Ahead(x, L) < n \/ (Ahead(x, L) >= n /\ Ahead(x, L) < n + 1)
      BY <1>2, <3>1
    <3> QED
      BY <3>1, <3>2 DEF SlippedIn
  <2> QED
    BY <2>1
<1>4. IsFiniteSet(old) /\ Cardinality(old) \in Nat
  <2>1. old \subseteq L
    BY DEF SlippedIn
  <2> HIDE DEF old
  <2> QED
    BY <2>1, PartsAreFewer
<1>5. CASE Cardinality(L) <= n
  <2>1. \A x \in L : x \in Nat /\ Ahead(x, L) \in Nat /\ Ahead(x, L) < Cardinality(L)
    BY AheadIsANumber
  <2>2. ASSUME NEW x \in turn PROVE FALSE
    <3>1. x \in L /\ Ahead(x, L) >= n
      OBVIOUS
    <3> QED
      BY <1>1, <1>5, <2>1, <3>1
  <2>3. new \subseteq old
    BY <1>3, <2>2
  <2> HIDE DEF new, old
  <2>4. Cardinality(new) \in Nat /\ Cardinality(new) <= Cardinality(old)
    BY <1>4, <2>3, PartsAreFewer
  <2>5. Max2(Cardinality(L \ {p}), n) = n /\ Max2(Cardinality(L), n) = n
    BY <1>1, <1>5, MaximaMove
  <2> QED
    BY <1>4, <2>4, <2>5
<1>6. CASE n < Cardinality(L)
  <2>1. IsFiniteSet(turn) /\ Cardinality(turn) = 1
    <3>1. n + 1 \in Nat /\ n <= n + 1 /\ n + 1 <= Cardinality(L) /\ (n + 1) - n = 1
      BY <1>1, <1>6
    <3> QED
      BY <3>1, SlicesAreFull
  <2>2. new \subseteq old \cup turn
    BY <1>3
  <2> HIDE DEF new, old, turn
  <2>3. /\ IsFiniteSet(old \cup turn) /\ IsFiniteSet(old \cap turn)
        /\ Cardinality(old \cup turn) = Cardinality(old) + 1 - Cardinality(old \cap turn)
    BY <1>4, <2>1, FS_Union, FS_Intersection
  <2>4. Cardinality(old \cap turn) \in Nat
    BY <2>3, FS_CardinalityType
  <2>5. Cardinality(new) \in Nat /\ Cardinality(new) <= Cardinality(old \cup turn)
    BY <2>2, <2>3, PartsAreFewer
  <2>6. Cardinality(new) <= Cardinality(old) + 1
    BY <1>4, <2>3, <2>4, <2>5
  <2>7. Max2(Cardinality(L \ {p}), n) = Cardinality(L) - 1 /\ Max2(Cardinality(L), n) = Cardinality(L)
    BY <1>1, <1>6, MaximaMove
  <2> QED
    BY <1>1, <1>4, <2>5, <2>6, <2>7
<1> QED
  BY <1>1, <1>5, <1>6

\* A place that comes lets nothing slip, and makes the listing longer by one.
LEMMA ArrivalsPush ==
    ASSUME NEW L \in SUBSET Nat, IsFiniteSet(L), NEW S \in SUBSET L,
           NEW p \in Nat \ L, NEW D, NEW n \in Nat
    PROVE  Cardinality(SlippedIn(S, L \cup {p}, D, n)) + Max2(Cardinality(L \cup {p}), n)
             <= Cardinality(SlippedIn(S, L, D, n)) + Max2(Cardinality(L), n) + 1
<1> DEFINE old == SlippedIn(S, L, D, n)
           new == SlippedIn(S, L \cup {p}, D, n)
           M == L \cup {p}
<1>1. /\ IsFiniteSet(M) /\ Cardinality(M) = Cardinality(L) + 1
      /\ Cardinality(L) \in Nat /\ M \in SUBSET Nat /\ M \ {p} = L
  <2>1. IsFiniteSet(L \cup {p}) /\ Cardinality(L \cup {p}) = Cardinality(L) + 1
    BY FS_AddElement
  <2>2. (L \cup {p}) \ {p} = L /\ L \cup {p} \in SUBSET Nat
    OBVIOUS
  <2> QED
    BY <2>1, <2>2, FS_CardinalityType
<1>2. \A x \in S : /\ Ahead(x, L) \in Nat /\ Ahead(x, M) \in Nat /\ Ahead(x, L) <= Ahead(x, M)
  <2> HIDE DEF M
  <2> QED
    BY <1>1, DeparturesMoveOneAhead
<1>3. new \subseteq old
  <2>1. ASSUME NEW x \in new PROVE x \in old
    <3>1. x \in S /\ x \notin D /\ Ahead(x, M) < n
      BY <2>1 DEF SlippedIn
    <3> HIDE DEF M
    <3>2. Ahead(x, L) < n
      BY <1>2, <3>1
    <3> QED
      BY <3>1, <3>2 DEF SlippedIn
  <2> QED
    BY <2>1
<1>4. IsFiniteSet(old)
  <2>1. old \subseteq L
    BY DEF SlippedIn
  <2> QED
    BY <2>1, PartsAreFewer
<1>5. Cardinality(new) \in Nat /\ Cardinality(old) \in Nat /\ Cardinality(new) <= Cardinality(old)
  <2> HIDE DEF new, old
  <2> QED
    BY <1>3, <1>4, PartsAreFewer
<1>6. Max2(Cardinality(M), n) <= Max2(Cardinality(L), n) + 1 /\ Max2(Cardinality(M), n) \in Int /\ Max2(Cardinality(L), n) \in Int
  <2> HIDE DEF M
  <2>1. Cardinality(M) \in Nat /\ Cardinality(L) \in Nat /\ Cardinality(M) = Cardinality(L) + 1
    BY <1>1
  <2>2. /\ Max2(Cardinality(M), n) <= Max2(Cardinality(L), n) + 1
        /\ Max2(Cardinality(M), n) \in Nat /\ Max2(Cardinality(L), n) \in Nat
    BY <2>1, MaximaMove, Zenon
  <2> QED
    BY <2>2
<1> HIDE DEF new, old
<1>7. Cardinality(new) + Max2(Cardinality(M), n) <= Cardinality(old) + Max2(Cardinality(L), n) + 1
  <2> HIDE DEF M
  <2> QED
    BY <1>5, <1>6
<1> QED
  BY <1>7 DEF new, old

\* The documents after the first n of those that can be paged.
PageAfter(L, n, pageable) ==
    {p \in L : Ahead(p, L) >= n /\ Ahead(p, L) < Min2(n + PageSize, pageable)}

\* A page is full, but for the last, which has what is left.
LEMMA PagesCount ==
    ASSUME NEW L \in SUBSET Nat, IsFiniteSet(L), NEW n \in Nat, NEW pageable \in Nat,
           pageable <= Cardinality(L)
    PROVE  Cardinality(PageAfter(L, n, pageable)) =
             IF n >= pageable THEN 0 ELSE Min2(n + PageSize, pageable) - n
<1> DEFINE end == Min2(n + PageSize, pageable)
<1>1. PageSize \in Nat /\ PageSize > 0
  BY SweepAssumption
<1>2. end \in Nat /\ end <= pageable /\ (n < pageable => n <= end)
  BY <1>1 DEF Min2
<1>3. CASE n < pageable
  <2> HIDE DEF end
  <2>1. n <= end /\ end <= Cardinality(L)
    <3>1. Cardinality(L) \in Nat
      BY FS_CardinalityType
    <3> QED
      BY <1>2, <1>3, <3>1
  <2>2. Cardinality({p \in L : Ahead(p, L) >= n /\ Ahead(p, L) < end}) = end - n
    BY <1>2, <2>1, SlicesAreFull
  <2>3. PageAfter(L, n, pageable) = {p \in L : Ahead(p, L) >= n /\ Ahead(p, L) < end}
    BY DEF PageAfter, end
  <2> QED
    BY <1>3, <2>2, <2>3 DEF end
<1>4. CASE n >= pageable
  <2>1. \A p \in L : Ahead(p, L) \in Nat
    BY AheadIsANumber
  <2>2. ASSUME NEW p \in PageAfter(L, n, pageable) PROVE FALSE
    <3>1. p \in L /\ Ahead(p, L) >= n /\ Ahead(p, L) < end
      BY <2>2 DEF PageAfter
    <3> HIDE DEF end
    <3> QED
      BY <1>2, <1>4, <2>1, <3>1
  <2>3. PageAfter(L, n, pageable) = {}
    BY <2>2
  <2> QED
    BY <1>4, <2>3, FS_EmptySet
<1> QED
  BY <1>3, <1>4

\* A page that is not the last loses nothing.
LEMMA FullPagesKeepTheDebt ==
    ASSUME NEW L \in SUBSET Nat, IsFiniteSet(L), NEW S \in SUBSET L, NEW D, NEW n \in Nat,
           NEW pageable \in Nat, n + PageSize < pageable, pageable <= Cardinality(L)
    PROVE  Cardinality(SlippedIn(S, L, D \cup PageAfter(L, n, pageable), n + PageSize))
                 + Max2(Cardinality(L), n + PageSize)
             <= Cardinality(SlippedIn(S, L, D, n)) + Max2(Cardinality(L), n)
<1> DEFINE old == SlippedIn(S, L, D, n)
           new == SlippedIn(S, L, D \cup PageAfter(L, n, pageable), n + PageSize)
<1> SUFFICES Cardinality(new) + Max2(Cardinality(L), n + PageSize) <= Cardinality(old) + Max2(Cardinality(L), n)
  OBVIOUS
<1>1. PageSize \in Nat /\ PageSize > 0 /\ Cardinality(L) \in Nat
  BY SweepAssumption, FS_CardinalityType
<1>2. Min2(n + PageSize, pageable) = n + PageSize
  BY <1>1 DEF Min2
<1>3. \A x \in L : Ahead(x, L) \in Nat
  BY AheadIsANumber
<1>4. ASSUME NEW x \in new PROVE x \in old
  <2>1. x \in S /\ x \notin D /\ x \notin PageAfter(L, n, pageable) /\ Ahead(x, L) < n + PageSize
    BY <1>4 DEF SlippedIn
  <2>2. ~(Ahead(x, L) >= n)
    BY <1>2, <2>1 DEF PageAfter
  <2>3. Ahead(x, L) < n
    BY <1>3, <2>1, <2>2
  <2> QED
    BY <2>1, <2>3 DEF SlippedIn
<1>5. old \subseteq L /\ new \subseteq old
  BY <1>4 DEF SlippedIn
<1> HIDE DEF new, old
<1>6. Cardinality(old) \in Nat /\ Cardinality(new) \in Nat /\ Cardinality(new) <= Cardinality(old)
  BY <1>5, PartsAreFewer
<1>7. Max2(Cardinality(L), n + PageSize) = Cardinality(L) /\ Max2(Cardinality(L), n) = Cardinality(L)
  BY <1>1 DEF Max2
<1> QED
  BY <1>1, <1>6, <1>7

\* The last page of a listing that is paged to its end brings all but what has
\* slipped.
LEMMA WholeListingsAreRead ==
    ASSUME NEW L \in SUBSET Nat, IsFiniteSet(L), NEW S \in SUBSET L, NEW D, NEW n \in Nat,
           n + PageSize >= Cardinality(L)
    PROVE  LET missed == {x \in S : x \notin D \cup PageAfter(L, n, Cardinality(L))} IN
           Cardinality(missed) <= Cardinality(SlippedIn(S, L, D, n))
<1> DEFINE old == SlippedIn(S, L, D, n)
           missed == {x \in S : x \notin D \cup PageAfter(L, n, Cardinality(L))}
<1>1. PageSize \in Nat /\ PageSize > 0 /\ Cardinality(L) \in Nat
  BY SweepAssumption, FS_CardinalityType
<1>2. Min2(n + PageSize, Cardinality(L)) = Cardinality(L)
  BY <1>1 DEF Min2
<1>3. \A x \in L : x \in Nat /\ Ahead(x, L) \in Nat /\ Ahead(x, L) < Cardinality(L)
  BY AheadIsANumber
<1>4. ASSUME NEW x \in missed PROVE x \in old
  <2>1. x \in S /\ x \in L /\ x \notin D /\ x \notin PageAfter(L, n, Cardinality(L))
    OBVIOUS
  <2>2. ~(Ahead(x, L) >= n)
    BY <1>2, <1>3, <2>1 DEF PageAfter
  <2>3. Ahead(x, L) < n
    BY <1>3, <2>1, <2>2
  <2> QED
    BY <2>1, <2>3 DEF SlippedIn
<1>5. old \subseteq L /\ missed \subseteq old
  BY <1>4 DEF SlippedIn
<1> HIDE DEF missed, old
<1>6. IsFiniteSet(old)
  BY <1>5, PartsAreFewer
<1>7. Cardinality(missed) <= Cardinality(old)
  BY <1>5, <1>6, PartsAreFewer
<1> QED
  BY <1>7 DEF missed, old

\* The last page of a listing that is not paged to its end also misses the end.
LEMMA LongListingsLoseTheirEnd ==
    ASSUME NEW L \in SUBSET Nat, IsFiniteSet(L), NEW S \in SUBSET L, NEW D, NEW n \in Nat,
           NEW most \in Nat, most <= Cardinality(L), n + PageSize >= most
    PROVE  LET missed == {x \in S : x \notin D \cup PageAfter(L, n, most)} IN
           Cardinality(missed) <= Cardinality(SlippedIn(S, L, D, n)) + Cardinality(L) - most
<1> DEFINE old == SlippedIn(S, L, D, n)
           missed == {x \in S : x \notin D \cup PageAfter(L, n, most)}
           end == {x \in L : Ahead(x, L) >= most /\ Ahead(x, L) < Cardinality(L)}
<1> SUFFICES Cardinality(missed) <= Cardinality(old) + Cardinality(L) - most
  OBVIOUS
<1>1. PageSize \in Nat /\ PageSize > 0 /\ Cardinality(L) \in Nat
  BY SweepAssumption, FS_CardinalityType
<1>2. Min2(n + PageSize, most) = most
  BY <1>1 DEF Min2
<1>3. \A x \in L : x \in Nat /\ Ahead(x, L) \in Nat /\ Ahead(x, L) < Cardinality(L)
  BY AheadIsANumber
<1>4. ASSUME NEW x \in missed PROVE x \in old \cup end
  <2>1. x \in S /\ x \in L /\ x \notin D /\ x \notin PageAfter(L, n, most)
    OBVIOUS
  <2>2. ~(Ahead(x, L) >= n) \/ ~(Ahead(x, L) < most)
    BY <1>2, <2>1 DEF PageAfter
  <2>3. Ahead(x, L) < n \/ Ahead(x, L) >= most
    BY <1>3, <2>1, <2>2
  <2> QED
    BY <1>3, <2>1, <2>3 DEF SlippedIn
<1>5. old \subseteq L /\ missed \subseteq old \cup end
  BY <1>4 DEF SlippedIn
<1>6. IsFiniteSet(end) /\ Cardinality(end) = Cardinality(L) - most
  <2>1. Cardinality(L) <= Cardinality(L)
    BY <1>1
  <2> QED
    BY <1>1, <2>1, SlicesAreFull
<1> HIDE DEF missed, old, end
<1>7. IsFiniteSet(old) /\ Cardinality(old) \in Nat
  BY <1>5, PartsAreFewer
<1>8. /\ IsFiniteSet(old \cup end) /\ IsFiniteSet(old \cap end)
      /\ Cardinality(old \cup end) = Cardinality(old) + Cardinality(end) - Cardinality(old \cap end)
  BY <1>6, <1>7, FS_Union, FS_Intersection
<1>9. Cardinality(old \cap end) \in Nat
  BY <1>8, FS_CardinalityType
<1>10. Cardinality(missed) \in Nat /\ Cardinality(missed) <= Cardinality(old \cup end)
  BY <1>5, <1>8, PartsAreFewer
<1> QED
  BY <1>1, <1>6, <1>7, <1>8, <1>9, <1>10

\* A leaf that is as long as its first page said it would be, when its last page
\* comes, or of which as many documents came as that page announced, is paid for.
LEMMA LeavesPay ==
    ASSUME NEW L \in SUBSET Nat, IsFiniteSet(L), NEW S \in SUBSET L, NEW D, NEW n \in Nat,
           NEW most \in Nat, NEW expected \in Nat, NEW behind \in Nat, NEW paid \in Nat,
           NEW pageable, pageable = Min2(Cardinality(L), most), n + PageSize >= pageable,
           behind + Cardinality(SlippedIn(S, L, D, n)) + Max2(Cardinality(L), n) <= paid + expected,
           \/ expected <= most /\ n + Cardinality(PageAfter(L, n, pageable)) = expected
           \/ expected = Cardinality(L) /\ expected <= most
    PROVE  behind + Cardinality({x \in S : x \notin D \cup PageAfter(L, n, pageable)}) <= paid
<1> DEFINE missed == {x \in S : x \notin D \cup PageAfter(L, n, pageable)}
           old == SlippedIn(S, L, D, n)
<1> SUFFICES behind + Cardinality(missed) <= paid
  OBVIOUS
<1>1. PageSize \in Nat /\ PageSize > 0 /\ Cardinality(L) \in Nat
  BY SweepAssumption, FS_CardinalityType
<1>2. old \subseteq L /\ missed \subseteq L
  BY DEF SlippedIn
<1>3. Cardinality(old) \in Nat /\ Cardinality(missed) \in Nat
  <2> HIDE DEF old, missed
  <2> QED
    BY <1>2, PartsAreFewer
<1>4. pageable \in Nat /\ pageable <= Cardinality(L)
  BY <1>1 DEF Min2
<1>5. Cardinality(PageAfter(L, n, pageable)) =
         IF n >= pageable THEN 0 ELSE Min2(n + PageSize, pageable) - n
  BY <1>4, PagesCount
<1>6. Min2(n + PageSize, pageable) = pageable
  BY <1>1, <1>4 DEF Min2
<1>7. n + Cardinality(PageAfter(L, n, pageable)) = Max2(pageable, n)
  BY <1>4, <1>5, <1>6 DEF Max2
<1>8. /\ behind + Cardinality(old) + Max2(Cardinality(L), n) <= paid + expected
      /\ Max2(Cardinality(L), n) \in Nat /\ Cardinality(L) <= Max2(Cardinality(L), n)
  BY <1>1 DEF Max2
<1>9. CASE Cardinality(L) <= most
  <2>1. pageable = Cardinality(L)
    BY <1>1, <1>9 DEF Min2
  <2>2. Cardinality(missed) <= Cardinality(old)
    BY <2>1, WholeListingsAreRead
  <2>3. expected <= Max2(Cardinality(L), n)
    BY <1>7, <1>8, <2>1
  <2> HIDE DEF old, missed
  <2> QED
    BY <1>3, <1>8, <2>2, <2>3
<1>10. CASE most < Cardinality(L)
  <2>1. pageable = most
    BY <1>1, <1>10 DEF Min2
  <2> DEFINE cut == {x \in S : x \notin D \cup PageAfter(L, n, most)}
  <2>4. most <= Cardinality(L) /\ n + PageSize >= most
    BY <1>1, <1>10, <2>1
  <2>5. Cardinality(cut) <= Cardinality(old) + Cardinality(L) - most
    BY <2>4, LongListingsLoseTheirEnd
  <2>6. missed = cut
    BY <2>1
  <2>2. Cardinality(missed) <= Cardinality(old) + Cardinality(L) - most
    <3> HIDE DEF old, missed, cut
    <3> QED
      BY <2>5, <2>6
  <2>3. expected <= most
    OBVIOUS
  <2> HIDE DEF old, missed
  <2> QED
    BY <1>1, <1>3, <1>8, <2>2, <2>3
<1> QED
  BY <1>1, <1>9, <1>10

-----------------------------------------------------------------------------
(* Cells. *)

\* A function on the numbers from 1 is a sequence,
LEMMA TablesAreSequences ==
    ASSUME NEW S, NEW n \in Nat, NEW f \in [1..n -> S]
    PROVE  f \in Seq(S) /\ Len(f) = n
  OBVIOUS

\* a sequence such a function,
LEMMA SequencesAreTables ==
    ASSUME NEW S, NEW f \in Seq(S)
    PROVE  Len(f) \in Nat /\ f \in [1..Len(f) -> S]
  OBVIOUS

\* and longer by one with one more.
LEMMA ItsLastIsAppended ==
    ASSUME NEW S, NEW f \in Seq(S), NEW x \in S
    PROVE  Append(f, x) \in Seq(S) /\ Len(Append(f, x)) = Len(f) + 1
  OBVIOUS

\* The cells are the sequences of quarters no deeper than the deepest.
LEMMA CellsAreSequences ==
    /\ \A cell \in Cells : cell \in Seq(1..Quarters) /\ Len(cell) \in 0..MaxDepth
    /\ \A cell \in Seq(1..Quarters) : Len(cell) <= MaxDepth => cell \in Cells
    /\ <<>> \in Cells
<1>1. MaxDepth \in Nat
  BY SweepAssumption
<1>2. ASSUME NEW cell \in Cells
      PROVE  cell \in Seq(1..Quarters) /\ Len(cell) \in 0..MaxDepth
  <2>1. PICK n \in 0..MaxDepth : cell \in [1..n -> 1..Quarters]
    BY <1>2 DEF Cells
  <2>2. n \in Nat
    BY <1>1, <2>1
  <2> QED
    BY <2>1, <2>2, TablesAreSequences
<1>3. ASSUME NEW cell \in Seq(1..Quarters), Len(cell) <= MaxDepth
      PROVE  cell \in Cells
  <2>2. Len(cell) \in Nat /\ cell \in [1..Len(cell) -> 1..Quarters]
    BY <1>3, SequencesAreTables, Zenon
  <2>1. Len(cell) \in 0..MaxDepth /\ cell \in [1..Len(cell) -> 1..Quarters]
    BY <1>1, <1>3, <2>2
  <2> QED
    BY <2>1 DEF Cells
<1>4. <<>> \in Seq(1..Quarters) /\ Len(<<>>) <= MaxDepth
  BY <1>1
<1> QED
  BY <1>2, <1>3, <1>4

\* Every place lies in the root.
LEMMA TheRootHoldsAll ==
    ASSUME NEW p \in Businesses
    PROVE  LiesIn(p, <<>>)
<1>1. Where[p] # {}
  BY SweepAssumption
<1> QED
  BY <1>1 DEF LiesIn

\* Every place of a cell lies in one of its quarters.
LEMMA ChildrenHoldAll ==
    ASSUME NEW cell \in Cells, Len(cell) < MaxDepth
    PROVE  /\ Children(cell) \in Seq(Cells)
           /\ \A p \in Businesses : LiesIn(p, cell) =>
                 \E i \in DOMAIN Children(cell) : LiesIn(p, Children(cell)[i])
<1>1. /\ MaxDepth \in Nat /\ Quarters \in Nat
      /\ cell \in Seq(1..Quarters) /\ Len(cell) \in Nat
  BY CellsAreSequences, SweepAssumption
<1>2. ASSUME NEW q \in 1..Quarters
      PROVE  Append(cell, q) \in Cells
  <2>1. Append(cell, q) \in Seq(1..Quarters) /\ Len(Append(cell, q)) = Len(cell) + 1
    BY <1>1, ItsLastIsAppended
  <2>2. Len(Append(cell, q)) <= MaxDepth
    BY <1>1, <2>1
  <2> QED
    BY <2>1, <2>2, CellsAreSequences
<1>3. Children(cell) \in [1..Quarters -> Cells]
  BY <1>2 DEF Children
<1>4. Children(cell) \in Seq(Cells) /\ DOMAIN Children(cell) = 1..Quarters
  BY <1>1, <1>3
<1>5. ASSUME NEW p \in Businesses, LiesIn(p, cell)
      PROVE  \E i \in DOMAIN Children(cell) : LiesIn(p, Children(cell)[i])
  <2>1. PICK l \in Where[p] : \A i \in DOMAIN cell : l[i] = cell[i]
    BY <1>5 DEF LiesIn
  <2>2. l \in [1..MaxDepth -> 1..Quarters]
    BY SweepAssumption
  <2>3. Len(cell) + 1 \in 1..MaxDepth
    BY <1>1
  <2> DEFINE q == l[Len(cell) + 1]
  <2>4. q \in 1..Quarters
    BY <2>2, <2>3
  <2>5. Children(cell)[q] = Append(cell, q)
    BY <2>4 DEF Children
  <2>6. \A i \in DOMAIN Append(cell, q) : l[i] = Append(cell, q)[i]
    <3>1. DOMAIN Append(cell, q) = 1..(Len(cell) + 1) /\ DOMAIN cell = 1..Len(cell)
      BY <1>1, <2>4
    <3>2. ASSUME NEW i \in 1..(Len(cell) + 1) PROVE l[i] = Append(cell, q)[i]
      <4>1. CASE i = Len(cell) + 1
        <5>1. Append(cell, q)[Len(cell) + 1] = q
          BY <1>1, <2>4
        <5> QED
          BY <4>1, <5>1
      <4>2. CASE i # Len(cell) + 1
        <5>1. i \in 1..Len(cell)
          BY <1>1, <4>2
        <5>2. Append(cell, q)[i] = cell[i]
          BY <1>1, <2>4, <5>1
        <5> QED
          BY <2>1, <3>1, <5>1, <5>2
      <4> QED
        BY <4>1, <4>2
    <3> QED
      BY <3>1, <3>2
  <2>7. LiesIn(p, Append(cell, q))
    BY <2>1, <2>6 DEF LiesIn
  <2> QED
    BY <1>4, <2>4, <2>5, <2>7
<1> QED
  BY <1>4, <1>5

\* The places of S that are in no record, and in no cell of a stack.
Behind(S, records, stack) ==
    {p \in S : p \notin records /\ \A i \in DOMAIN stack : ~LiesIn(p, stack[i])}

\* What is passed when a cell is done lay in that cell and in none of the records
\* it brought.
LEMMA LeavesPass ==
    ASSUME NEW stack \in Seq(Cells), stack # <<>>, NEW S, S \subseteq present, NEW records, NEW D,
           NEW x, x \in Behind(S, records \cup D, Tail(stack)), x \notin Behind(S, records, stack)
    PROVE  x \in S /\ x \in Listed(Head(stack)) /\ x \notin D
<1>1. /\ Head(stack) = stack[1]
      /\ Len(stack) \in Nat \ {0} /\ DOMAIN stack = 1..Len(stack)
      /\ DOMAIN Tail(stack) = 1..(Len(stack) - 1)
      /\ \A i \in 1..(Len(stack) - 1) : Tail(stack)[i] = stack[i + 1]
  OBVIOUS
<1>2. x \in S /\ x \notin records /\ x \notin D /\ x \in present
  BY DEF Behind
<1>3. PICK i \in DOMAIN stack : LiesIn(x, stack[i])
  BY <1>2 DEF Behind
<1>4. i = 1
  <2>1. SUFFICES ASSUME i # 1 PROVE FALSE
    OBVIOUS
  <2>2. i - 1 \in 1..(Len(stack) - 1) /\ (i - 1) + 1 = i
    BY <1>1, <2>1
  <2>3. Tail(stack)[i - 1] = stack[i]
    BY <1>1, <2>2
  <2> QED
    BY <1>1, <1>3, <2>2, <2>3 DEF Behind
<1> QED
  BY <1>1, <1>2, <1>3, <1>4 DEF Listed

\* Splitting a cell passes no place.
LEMMA SplitsPassNothing ==
    ASSUME NEW stack \in Seq(Cells), stack # <<>>, Len(Head(stack)) < MaxDepth,
           NEW S \in SUBSET Businesses, NEW records
    PROVE  LET split == Children(Head(stack)) \o Tail(stack) IN
           split \in Seq(Cells) /\ Behind(S, records, split) \subseteq Behind(S, records, stack)
<1> DEFINE new == Children(Head(stack))
           rest == Tail(stack)
           split == new \o rest
<1>1. /\ rest \in Seq(Cells) /\ Head(stack) \in Cells /\ Head(stack) = stack[1]
      /\ Len(stack) \in Nat \ {0} /\ DOMAIN stack = 1..Len(stack)
      /\ Len(rest) = Len(stack) - 1
      /\ \A i \in 1..(Len(stack) - 1) : rest[i] = stack[i + 1]
  OBVIOUS
<1>2. /\ new \in Seq(Cells)
      /\ \A p \in Businesses : LiesIn(p, Head(stack)) =>
            \E i \in DOMAIN new : LiesIn(p, new[i])
  BY <1>1, ChildrenHoldAll
<1> HIDE DEF new, rest
<1>3. /\ split \in Seq(Cells) /\ DOMAIN split = 1..(Len(new) + Len(rest)) /\ DOMAIN new = 1..Len(new)
      /\ \A i \in 1..Len(new) : split[i] = new[i]
      /\ \A i \in 1..Len(rest) : split[Len(new) + i] = rest[i]
      /\ Len(new) \in Nat /\ Len(rest) \in Nat
  BY <1>1, <1>2
<1> HIDE DEF split
<1>4. ASSUME NEW x \in Behind(S, records, split)
      PROVE  x \in Behind(S, records, stack)
  <2>1. x \in S /\ x \notin records /\ \A i \in DOMAIN split : ~LiesIn(x, split[i])
    BY <1>4 DEF Behind
  <2>2. ASSUME NEW i \in DOMAIN stack, LiesIn(x, stack[i]) PROVE FALSE
    <3>1. CASE i = 1
      <4>1. PICK j \in DOMAIN new : LiesIn(x, new[j])
        BY <1>1, <1>2, <2>1, <2>2, <3>1
      <4>2. j \in DOMAIN split /\ split[j] = new[j]
        BY <1>3, <4>1
      <4> QED
        BY <2>1, <4>1, <4>2
    <3>2. CASE i # 1
      <4>1. i - 1 \in 1..(Len(stack) - 1) /\ (i - 1) + 1 = i
        BY <1>1, <3>2
      <4>2. rest[i - 1] = stack[i]
        BY <1>1, <4>1
      <4>3. /\ Len(new) + (i - 1) \in DOMAIN split
            /\ split[Len(new) + (i - 1)] = rest[i - 1]
        <5>1. /\ i - 1 \in 1..Len(rest)
              /\ Len(new) + (i - 1) \in 1..(Len(new) + Len(rest))
          BY <1>1, <1>3, <4>1
        <5> QED
          BY <1>3, <5>1
      <4> QED
        BY <2>1, <2>2, <4>2, <4>3
    <3> QED
      BY <3>1, <3>2
  <2> QED
    BY <2>1, <2>2 DEF Behind
<1> QED
  BY <1>3, <1>4 DEF split, new, rest

-----------------------------------------------------------------------------
(* The sweep. *)

\* Listings are finite, and no longer than all places.
LEMMA ListingsAreFinite ==
    ASSUME present \in SUBSET Businesses, NEW cell
    PROVE  /\ IsFiniteSet(Listed(cell)) /\ Listed(cell) \in SUBSET Nat
           /\ Listed(cell) \subseteq present /\ Cardinality(Listed(cell)) \in Nat
           /\ Cardinality(Listed(cell)) <= Cardinality(Businesses)
           /\ Cardinality(Businesses) \in Nat
<1>1. Listed(cell) \subseteq present
  BY DEF Listed
<1>2. IsFiniteSet(Businesses) /\ Businesses \subseteq Nat
  BY SweepAssumption
<1> QED
  BY <1>1, <1>2, PartsAreFewer

\* What a job owes that has read r pages D of the first cell of its stack, in
\* terms of what the provider has (P) and had all along (S).
ListedOf(P, cell) == {p \in P : LiesIn(p, cell)}
Owes(P, S, paid, records, stack, r, D, expected) ==
    LET L == ListedOf(P, Head(stack)) IN
    Cardinality(Behind(S, records, stack)) + Cardinality(SlippedIn(S \cap L, L, D, r * PageSize))
        + Max2(Cardinality(L), r * PageSize) <= paid + expected

\* What the invariant says a job owes, now
LEMMA Debts ==
    NoneLostUnpaid <=>
        IF job.read = Unread THEN Cardinality(Behind(stable, job.records, job.stack)) <= came
        ELSE Owes(present, stable, came, job.records, job.stack,
                  job.read.page, job.read.documents, job.read.expected)
  BY DEF NoneLostUnpaid, Owes, ListedOf, Listed, Slipped, SlippedIn, Passed, Behind

\* and after a step.
LEMMA NextDebts ==
    NoneLostUnpaid' <=>
        IF job'.read = Unread THEN Cardinality(Behind(stable', job'.records, job'.stack)) <= came'
        ELSE Owes(present', stable', came', job'.records, job'.stack,
                  job'.read.page, job'.read.documents, job'.read.expected)
  BY DEF NoneLostUnpaid, Owes, ListedOf, Listed, Slipped, SlippedIn, Passed, Behind

\* The fields of an answer.
LEMMA AnswersTell ==
    ASSUME NEW total, NEW pageable, NEW ended \in BOOLEAN, NEW documents, NEW answer,
           answer = [total |-> total, pageable |-> pageable, is_end |-> ended, documents |-> documents]
    PROVE  /\ answer.total = total /\ answer.pageable = pageable
           /\ answer.is_end <=> ended
           /\ answer.documents = documents
  OBVIOUS

\* One more page of a cell: it is full and keeps the debt, or ends the cell, which
\* then is paid for if it is complete.
LEMMA PagesStaySound ==
    ASSUME SweepTypes, job # None, job.stack # <<>>, stable \subseteq present,
           NEW r \in Nat, NEW D \in SUBSET Businesses, NEW expected \in Nat, NEW most \in Nat,
           Owes(present, stable, came, job.records, job.stack, r, D, expected),
           NEW answer, answer = Page(Head(job.stack), r + 1, most)
    PROVE  /\ answer.documents \subseteq present
           /\ Cardinality(answer.documents) \in Nat
           /\ ~answer.is_end =>
                 /\ r * PageSize + Cardinality(answer.documents) = (r + 1) * PageSize
                 /\ Owes(present, stable, came, job.records, job.stack,
                         r + 1, D \cup answer.documents, expected)
           /\ (answer.is_end /\ expected <= most
                 /\ (\/ r * PageSize + Cardinality(answer.documents) = expected
                     \/ answer.total = expected)) =>
                 Cardinality(Behind(stable, job.records \cup (D \cup answer.documents), Tail(job.stack))) <= came
<1> DEFINE L == Listed(Head(job.stack))
           n == r * PageSize
           S == stable \cap L
           docs == answer.documents
           passed == Behind(stable, job.records, job.stack)
           behind == Cardinality(passed)
<1>1. /\ present \in SUBSET Businesses /\ came \in Nat /\ job.stack \in Seq(Cells)
      /\ stable \in SUBSET present /\ IsFiniteSet(Businesses)
  BY SweepAssumption DEF SweepTypes, SweepJobs
<1>2. /\ IsFiniteSet(L) /\ L \in SUBSET Nat /\ L \subseteq present /\ Cardinality(L) \in Nat
  BY <1>1, ListingsAreFinite
<1>3. S \in SUBSET L
  OBVIOUS
<1>5. PageSize \in Nat /\ PageSize > 0
  BY SweepAssumption
<1> HIDE DEF passed, behind, S
<1>4. /\ n \in Nat /\ (r + 1) * PageSize = n + PageSize
      /\ answer.total = Cardinality(L) /\ answer.pageable = Min2(Cardinality(L), most)
      /\ answer.is_end <=> n + PageSize >= answer.pageable
      /\ docs = PageAfter(L, n, answer.pageable)
  <2>1. answer = Page(Head(job.stack), r + 1, most)
    OBVIOUS
  <2>2. r * PageSize \in Nat /\ (r + 1) * PageSize = r * PageSize + PageSize /\ (r + 1) - 1 = r
    BY <1>5
  <2> DEFINE pageable == Min2(Cardinality(L), most)
  <2>3. answer = [total |-> Cardinality(L), pageable |-> pageable,
                  is_end |-> (r + 1) * PageSize >= pageable,
                  documents |-> {p \in L : /\ Ahead(p, L) >= ((r + 1) - 1) * PageSize
                                           /\ Ahead(p, L) < Min2((r + 1) * PageSize, pageable)}]
    BY <2>1, Zenon DEF Page
  <2> HIDE DEF L, pageable
  <2>4. /\ answer.total = Cardinality(L) /\ answer.pageable = pageable
        /\ answer.is_end <=> (r + 1) * PageSize >= pageable
        /\ answer.documents = {p \in L : /\ Ahead(p, L) >= ((r + 1) - 1) * PageSize
                                          /\ Ahead(p, L) < Min2((r + 1) * PageSize, pageable)}
    <3> DEFINE documents == {p \in L : /\ Ahead(p, L) >= ((r + 1) - 1) * PageSize
                                          /\ Ahead(p, L) < Min2((r + 1) * PageSize, pageable)}
               ended == (r + 1) * PageSize >= pageable
    <3>1. ended \in BOOLEAN
      OBVIOUS
    <3>2. answer = [total |-> Cardinality(L), pageable |-> pageable, is_end |-> ended, documents |-> documents]
      BY <2>3
    <3> HIDE DEF documents, ended
    <3>3. /\ answer.total = Cardinality(L) /\ answer.pageable = pageable
          /\ answer.is_end <=> ended
          /\ answer.documents = documents
      BY <3>1, <3>2, AnswersTell
    <3> QED
      BY <3>3 DEF documents, ended
  <2>5. answer.documents = PageAfter(L, n, pageable)
    BY <2>2, <2>4 DEF PageAfter
  <2> QED
    BY <2>2, <2>4, <2>5 DEF pageable
<1>6. answer.pageable \in Nat /\ answer.pageable <= Cardinality(L)
  BY <1>2, <1>4 DEF Min2
<1>7. docs \subseteq L
  BY <1>4 DEF PageAfter
<1>8. docs \subseteq present /\ Cardinality(docs) \in Nat
  <2> HIDE DEF docs, L
  <2> QED
    BY <1>2, <1>7, PartsAreFewer
<1> USE DEF passed, behind, S
<1>9. passed \subseteq stable /\ IsFiniteSet(passed) /\ behind \in Nat
  <2>1. passed \subseteq stable
    BY DEF Behind
  <2> HIDE DEF passed
  <2>2. passed \subseteq Businesses
    BY <1>1, <2>1
  <2> QED
    BY <1>1, <2>1, <2>2, PartsAreFewer
<1>0. L = ListedOf(present, Head(job.stack))
  BY DEF ListedOf, Listed
<1>10. behind + Cardinality(SlippedIn(S, L, D, n)) + Max2(Cardinality(L), n) <= came + expected
  BY <1>0 DEF Owes
<1> HIDE DEF L, n, S, docs, behind, passed
<1>11. ASSUME ~answer.is_end
       PROVE  /\ n + Cardinality(docs) = (r + 1) * PageSize
              /\ Owes(present, stable, came, job.records, job.stack, r + 1, D \cup docs, expected)
  <2>1. n + PageSize < answer.pageable
    BY <1>4, <1>5, <1>6, <1>11
  <2>2. Cardinality(docs) = Min2(n + PageSize, answer.pageable) - n
    <3>1. ~(n >= answer.pageable)
      BY <1>4, <1>5, <1>6, <2>1
    <3> QED
      BY <1>2, <1>4, <1>6, <3>1, PagesCount
  <2>3. Min2(n + PageSize, answer.pageable) = n + PageSize
    BY <1>4, <1>5, <1>6, <2>1 DEF Min2
  <2>4. Cardinality(SlippedIn(S, L, D \cup docs, n + PageSize)) + Max2(Cardinality(L), n + PageSize)
          <= Cardinality(SlippedIn(S, L, D, n)) + Max2(Cardinality(L), n)
    BY <1>2, <1>3, <1>4, <1>6, <2>1, FullPagesKeepTheDebt
  <2> DEFINE before == SlippedIn(S, L, D, n)
             after == SlippedIn(S, L, D \cup docs, n + PageSize)
  <2>5. Cardinality(before) \in Nat /\ Cardinality(after) \in Nat
    <3>1. before \subseteq L /\ after \subseteq L
      BY <1>3 DEF SlippedIn
    <3> HIDE DEF before, after
    <3> QED
      BY <1>2, <3>1, PartsAreFewer
  <2>6. Max2(Cardinality(L), n + PageSize) \in Nat /\ Max2(Cardinality(L), n) \in Nat
    BY <1>2, <1>4, <1>5 DEF Max2
  <2>7. behind + Cardinality(after) + Max2(Cardinality(L), n + PageSize) <= came + expected
    <3> HIDE DEF before, after
    <3>1. /\ Cardinality(after) + Max2(Cardinality(L), n + PageSize) <= Cardinality(before) + Max2(Cardinality(L), n)
          /\ behind + Cardinality(before) + Max2(Cardinality(L), n) <= came + expected
      BY <1>10, <2>4 DEF before, after
    <3> QED
      BY <1>1, <1>9, <2>5, <2>6, <3>1
  <2>8. Owes(present, stable, came, job.records, job.stack, r + 1, D \cup docs, expected)
    <3>1. behind + Cardinality(SlippedIn(S, L, D \cup docs, (r + 1) * PageSize))
             + Max2(Cardinality(L), (r + 1) * PageSize) <= came + expected
      BY <1>4, <2>7
    <3> QED
      BY <1>0, <3>1 DEF Owes, S, behind, passed
  <2> QED
    BY <1>4, <1>5, <2>2, <2>3, <2>8
<1>12. ASSUME answer.is_end, expected <= most,
              n + Cardinality(docs) = expected \/ answer.total = expected
       PROVE  Cardinality(Behind(stable, job.records \cup (D \cup docs), Tail(job.stack))) <= came
  <2> DEFINE missed == {x \in S : x \notin D \cup docs}
             now == Behind(stable, job.records \cup (D \cup docs), Tail(job.stack))
  <2>1. behind + Cardinality(missed) <= came
    <3>1. n + PageSize >= answer.pageable
      BY <1>4, <1>12
    <3>2. behind + Cardinality({x \in S : x \notin D \cup PageAfter(L, n, answer.pageable)}) <= came
      BY <1>1, <1>2, <1>3, <1>4, <1>6, <1>9, <1>10, <1>12, <3>1, LeavesPay
    <3> QED
      BY <1>4, <3>2
  <2>2. now \subseteq passed \cup missed
    <3>1. Behind(stable, job.records, job.stack) = passed
      BY DEF passed
    <3> DEFINE all == D \cup docs
    <3> HIDE DEF all
    <3>2. ASSUME NEW x, x \in Behind(stable, job.records \cup all, Tail(job.stack)),
                 x \notin Behind(stable, job.records, job.stack)
          PROVE  x \in stable /\ x \in Listed(Head(job.stack)) /\ x \notin all
      <4>1. job.stack \in Seq(Cells)
        BY <1>1
      <4> QED
        BY <3>2, <4>1, LeavesPass, Zenon
    <3>3. \A x \in now : x \in passed \/ (x \in stable /\ x \in L /\ x \notin all)
      BY <3>1, <3>2 DEF all, L
    <3>4. \A x : x \in stable /\ x \in L /\ x \notin all => x \in missed
      BY DEF S, all
    <3> QED
      BY <3>3, <3>4
  <2>3. missed \subseteq L
    BY <1>3
  <2> HIDE DEF missed, now
  <2>4. IsFiniteSet(missed) /\ Cardinality(missed) \in Nat
    BY <1>2, <2>3, PartsAreFewer
  <2>5. /\ IsFiniteSet(passed \cup missed) /\ IsFiniteSet(passed \cap missed)
        /\ Cardinality(passed \cup missed) = behind + Cardinality(missed) - Cardinality(passed \cap missed)
    BY <1>9, <2>4, FS_Union, FS_Intersection DEF behind
  <2>6. Cardinality(passed \cap missed) \in Nat
    BY <2>5, FS_CardinalityType
  <2>7. Cardinality(now) \in Nat /\ Cardinality(now) <= Cardinality(passed \cup missed)
    BY <2>2, <2>5, PartsAreFewer
  <2>8. Cardinality(now) <= came
    BY <1>1, <1>9, <2>1, <2>4, <2>5, <2>6, <2>7
  <2> QED
    BY <2>8 DEF now
<1> QED
  BY <1>8, <1>11, <1>12 DEF docs, n

\* Nothing but the job changes.
Reading == UNCHANGED <<present, stable, came, gone, staged, files, jobs>>

\* A step that reads can disturb the job only.
LEMMA ReadingsKeepTheRest ==
    ASSUME SweepInv, Reading,
           \/ job' = None
           \/ /\ job' \in SweepJobs /\ job'.calls <= MaxCalls
              /\ job'.read # Unread => job'.stack # <<>>
              /\ job'.unresolved = {} => SweepIsSound'
    PROVE  SweepInv'
<1>1. SweepTypes'
  BY DEF SweepInv, SweepTypes, Reading
<1>2. PublishedIsSound' /\ \A k \in Sweeps : Readable(k)' => Sound(files[k].cache)'
  BY DEF SweepInv, PublishedIsSound, Readable, Reading, Sound
<1> QED
  BY <1>1, <1>2 DEF SweepInv

\* A job is sound that has nothing of its next cell and passed no more than came,
LEMMA SoundBetweenCells ==
    ASSUME SweepIsSound, Reading, NEW stack, NEW records,
           job'.kind = job.kind, job'.stack = stack, job'.records = records, job'.read = Unread,
           came = 0 /\ gone = 0 => records \subseteq present,
           job.kind = "permits" => stack = <<>>,
           Cardinality(Behind(stable, records, stack)) <= came
    PROVE  SweepIsSound'
<1>1. stable' = stable /\ came' = came
  BY DEF Reading
<1>2. NoneLostUnpaid'
  BY <1>1, NextDebts
<1>3. UndisturbedIsExact'
  BY DEF UndisturbedIsExact, SweepIsSound, Reading, Unread
<1>4. (stable \subseteq present)'
  BY DEF SweepIsSound, Reading
<1> QED
  BY <1>2, <1>3, <1>4 DEF SweepIsSound

\* and one within a cell that owes no more than it can pay.
LEMMA SoundWithinACell ==
    ASSUME SweepIsSound, Reading, job.stack # <<>>, NEW read \in Reads, read # Unread,
           job'.kind = job.kind, job'.stack = job.stack, job'.records = job.records, job'.read = read,
           (came = 0 /\ gone = 0) => read.documents \subseteq present,
           read.count = read.page * PageSize,
           job.kind = "permits" \/ read.expected <= MaxResults,
           Owes(present, stable, came, job.records, job.stack,
                read.page, read.documents, read.expected)
    PROVE  SweepIsSound'
<1>1. present' = present /\ stable' = stable /\ came' = came
  BY DEF Reading
<1>4. NoneLostUnpaid'
  BY <1>1, NextDebts
<1>5. UndisturbedIsExact'
  BY DEF UndisturbedIsExact, SweepIsSound, Reading
<1>6. (stable \subseteq present)'
  BY DEF SweepIsSound, Reading
<1> QED
  BY <1>4, <1>5, <1>6 DEF SweepIsSound

\* What a page brings: places that are there, and the length of the listing.
LEMMA AnswersAreTyped ==
    ASSUME SweepTypes, NEW cell, NEW page, NEW most \in Nat, NEW answer, answer = Page(cell, page, most)
    PROVE  /\ answer.documents \subseteq present /\ Cardinality(answer.documents) \in Nat
           /\ answer.documents \in SUBSET Businesses
           /\ answer.total = Cardinality(Listed(cell)) /\ answer.total \in Nat
           /\ answer.pageable = Min2(answer.total, most) /\ answer.pageable \in Nat
<1> DEFINE L == Listed(cell)
<1>1. /\ L \subseteq present /\ Cardinality(L) \in Nat /\ IsFiniteSet(L) /\ present \subseteq Businesses
  BY ListingsAreFinite DEF SweepTypes
<1>2. /\ answer.documents \subseteq L
      /\ answer.total = Cardinality(L) /\ answer.pageable = Min2(Cardinality(L), most)
  BY DEF Page
<1> HIDE DEF L
<1>3. Cardinality(answer.documents) \in Nat
  BY <1>1, <1>2, PartsAreFewer
<1>4. Min2(Cardinality(L), most) \in Nat
  BY <1>1 DEF Min2
<1> QED
  BY <1>1, <1>2, <1>3, <1>4 DEF L

\* What was read of a cell, with one more page,
LEMMA ReadsGoOn ==
    ASSUME NEW read \in Reads, NEW answer, answer.documents \in SUBSET Businesses,
           Cardinality(answer.documents) \in Nat
    PROVE  LET next == With(read, answer) IN
           /\ next \in Reads /\ next # Unread
           /\ next.page = read.page + 1 /\ next.documents = read.documents \cup answer.documents
           /\ next.count = read.count + Cardinality(answer.documents) /\ next.expected = read.expected
<1>1. /\ read.page \in Nat /\ read.documents \in SUBSET Businesses /\ read.count \in Nat /\ read.expected \in Nat
  BY DEF Reads
<1> DEFINE next == With(read, answer)
<1>2. /\ next.page = read.page + 1 /\ next.documents = read.documents \cup answer.documents
      /\ next.count = read.count + Cardinality(answer.documents) /\ next.expected = read.expected
      /\ next \in Reads
  BY <1>1 DEF With, Reads
<1>3. next # Unread
  BY <1>1, <1>2 DEF Unread
<1> QED
  BY <1>2, <1>3

\* and with none.
LEMMA NothingIsRead ==
    /\ Unread \in Reads /\ Unread.page = 0 /\ Unread.documents = {} /\ Unread.count = 0
    /\ \A expected \in Nat :
          LET read == [Unread EXCEPT !.expected = expected] IN
          /\ read \in Reads /\ read.page = 0 /\ read.documents = {} /\ read.count = 0
          /\ read.expected = expected
  BY DEF Unread, Reads

\* A cell of which nothing is read yet owes what was passed before it.
LEMMA CellsBeginWithoutDebt ==
    ASSUME SweepTypes, stable \subseteq present, NEW records, NEW stack,
           Cardinality(Behind(stable, records, stack)) <= came
    PROVE  Owes(present, stable, came, records, stack, 0, {}, Cardinality(Listed(Head(stack))))
<1> DEFINE L == ListedOf(present, Head(stack))
<1>1. L = Listed(Head(stack))
  BY DEF ListedOf, Listed
<1>2. /\ Cardinality(L) \in Nat /\ IsFiniteSet(L) /\ L \in SUBSET Nat
  BY <1>1, ListingsAreFinite DEF SweepTypes
<1> HIDE DEF L
<1>3. SlippedIn(stable \cap L, L, {}, 0 * PageSize) = {}
  <2>1. \A x \in L : Ahead(x, L) \in Nat
    BY <1>2, AheadIsANumber
  <2>2. 0 * PageSize = 0
    BY SweepAssumption
  <2> QED
    BY <2>1, <2>2 DEF SlippedIn
<1>4. Max2(Cardinality(L), 0 * PageSize) = Cardinality(L)
  <2>1. 0 * PageSize = 0
    BY SweepAssumption
  <2> QED
    BY <1>2, <2>1 DEF Max2
<1>5. Cardinality(SlippedIn(stable \cap L, L, {}, 0 * PageSize)) = 0
  BY <1>3, FS_EmptySet
<1>6. Cardinality(Behind(stable, records, stack)) \in Nat /\ came \in Nat
  <2>1. Behind(stable, records, stack) \subseteq Businesses
    BY DEF Behind, SweepTypes
  <2> QED
    BY <2>1, PartsAreFewer, SweepAssumption DEF SweepTypes
<1>7. Cardinality(Behind(stable, records, stack)) + Cardinality(SlippedIn(stable \cap L, L, {}, 0 * PageSize))
        + Max2(Cardinality(L), 0 * PageSize) <= came + Cardinality(L)
  BY <1>2, <1>4, <1>5, <1>6
<1> QED
  BY <1>1, <1>7 DEF Owes, L

\* A job as its invariant types it.
LEMMA JobsAreTyped ==
    ASSUME SweepInv, job # None
    PROVE  /\ job \in SweepJobs /\ job.calls \in Nat /\ job.calls <= MaxCalls
           /\ job.stack \in Seq(Cells) /\ job.read \in Reads /\ job.records \in SUBSET Businesses
           /\ job.unresolved \in SUBSET Reasons /\ job.kind \in Sweeps
           /\ job.unresolved = {} => SweepIsSound
           /\ job.read # Unread => job.stack # <<>>
           /\ SweepTypes /\ MaxCalls \in Nat
           /\ job.stack # <<>> => Head(job.stack) \in Cells /\ Tail(job.stack) \in Seq(Cells)
<1>1. /\ job \in SweepJobs /\ job.calls <= MaxCalls /\ SweepTypes
      /\ job.unresolved = {} => SweepIsSound
      /\ job.read # Unread => job.stack # <<>>
  BY DEF SweepInv, SweepTypes
<1>2. /\ job.calls \in Nat /\ job.stack \in Seq(Cells) /\ job.read \in Reads
      /\ job.records \in SUBSET Businesses
      /\ job.unresolved \in SUBSET Reasons /\ job.kind \in Sweeps
  BY <1>1 DEF SweepJobs
<1>3. job.stack # <<>> => Head(job.stack) \in Cells /\ Tail(job.stack) \in Seq(Cells)
  BY <1>2
<1> QED
  BY <1>1, <1>2, <1>3, SweepAssumption

\* A leaf that ends after one more page of its cell.
LEMMA LeavesAreSound ==
    ASSUME SweepInv, Reading, job # None, job.kind = "kakao", job.stack # <<>>, job.calls < MaxCalls,
           NEW read \in Reads, NEW answer,
           answer = Page(Head(job.stack), read.page + 1, MaxResults), answer.is_end,
           job.unresolved = {} =>
               /\ Owes(present, stable, came, job.records, job.stack, read.page, read.documents, read.expected)
               /\ read.count = read.page * PageSize /\ read.expected <= MaxResults
               /\ (came = 0 /\ gone = 0) => read.documents \subseteq present,
           Leaf(With(read, answer))
    PROVE  SweepInv'
<1> DEFINE next == With(read, answer)
           records == job.records \cup next.documents
<1>1. /\ job \in SweepJobs /\ job.calls \in Nat /\ job.stack \in Seq(Cells)
      /\ job.records \in SUBSET Businesses /\ SweepTypes /\ MaxCalls \in Nat
      /\ Tail(job.stack) \in Seq(Cells) /\ job.calls + 1 \in Nat /\ job.calls + 1 <= MaxCalls
      /\ job.unresolved = {} => SweepIsSound
  BY JobsAreTyped
<1>2. /\ answer.documents \subseteq present /\ answer.documents \in SUBSET Businesses
      /\ Cardinality(answer.documents) \in Nat /\ MaxResults \in Nat
  BY <1>1, AnswersAreTyped, SweepAssumption
<1>3. /\ next \in Reads /\ next.documents = read.documents \cup answer.documents
      /\ next.count = read.count + Cardinality(answer.documents) /\ next.expected = read.expected
  BY <1>2, ReadsGoOn
<1>4. next.documents \in SUBSET Businesses /\ records \in SUBSET Businesses
  BY <1>1, <1>3 DEF Reads
<1> HIDE DEF next
<1>5. CASE ~Complete(next)
  <2>1. job' = [job EXCEPT !.stack = Tail(@), !.read = Unread,
                           !.unresolved = @ \cup {"pageable_count_mismatch"}, !.calls = @ + 1]
    BY <1>5 DEF Leaf, Unresolved, next
  <2>2. job' = [job EXCEPT !.stack = Tail(job.stack), !.read = Unread,
                           !.unresolved = @ \cup {"pageable_count_mismatch"}, !.calls = job.calls + 1]
    BY <2>1
  <2>3. "pageable_count_mismatch" \in Reasons
    BY DEF Reasons
  <2>4. job' \in SweepJobs /\ job'.calls = job.calls + 1 /\ job'.unresolved # {} /\ job'.read = Unread
    BY <1>1, <2>1, NothingIsRead DEF SweepJobs, Reasons
  <2> QED
    BY <1>1, <2>4, ReadingsKeepTheRest
<1>6. CASE Complete(next)
  <2>1. job' = [job EXCEPT !.stack = Tail(@), !.read = Unread, !.calls = @ + 1,
                           !.records = @ \cup next.documents]
    BY <1>6 DEF Leaf, next
  <2>2. job' = [job EXCEPT !.stack = Tail(job.stack), !.read = Unread, !.calls = job.calls + 1,
                           !.records = records]
    BY <2>1
  <2>3. /\ job' \in SweepJobs /\ job'.calls = job.calls + 1 /\ job'.unresolved = job.unresolved
        /\ job'.kind = job.kind /\ job'.stack = Tail(job.stack) /\ job'.records = records
        /\ job'.read = Unread
    <3> HIDE DEF records
    <3> QED
      BY <1>1, <1>3, <1>4, <2>1, NothingIsRead DEF SweepJobs, records
  <2>4. ASSUME job'.unresolved = {} PROVE SweepIsSound'
    <3>1. /\ SweepIsSound /\ stable \subseteq present
          /\ Owes(present, stable, came, job.records, job.stack, read.page, read.documents, read.expected)
          /\ read.count = read.page * PageSize /\ read.expected <= MaxResults
          /\ (came = 0 /\ gone = 0) => read.documents \subseteq present
      BY <1>1, <2>3, <2>4 DEF SweepIsSound
    <3>2. read.page * PageSize + Cardinality(answer.documents) = read.expected
      BY <1>3, <1>6, <3>1 DEF Complete
    <3>3. Cardinality(Behind(stable, job.records \cup (read.documents \cup answer.documents),
                             Tail(job.stack))) <= came
      <4>1. read.page \in Nat /\ read.documents \in SUBSET Businesses /\ read.expected \in Nat
        BY DEF Reads
      <4> QED
        BY <1>1, <1>2, <3>1, <3>2, <4>1, PagesStaySound
    <3>4. Cardinality(Behind(stable, records, Tail(job.stack))) <= came
      BY <1>3, <3>3
    <3>5. came = 0 /\ gone = 0 => records \subseteq present
      BY <1>2, <1>3, <3>1 DEF SweepIsSound, UndisturbedIsExact
    <3>6. job.kind # "permits"
      OBVIOUS
    <3> HIDE DEF records
    <3> QED
      BY <2>3, <3>1, <3>4, <3>5, <3>6, SoundBetweenCells
  <2> QED
    BY <1>1, <2>3, <2>4, ReadingsKeepTheRest
<1> QED
  BY <1>5, <1>6

\* A page that is not the last of its cell.
LEMMA PagesAreSound ==
    ASSUME SweepInv, Reading, job # None, job.stack # <<>>,
           NEW calls \in Nat, calls <= MaxCalls, NEW most \in Nat,
           NEW read \in Reads, NEW answer,
           answer = Page(Head(job.stack), read.page + 1, most), ~answer.is_end,
           job.unresolved = {} =>
               /\ Owes(present, stable, came, job.records, job.stack, read.page, read.documents, read.expected)
               /\ read.count = read.page * PageSize
               /\ (job.kind = "permits" \/ read.expected <= MaxResults)
               /\ (came = 0 /\ gone = 0) => read.documents \subseteq present,
           job' = [job EXCEPT !.calls = calls, !.read = With(read, answer)]
    PROVE  SweepInv'
<1> DEFINE next == With(read, answer)
<1>1. /\ job \in SweepJobs /\ job.stack \in Seq(Cells) /\ SweepTypes
      /\ job.unresolved = {} => SweepIsSound
  BY JobsAreTyped
<1>2. /\ answer.documents \subseteq present /\ answer.documents \in SUBSET Businesses
      /\ Cardinality(answer.documents) \in Nat
  BY <1>1, AnswersAreTyped
<1>3. /\ next \in Reads /\ next # Unread /\ next.page = read.page + 1
      /\ next.documents = read.documents \cup answer.documents
      /\ next.count = read.count + Cardinality(answer.documents) /\ next.expected = read.expected
  BY <1>2, ReadsGoOn
<1>4. job' = [job EXCEPT !.calls = calls, !.read = next]
  OBVIOUS
<1> HIDE DEF next
<1>5. /\ job' \in SweepJobs /\ job'.calls = calls /\ job'.unresolved = job.unresolved
      /\ job'.kind = job.kind /\ job'.stack = job.stack /\ job'.records = job.records
      /\ job'.read = next
  BY <1>1, <1>3, <1>4 DEF SweepJobs
<1>6. ASSUME job'.unresolved = {} PROVE SweepIsSound'
  <2>1. /\ SweepIsSound /\ stable \subseteq present
        /\ Owes(present, stable, came, job.records, job.stack, read.page, read.documents, read.expected)
        /\ read.count = read.page * PageSize
        /\ (job.kind = "permits" \/ read.expected <= MaxResults)
    BY <1>1, <1>5, <1>6 DEF SweepIsSound
  <2>2. read.page \in Nat /\ read.documents \in SUBSET Businesses /\ read.expected \in Nat
    BY DEF Reads
  <2>3. /\ read.page * PageSize + Cardinality(answer.documents) = (read.page + 1) * PageSize
        /\ Owes(present, stable, came, job.records, job.stack,
                read.page + 1, read.documents \cup answer.documents, read.expected)
    <3>1. answer = Page(Head(job.stack), read.page + 1, most) /\ ~answer.is_end
      OBVIOUS
    <3>2. SweepTypes /\ stable \subseteq present /\ job # None /\ job.stack # <<>>
      BY <1>1, <2>1
    <3>3. /\ Owes(present, stable, came, job.records, job.stack, read.page, read.documents, read.expected)
      BY <2>1
    <3> QED
      BY <2>2, <3>1, <3>2, <3>3, PagesStaySound, Zenon
  <2>6. read.count + Cardinality(answer.documents) = (read.page + 1) * PageSize
    BY <2>1, <2>3
  <2>4. /\ next.count = next.page * PageSize
        /\ Owes(present, stable, came, job.records, job.stack, next.page, next.documents, next.expected)
        /\ (job.kind = "permits" \/ next.expected <= MaxResults)
    BY <1>3, <2>1, <2>3, <2>6
  <2>5. came = 0 /\ gone = 0 => next.documents \subseteq present
    BY <1>2, <1>3, <1>5, <1>6
  <2> QED
    BY <1>3, <1>5, <2>1, <2>4, <2>5, SoundWithinACell
<1> QED
  BY <1>5, <1>6, ReadingsKeepTheRest


\* A cell given up, or a sweep out of calls: what is left is not complete.
LEMMA FailuresAreSound ==
    ASSUME SweepInv, Reading, job # None, NEW reason \in Reasons, NEW stack \in Seq(Cells),
           NEW calls \in Nat, calls <= MaxCalls,
           job' = [job EXCEPT !.stack = stack, !.read = Unread,
                              !.unresolved = @ \cup {reason}, !.calls = calls]
    PROVE  SweepInv'
<1>1. job \in SweepJobs
  BY JobsAreTyped
<1>2. job' \in SweepJobs /\ job'.calls = calls /\ job'.unresolved # {} /\ job'.read = Unread
  BY <1>1, NothingIsRead DEF SweepJobs
<1> QED
  BY <1>2, ReadingsKeepTheRest

\* query's budget.
LEMMA BudgetExhaustedIsSound ==
    ASSUME SweepInv, BudgetExhausted
    PROVE  SweepInv'
<1>1. job # None /\ Reading
  BY DEF BudgetExhausted, Reading
<1>2. job \in SweepJobs /\ job.calls \in Nat /\ job.calls <= MaxCalls
  BY <1>1, JobsAreTyped
<1>3. job' = [job EXCEPT !.stack = <<>>, !.read = Unread, !.unresolved = @ \cup {"call_budget_exhausted"}]
  BY DEF BudgetExhausted
<1>4. job' \in SweepJobs /\ job'.calls = job.calls /\ job'.unresolved # {} /\ job'.read = Unread
  <2>1. "call_budget_exhausted" \in Reasons
    BY DEF Reasons
  <2> DEFINE reason == "call_budget_exhausted"
             left == <<>>
  <2>2. left \in Seq(Cells)
    OBVIOUS
  <2>3. job' = [job EXCEPT !.stack = left, !.read = Unread, !.unresolved = @ \cup {reason}]
    BY <1>3
  <2> HIDE DEF reason, left
  <2> QED
    BY <1>2, <2>1, <2>2, <2>3, NothingIsRead DEF SweepJobs, reason
<1> QED
  BY <1>1, <1>2, <1>4, ReadingsKeepTheRest

\* A read begins with the first page of a cell.
LEMMA ReadsBegin ==
    ASSUME SweepInv, job # None, job.read = Unread, job.stack # <<>>, NEW expected,
           expected = Cardinality(Listed(Head(job.stack)))
    PROVE  LET read == [Unread EXCEPT !.expected = expected] IN
           /\ read \in Reads /\ read.page = 0 /\ read.documents = {} /\ read.expected = expected
           /\ read.count = read.page * PageSize
           /\ job.unresolved = {} =>
                 Owes(present, stable, came, job.records, job.stack, read.page, read.documents, read.expected)
<1> DEFINE read == [Unread EXCEPT !.expected = expected]
<1>1. SweepTypes /\ (job.unresolved = {} => SweepIsSound)
  BY JobsAreTyped
<1>2. expected \in Nat
  BY <1>1, ListingsAreFinite DEF SweepTypes
<1>3. /\ read \in Reads /\ read.page = 0 /\ read.documents = {} /\ read.expected = expected /\ read.count = 0
  BY <1>2, NothingIsRead
<1> HIDE DEF read
<1>4. read.count = read.page * PageSize
  BY <1>3, SweepAssumption
<1>5. ASSUME job.unresolved = {}
      PROVE  Owes(present, stable, came, job.records, job.stack, read.page, read.documents, read.expected)
  <2>1. SweepIsSound /\ stable \subseteq present
    BY <1>1, <1>5 DEF SweepIsSound
  <2>2. Cardinality(Behind(stable, job.records, job.stack)) <= came
    BY <2>1, Debts DEF SweepIsSound
  <2>3. Owes(present, stable, came, job.records, job.stack, 0, {}, Cardinality(Listed(Head(job.stack))))
    BY <1>1, <2>1, <2>2, CellsBeginWithoutDebt, Zenon
  <2> QED
    BY <1>3, <2>3
<1> QED
  BY <1>3, <1>4, <1>5 DEF read


\* A cell that is split owes what it did.
LEMMA SplitsAreSound ==
    ASSUME SweepInv, Reading, job # None, job.kind = "kakao", job.stack # <<>>, job.read = Unread,
           job.calls < MaxCalls, Len(Head(job.stack)) < MaxDepth,
           NEW split, split = Children(Head(job.stack)) \o Tail(job.stack),
           job' = [job EXCEPT !.stack = split, !.calls = @ + 1]
    PROVE  SweepInv'
<1>1. /\ job \in SweepJobs /\ job.calls \in Nat /\ job.stack \in Seq(Cells) /\ SweepTypes /\ MaxCalls \in Nat
      /\ job.records \in SUBSET Businesses
      /\ job.unresolved = {} => SweepIsSound
  BY JobsAreTyped
<1>2. job' = [job EXCEPT !.stack = split, !.calls = job.calls + 1]
  OBVIOUS
<1>3. ASSUME NEW S \in SUBSET Businesses
      PROVE  split \in Seq(Cells) /\ Behind(S, job.records, split) \subseteq Behind(S, job.records, job.stack)
  BY <1>1, SplitsPassNothing
<1>4. split \in Seq(Cells)
  BY <1>3
<1>5. /\ job' \in SweepJobs /\ job'.calls = job.calls + 1 /\ job'.unresolved = job.unresolved
      /\ job'.kind = job.kind /\ job'.stack = split /\ job'.records = job.records
      /\ job'.read = Unread
  <2>1. job.calls + 1 \in Nat
    BY <1>1
  <2>2. job' \in SweepJobs
    BY <1>1, <1>2, <1>4, <2>1 DEF SweepJobs
  <2>3. job'.calls = job.calls + 1 /\ job'.stack = split
    BY <1>1, <1>2 DEF SweepJobs
  <2>4. job'.unresolved = job.unresolved /\ job'.kind = job.kind /\ job'.records = job.records
    BY <1>1, <1>2 DEF SweepJobs
  <2>5. job'.read = job.read
    BY <1>1, <1>2 DEF SweepJobs
  <2> QED
    BY <2>2, <2>3, <2>4, <2>5
<1>6. ASSUME job'.unresolved = {} PROVE SweepIsSound'
  <2>1. SweepIsSound /\ stable \subseteq present /\ present \subseteq Businesses /\ came \in Nat
    BY <1>1, <1>5, <1>6 DEF SweepIsSound, SweepTypes
  <2> DEFINE before == Behind(stable, job.records, job.stack)
             after == Behind(stable, job.records, split)
  <2>2. Cardinality(before) <= came
    BY <2>1, Debts DEF SweepIsSound
  <2>3. after \subseteq before /\ before \subseteq Businesses
    BY <1>3, <2>1 DEF Behind
  <2> HIDE DEF before, after
  <2>4. /\ Cardinality(after) \in Nat /\ Cardinality(before) \in Nat
        /\ Cardinality(after) <= Cardinality(before)
    BY <2>3, PartsAreFewer, SweepAssumption
  <2>5. Cardinality(after) <= came
    BY <2>1, <2>2, <2>4
  <2>6. (came = 0 /\ gone = 0) => job.records \subseteq present
    BY <2>1 DEF SweepIsSound, UndisturbedIsExact
  <2>7. job.kind # "permits"
    OBVIOUS
  <2> QED
    BY <1>5, <2>1, <2>5, <2>6, <2>7, SoundBetweenCells DEF after
<1> QED
  BY <1>1, <1>5, <1>6, ReadingsKeepTheRest

\* visit keeps the invariant.
LEMMA VisitIsSound ==
    ASSUME SweepInv, Visit
    PROVE  SweepInv'
<1> DEFINE cell == Head(job.stack)
           first == Page(cell, 1, MaxResults)
           nothing == [Unread EXCEPT !.expected = first.pageable]
           read == FirstRead(first.pageable, first)
<1>1. /\ job # None /\ job.kind = "kakao" /\ job.stack # <<>> /\ job.read = Unread /\ job.calls < MaxCalls
      /\ Reading
  BY DEF Visit, Reading
<1>2. /\ job \in SweepJobs /\ job.calls \in Nat /\ job.stack \in Seq(Cells) /\ SweepTypes /\ MaxCalls \in Nat
      /\ Tail(job.stack) \in Seq(Cells) /\ cell \in Cells /\ job.calls + 1 \in Nat /\ job.calls + 1 <= MaxCalls
      /\ job.unresolved = {} => SweepIsSound
  BY <1>1, JobsAreTyped
<1>3. /\ first.total = Cardinality(Listed(cell)) /\ first.total \in Nat /\ MaxResults \in Nat
      /\ first.pageable = Min2(first.total, MaxResults) /\ first.pageable \in Nat
  BY <1>2, AnswersAreTyped, SweepAssumption
<1>4. IF first.total > MaxResults
      THEN IF Len(cell) >= MaxDepth THEN Unresolved("saturated")
           ELSE job' = [job EXCEPT !.stack = Children(cell) \o Tail(@), !.calls = @ + 1]
      ELSE IF first.is_end THEN Leaf(read)
      ELSE job' = [job EXCEPT !.calls = @ + 1, !.read = read]
  BY DEF Visit
<1>5. CASE first.total > MaxResults /\ Len(cell) >= MaxDepth
  <2> DEFINE reason == "saturated"
  <2>1. job' = [job EXCEPT !.stack = Tail(job.stack), !.read = Unread,
                           !.unresolved = @ \cup {reason}, !.calls = job.calls + 1]
    BY <1>4, <1>5 DEF Unresolved
  <2>2. reason \in Reasons
    BY DEF Reasons
  <2> HIDE DEF reason
  <2> QED
    BY <1>1, <1>2, <2>1, <2>2, FailuresAreSound
<1>6. CASE first.total > MaxResults /\ ~(Len(cell) >= MaxDepth)
  <2> DEFINE split == Children(Head(job.stack)) \o Tail(job.stack)
  <2>1. job' = [job EXCEPT !.stack = split, !.calls = @ + 1]
    BY <1>4, <1>6
  <2>2. Len(Head(job.stack)) < MaxDepth
    BY <1>2, <1>6, CellsAreSequences, SweepAssumption
  <2>3. split = Children(Head(job.stack)) \o Tail(job.stack)
    OBVIOUS
  <2> HIDE DEF split
  <2> QED
    BY <1>1, <2>1, <2>2, <2>3, SplitsAreSound
<1>7. CASE ~(first.total > MaxResults)
  <2>1. first.pageable = Cardinality(Listed(Head(job.stack))) /\ first.pageable <= MaxResults
    BY <1>3, <1>7 DEF Min2
  <2>2. /\ nothing \in Reads /\ nothing.page = 0 /\ nothing.documents = {}
        /\ nothing.expected = first.pageable /\ nothing.count = nothing.page * PageSize
        /\ job.unresolved = {} =>
              Owes(present, stable, came, job.records, job.stack,
                   nothing.page, nothing.documents, nothing.expected)
    <3> HIDE DEF first
    <3> QED
      BY <1>1, <2>1, ReadsBegin
  <2>3. read = With(nothing, first)
    BY DEF FirstRead
  <2>4. first = Page(Head(job.stack), nothing.page + 1, MaxResults)
    <3>1. nothing.page + 1 = 1
      BY <2>2
    <3> QED
      BY <3>1
  <2> HIDE DEF first, nothing, read
  <2>5. job.unresolved = {} =>
          /\ Owes(present, stable, came, job.records, job.stack,
                  nothing.page, nothing.documents, nothing.expected)
          /\ nothing.count = nothing.page * PageSize /\ nothing.expected <= MaxResults
          /\ (came = 0 /\ gone = 0) => nothing.documents \subseteq present
    BY <2>1, <2>2
  <2>6. CASE first.is_end
    <3>1. Leaf(With(nothing, first))
      BY <1>4, <1>7, <2>3, <2>6
    <3> QED
      BY <1>1, <2>2, <2>4, <2>5, <2>6, <3>1, LeavesAreSound
  <2>7. CASE ~first.is_end
    <3>1. job' = [job EXCEPT !.calls = job.calls + 1, !.read = With(nothing, first)]
      BY <1>4, <1>7, <2>3, <2>7
    <3>2. job.unresolved = {} =>
          /\ Owes(present, stable, came, job.records, job.stack,
                  nothing.page, nothing.documents, nothing.expected)
          /\ nothing.count = nothing.page * PageSize
          /\ (job.kind = "permits" \/ nothing.expected <= MaxResults)
          /\ (came = 0 /\ gone = 0) => nothing.documents \subseteq present
      BY <2>5
    <3> QED
      BY <1>1, <1>2, <1>3, <2>2, <2>4, <2>7, <3>1, <3>2, PagesAreSound
  <2> QED
    BY <2>6, <2>7
<1> QED
  BY <1>5, <1>6, <1>7

\* The pages after the first.
LEMMA NextPageIsSound ==
    ASSUME SweepInv, NextPage
    PROVE  SweepInv'
<1> DEFINE read == job.read
           answer == Page(Head(job.stack), read.page + 1, MaxResults)
<1>1. job # None /\ job.kind = "kakao" /\ read # Unread /\ Reading
  BY DEF NextPage, Reading
<1>2. /\ job \in SweepJobs /\ job.calls \in Nat /\ job.stack \in Seq(Cells) /\ SweepTypes /\ MaxCalls \in Nat
      /\ read \in Reads /\ job.calls <= MaxCalls /\ MaxResults \in Nat /\ job.stack # <<>>
      /\ Tail(job.stack) \in Seq(Cells)
      /\ job.unresolved = {} => SweepIsSound
  BY <1>1, JobsAreTyped, SweepAssumption
<1>3. IF read.page >= MaxPages
      THEN job' = [job EXCEPT !.stack = Tail(@), !.read = Unread,
                              !.unresolved = @ \cup {"page_limit_not_end"}]
      ELSE /\ job.calls < MaxCalls
           /\ IF answer.is_end THEN Leaf(With(read, answer))
              ELSE job' = [job EXCEPT !.calls = @ + 1, !.read = With(read, answer)]
  BY DEF NextPage
<1>4. job.unresolved = {} =>
        /\ Owes(present, stable, came, job.records, job.stack, read.page, read.documents, read.expected)
        /\ read.count = read.page * PageSize /\ read.expected <= MaxResults
        /\ (came = 0 /\ gone = 0) => read.documents \subseteq present
  <2>1. SUFFICES ASSUME SweepIsSound
                 PROVE  /\ Owes(present, stable, came, job.records, job.stack,
                                read.page, read.documents, read.expected)
                        /\ read.count = read.page * PageSize /\ read.expected <= MaxResults
                        /\ (came = 0 /\ gone = 0) => read.documents \subseteq present
    BY <1>2
  <2>2. Owes(present, stable, came, job.records, job.stack, read.page, read.documents, read.expected)
    BY <1>1, <2>1, Debts DEF SweepIsSound
  <2>3. read.count = read.page * PageSize /\ read.expected <= MaxResults
    BY <1>1, <2>1 DEF SweepIsSound
  <2>4. (came = 0 /\ gone = 0) => read.documents \subseteq present
    BY <2>1 DEF SweepIsSound, UndisturbedIsExact
  <2> QED
    BY <2>2, <2>3, <2>4
<1>5. CASE read.page >= MaxPages
  <2> DEFINE reason == "page_limit_not_end"
  <2>1. job' = [job EXCEPT !.stack = Tail(job.stack), !.read = Unread, !.unresolved = @ \cup {reason}]
    BY <1>3, <1>5
  <2>2. reason \in Reasons
    BY DEF Reasons
  <2> HIDE DEF reason
  <2>3. job' \in SweepJobs /\ job'.calls = job.calls /\ job'.unresolved # {} /\ job'.read = Unread
    BY <1>2, <2>1, <2>2, NothingIsRead DEF SweepJobs
  <2> QED
    BY <1>1, <1>2, <2>3, ReadingsKeepTheRest
<1>6. CASE ~(read.page >= MaxPages) /\ answer.is_end
  <2>1. job.calls < MaxCalls /\ Leaf(With(read, answer))
    BY <1>3, <1>6
  <2>2. answer = Page(Head(job.stack), read.page + 1, MaxResults) /\ answer.is_end
    BY <1>6
  <2> HIDE DEF read, answer
  <2> QED
    BY <1>1, <1>2, <1>4, <2>1, <2>2, LeavesAreSound
<1>7. CASE ~(read.page >= MaxPages) /\ ~answer.is_end
  <2>1. job.calls < MaxCalls /\ job' = [job EXCEPT !.calls = job.calls + 1, !.read = With(read, answer)]
    BY <1>3, <1>7
  <2>2. answer = Page(Head(job.stack), read.page + 1, MaxResults) /\ ~answer.is_end
    BY <1>7
  <2>3. job.calls + 1 \in Nat /\ job.calls + 1 <= MaxCalls
    BY <1>2, <2>1
  <2> HIDE DEF read, answer
  <2>4. job.unresolved = {} =>
          /\ Owes(present, stable, came, job.records, job.stack, read.page, read.documents, read.expected)
          /\ read.count = read.page * PageSize
          /\ (job.kind = "permits" \/ read.expected <= MaxResults)
          /\ (came = 0 /\ gone = 0) => read.documents \subseteq present
    BY <1>4
  <2> QED
    BY <1>1, <1>2, <2>1, <2>2, <2>3, <2>4, PagesAreSound
<1> QED
  BY <1>5, <1>6, <1>7


\* The permit pages end where their total does.
LEMMA LastPagesEnd ==
    ASSUME SweepTypes, NEW cell, NEW page \in Nat, NEW answer,
           answer = Page(cell, page, Cardinality(Businesses))
    PROVE  answer.is_end <=> page * PageSize >= answer.total
<1> DEFINE L == Listed(cell)
           pageable == Min2(Cardinality(L), Cardinality(Businesses))
           ended == page * PageSize >= pageable
           documents == {p \in L : /\ Ahead(p, L) >= (page - 1) * PageSize
                                   /\ Ahead(p, L) < Min2(page * PageSize, pageable)}
<1>1. answer = [total |-> Cardinality(L), pageable |-> pageable, is_end |-> ended, documents |-> documents]
  BY Zenon DEF Page
<1>2. ended \in BOOLEAN
  OBVIOUS
<1>3. pageable = Cardinality(L)
  <2>1. Cardinality(L) \in Nat /\ Cardinality(Businesses) \in Nat /\ Cardinality(L) <= Cardinality(Businesses)
    BY ListingsAreFinite DEF SweepTypes
  <2> QED
    BY <2>1 DEF Min2
<1> HIDE DEF ended, documents
<1>4. answer.total = Cardinality(L) /\ (answer.is_end <=> ended)
  BY <1>1, <1>2, AnswersTell
<1> QED
  BY <1>3, <1>4 DEF ended

\* The permit pages keep it.
LEMMA PermitPageIsSound ==
    ASSUME SweepInv, PermitPage
    PROVE  SweepInv'
<1> DEFINE answer == Page(<<>>, job.read.page + 1, Cardinality(Businesses))
           start == IF job.read = Unread THEN [Unread EXCEPT !.expected = answer.total] ELSE job.read
           read == With(start, answer)
<1>1. job # None /\ job.kind = "permits" /\ job.stack # <<>> /\ Reading
  BY DEF PermitPage, Reading
<1>2. /\ job \in SweepJobs /\ job.calls \in Nat /\ job.stack \in Seq(Cells) /\ SweepTypes /\ job.calls <= MaxCalls
      /\ job.read \in Reads /\ Cardinality(Businesses) \in Nat
      /\ job.unresolved = {} => SweepIsSound
  BY <1>1, JobsAreTyped, FS_CardinalityType, SweepAssumption
<1>3. /\ answer.documents \subseteq present /\ answer.documents \in SUBSET Businesses
      /\ Cardinality(answer.documents) \in Nat
      /\ answer.total = Cardinality(Listed(<<>>)) /\ answer.total \in Nat
      /\ answer.total <= Cardinality(Businesses)
  <2>1. Cardinality(Listed(<<>>)) <= Cardinality(Businesses)
    BY <1>2, ListingsAreFinite DEF SweepTypes
  <2> QED
    BY <1>2, <2>1, AnswersAreTyped
<1> HIDE DEF answer
<1>4. start \in Reads /\ start.page = job.read.page /\ start.page \in Nat
      /\ start.documents \in SUBSET Businesses /\ start.expected \in Nat
  <2>1. start \in Reads /\ start.page = job.read.page
    BY <1>2, <1>3, NothingIsRead
  <2> QED
    BY <2>1 DEF Reads
<1> HIDE DEF start
<1>5. /\ read \in Reads /\ read # Unread /\ read.page = start.page + 1
      /\ read.documents = start.documents \cup answer.documents
      /\ read.expected = start.expected /\ read.documents \in SUBSET Businesses
  <2>1. /\ read \in Reads /\ read # Unread /\ read.page = start.page + 1
        /\ read.documents = start.documents \cup answer.documents
        /\ read.expected = start.expected
    BY <1>3, <1>4, ReadsGoOn
  <2> QED
    BY <1>3, <1>4, <2>1
<1> HIDE DEF read
<1>6. IF answer.total # read.expected THEN job' = None
      ELSE IF read.page * PageSize >= read.expected
      THEN job' = [job EXCEPT !.stack = <<>>, !.read = Unread, !.records = read.documents]
      ELSE job' = [job EXCEPT !.read = read]
  <2>1. read = IF job.read = Unread THEN FirstRead(answer.total, answer) ELSE With(job.read, answer)
    BY DEF read, start, FirstRead
  <2> QED
    BY <2>1 DEF PermitPage, answer
<1>0. ASSUME job.unresolved = {}
      PROVE  /\ SweepIsSound /\ stable \subseteq present
             /\ Head(job.stack) = <<>> /\ Tail(job.stack) = <<>> /\ job.records = {}
             /\ Owes(present, stable, came, job.records, job.stack, start.page, start.documents, start.expected)
             /\ start.count = start.page * PageSize
             /\ (came = 0 /\ gone = 0) => start.documents \subseteq present
  <2>1. SweepIsSound /\ stable \subseteq present
    BY <1>0, <1>2 DEF SweepIsSound
  <2>2. job.stack = << <<>> >> /\ job.records = {}
    BY <1>1, <2>1 DEF SweepIsSound
  <2>3. Head(job.stack) = <<>> /\ Tail(job.stack) = <<>>
    BY <2>2
  <2>4. CASE job.read = Unread
    <3>1. start = [Unread EXCEPT !.expected = answer.total]
      BY <2>4 DEF start
    <3>2. answer.total = Cardinality(Listed(Head(job.stack)))
      BY <1>3, <2>3
    <3>3. /\ start.page = 0 /\ start.documents = {}
          /\ start.count = start.page * PageSize
          /\ Owes(present, stable, came, job.records, job.stack, start.page, start.documents, start.expected)
      BY <1>0, <1>1, <2>4, <3>1, <3>2, ReadsBegin
    <3> QED
      BY <2>1, <2>2, <2>3, <3>3
  <2>5. CASE job.read # Unread
    <3>1. start = job.read
      BY <2>5 DEF start
    <3>2. Owes(present, stable, came, job.records, job.stack,
               job.read.page, job.read.documents, job.read.expected)
      BY <2>1, <2>5, Debts DEF SweepIsSound
    <3>3. job.read.count = job.read.page * PageSize
      BY <2>1, <2>5 DEF SweepIsSound
    <3>4. (came = 0 /\ gone = 0) => job.read.documents \subseteq present
      BY <2>1 DEF SweepIsSound, UndisturbedIsExact
    <3> QED
      BY <2>1, <2>2, <2>3, <3>1, <3>2, <3>3, <3>4
  <2> QED
    BY <2>4, <2>5
<1>10. /\ ~(read.page * PageSize >= read.expected) /\ answer.total = read.expected => ~answer.is_end
       /\ read.page * PageSize >= read.expected /\ answer.total = read.expected => answer.is_end
  <2>1. job.read.page + 1 \in Nat
    BY <1>4
  <2>2. answer.is_end <=> (job.read.page + 1) * PageSize >= answer.total
    BY <1>2, <2>1, LastPagesEnd DEF answer
  <2> QED
    BY <1>4, <1>5, <2>2
<1>7. CASE answer.total # read.expected
  BY <1>1, <1>6, <1>7, ReadingsKeepTheRest
<1>8. CASE answer.total = read.expected /\ read.page * PageSize >= read.expected
  <2> DEFINE done == <<>>
  <2>1. job' = [job EXCEPT !.stack = done, !.read = Unread, !.records = read.documents]
    BY <1>6, <1>8
  <2>7. done \in Seq(Cells) /\ done = <<>>
    OBVIOUS
  <2> HIDE DEF done
  <2>2. job' \in SweepJobs /\ job'.read = Unread
    BY <1>2, <1>5, <2>1, <2>7, NothingIsRead DEF SweepJobs
  <2>3. job'.stack = <<>> /\ job'.records = read.documents /\ job'.calls = job.calls
    BY <1>2, <2>1, <2>7 DEF SweepJobs
  <2>4. job'.unresolved = job.unresolved /\ job'.kind = job.kind
    BY <1>2, <2>1 DEF SweepJobs
  <2>5. ASSUME job'.unresolved = {} PROVE SweepIsSound'
    <3>1. /\ SweepIsSound /\ stable \subseteq present
          /\ Head(job.stack) = <<>> /\ Tail(job.stack) = <<>> /\ job.records = {}
          /\ Owes(present, stable, came, job.records, job.stack, start.page, start.documents, start.expected)
          /\ (came = 0 /\ gone = 0) => start.documents \subseteq present
      BY <1>0, <2>4, <2>5
    <3>2. answer.is_end /\ answer.total = start.expected /\ start.expected <= Cardinality(Businesses)
      BY <1>3, <1>5, <1>8, <1>10
    <3>3. answer = Page(Head(job.stack), start.page + 1, Cardinality(Businesses))
      BY <1>4, <3>1 DEF answer
    <3>4. Cardinality(Behind(stable, job.records \cup (start.documents \cup answer.documents),
                             Tail(job.stack))) <= came
      BY <1>1, <1>2, <1>4, <3>1, <3>2, <3>3, PagesStaySound
    <3>5. job.records \cup (start.documents \cup answer.documents) = read.documents
      BY <1>5, <3>1
    <3>6. Cardinality(Behind(stable, read.documents, <<>>)) <= came
      BY <3>1, <3>4, <3>5
    <3>7. (came = 0 /\ gone = 0) => read.documents \subseteq present
      BY <1>3, <1>5, <3>1
    <3> QED
      BY <1>1, <2>2, <2>3, <2>4, <3>1, <3>6, <3>7, SoundBetweenCells
  <2> QED
    BY <1>1, <1>2, <2>2, <2>3, <2>5, ReadingsKeepTheRest
<1>9. CASE answer.total = read.expected /\ ~(read.page * PageSize >= read.expected)
  <2>1. job' = [job EXCEPT !.read = read]
    BY <1>6, <1>9
  <2>2. ~answer.is_end
    BY <1>9, <1>10
  <2>3. CASE job.unresolved = {}
    <3>1. /\ Head(job.stack) = <<>>
          /\ Owes(present, stable, came, job.records, job.stack, start.page, start.documents, start.expected)
          /\ start.count = start.page * PageSize
          /\ (came = 0 /\ gone = 0) => start.documents \subseteq present
      BY <1>0, <2>3
    <3>2. answer = Page(Head(job.stack), start.page + 1, Cardinality(Businesses))
      BY <1>4, <3>1 DEF answer
    <3>3. job' = [job EXCEPT !.calls = job.calls, !.read = With(start, answer)]
      BY <1>2, <2>1 DEF SweepJobs, read
    <3> QED
      BY <1>1, <1>2, <1>4, <2>2, <3>1, <3>2, <3>3, PagesAreSound
  <2>4. CASE job.unresolved # {}
    <3>1. /\ job' \in SweepJobs /\ job'.unresolved = job.unresolved /\ job'.stack = job.stack
          /\ job'.calls = job.calls
      BY <1>2, <1>5, <2>1 DEF SweepJobs
    <3> QED
      BY <1>1, <1>2, <2>4, <3>1, ReadingsKeepTheRest
  <2> QED
    BY <2>3, <2>4
<1> QED
  BY <1>7, <1>8, <1>9


\* What leaves makes a job owe no more.
LEMMA DeparturesOweNoMore ==
    ASSUME NEW P \in SUBSET Businesses, NEW S \in SUBSET P, NEW paid \in Nat, NEW records, NEW stack,
           NEW r \in Nat, NEW D, NEW expected \in Nat, NEW p \in P,
           Owes(P, S, paid, records, stack, r, D, expected)
    PROVE  Owes(P \ {p}, S \ {p}, paid, records, stack, r, D, expected)
<1> DEFINE cell == Head(stack)
           L == ListedOf(P, cell)
           M == ListedOf(P \ {p}, cell)
           n == r * PageSize
           before == Behind(S, records, stack)
           after == Behind(S \ {p}, records, stack)
           old == SlippedIn(S \cap L, L, D, n)
           new == SlippedIn((S \ {p}) \cap M, M, D, n)
<1>1. IsFiniteSet(Businesses) /\ Businesses \subseteq Nat /\ PageSize \in Nat
  BY SweepAssumption
<1>2. /\ L \subseteq Businesses /\ M = L \ {p} /\ (S \ {p}) \cap M = (S \cap L) \ {p}
      /\ S \cap L \subseteq L
  BY DEF ListedOf
<1>3. after \subseteq before /\ before \subseteq Businesses /\ old \subseteq L /\ new \subseteq M
  BY DEF Behind, SlippedIn
<1>4. n \in Nat
  BY <1>1
<1>5. Cardinality(before) + Cardinality(old) + Max2(Cardinality(L), n) <= paid + expected
  BY DEF Owes
<1> SUFFICES Cardinality(after) + Cardinality(new) + Max2(Cardinality(M), n) <= paid + expected
  BY DEF Owes
<1> HIDE DEF L, M, n, before, after, cell
<1>6. /\ IsFiniteSet(L) /\ IsFiniteSet(M) /\ Cardinality(L) \in Nat /\ Cardinality(M) \in Nat
      /\ L \in SUBSET Nat
  BY <1>1, <1>2, PartsAreFewer
<1>7. Cardinality(new) + Max2(Cardinality(M), n) <= Cardinality(old) + Max2(Cardinality(L), n)
  <2>1. CASE p \in L
    <3>1. S \cap L \in SUBSET L
      OBVIOUS
    <3>2. Cardinality(SlippedIn((S \cap L) \ {p}, L \ {p}, D, n)) + Max2(Cardinality(L \ {p}), n)
            <= Cardinality(SlippedIn(S \cap L, L, D, n)) + Max2(Cardinality(L), n)
      BY <1>4, <1>6, <2>1, <3>1, DeparturesShorten
    <3> QED
      BY <1>2, <3>2
  <2>2. CASE p \notin L
    <3>1. M = L /\ (S \ {p}) \cap M = S \cap L
      BY <1>2, <2>2
    <3>2. new = old
      BY <3>1
    <3> DEFINE x == Cardinality(old)
               y == Max2(Cardinality(L), n)
    <3>3. x \in Nat /\ y \in Nat
      <4>1. x \in Nat
        BY <1>3, <1>6, PartsAreFewer
      <4> QED
        BY <1>4, <1>6, <4>1 DEF Max2
    <3>4. x + y <= x + y
      <4> HIDE DEF x, y
      <4> QED
        BY <3>3
    <3> QED
      BY <3>1, <3>2, <3>4
  <2> QED
    BY <2>1, <2>2
<1> HIDE DEF new, old
<1>8. /\ Cardinality(after) \in Nat /\ Cardinality(before) \in Nat
      /\ Cardinality(after) <= Cardinality(before)
      /\ Cardinality(old) \in Nat /\ Cardinality(new) \in Nat
  <2>1. IsFiniteSet(before)
    BY <1>1, <1>3, PartsAreFewer
  <2> QED
    BY <1>3, <1>6, <2>1, PartsAreFewer
<1>9. Max2(Cardinality(L), n) \in Nat /\ Max2(Cardinality(M), n) \in Nat
  BY <1>4, <1>6 DEF Max2
<1> QED
  BY <1>5, <1>7, <1>8, <1>9

\* What comes pays for the place it may push out.
LEMMA ArrivalsPay ==
    ASSUME NEW P \in SUBSET Businesses, NEW S \in SUBSET P, NEW paid \in Nat, NEW records, NEW stack,
           NEW r \in Nat, NEW D, NEW expected \in Nat, NEW p \in Businesses \ P,
           Owes(P, S, paid, records, stack, r, D, expected)
    PROVE  Owes(P \cup {p}, S, paid + 1, records, stack, r, D, expected)
<1> DEFINE cell == Head(stack)
           L == ListedOf(P, cell)
           M == ListedOf(P \cup {p}, cell)
           n == r * PageSize
           before == Behind(S, records, stack)
           old == SlippedIn(S \cap L, L, D, n)
           new == SlippedIn(S \cap M, M, D, n)
<1>1. IsFiniteSet(Businesses) /\ Businesses \subseteq Nat /\ PageSize \in Nat
  BY SweepAssumption
<1>2. /\ L \subseteq Businesses /\ M \subseteq Businesses /\ p \notin L /\ S \cap M = S \cap L
      /\ M = L \/ M = L \cup {p}
  BY DEF ListedOf
<1>3. before \subseteq Businesses /\ old \subseteq L /\ new \subseteq M
  BY DEF Behind, SlippedIn
<1>4. n \in Nat
  BY <1>1
<1>5. Cardinality(before) + Cardinality(old) + Max2(Cardinality(L), n) <= paid + expected
  BY DEF Owes
<1> SUFFICES Cardinality(before) + Cardinality(new) + Max2(Cardinality(M), n) <= (paid + 1) + expected
  BY DEF Owes
<1> HIDE DEF L, M, n, before, cell
<1>6. /\ IsFiniteSet(L) /\ IsFiniteSet(M) /\ Cardinality(L) \in Nat /\ Cardinality(M) \in Nat
      /\ L \in SUBSET Nat
  BY <1>1, <1>2, PartsAreFewer
<1>9. Max2(Cardinality(L), n) \in Nat /\ Max2(Cardinality(M), n) \in Nat
  BY <1>4, <1>6 DEF Max2
<1>8. Cardinality(before) \in Nat /\ Cardinality(old) \in Nat /\ Cardinality(new) \in Nat
  <2> HIDE DEF old, new
  <2> QED
    BY <1>1, <1>3, <1>6, PartsAreFewer
<1>7. Cardinality(new) + Max2(Cardinality(M), n) <= Cardinality(old) + Max2(Cardinality(L), n) + 1
  <2>1. CASE M = L \cup {p}
    <3>1. S \cap L \in SUBSET L /\ p \in Nat \ L
      BY <1>1, <1>2
    <3>2. Cardinality(SlippedIn(S \cap L, L \cup {p}, D, n)) + Max2(Cardinality(L \cup {p}), n)
            <= Cardinality(SlippedIn(S \cap L, L, D, n)) + Max2(Cardinality(L), n) + 1
      BY <1>4, <1>6, <3>1, ArrivalsPush
    <3>3. new = SlippedIn(S \cap L, L \cup {p}, D, n)
      BY <1>2, <2>1
    <3> QED
      BY <2>1, <3>2, <3>3
  <2>2. CASE M = L
    <3>1. new = old
      BY <1>2, <2>2
    <3> HIDE DEF new, old
    <3> QED
      BY <1>8, <1>9, <2>2, <3>1
  <2> QED
    BY <1>2, <2>1, <2>2
<1> HIDE DEF new, old
<1> QED
  BY <1>5, <1>7, <1>8, <1>9

\* The provider may change at any time.
LEMMA ChangesAreSound ==
    ASSUME SweepInv, NEW p \in Businesses, Change(p)
    PROVE  SweepInv'
<1>1. job # None /\ job' = job /\ staged' = staged /\ files' = files
  BY DEF Change
<1>2. /\ job \in SweepJobs /\ job.stack \in Seq(Cells) /\ SweepTypes /\ job.calls <= MaxCalls
      /\ job.unresolved = {} => SweepIsSound
      /\ job.read # Unread => job.stack # <<>>
  BY <1>1, JobsAreTyped
<1>3. present \subseteq Businesses /\ stable \subseteq Businesses /\ came \in Nat /\ gone \in Nat
  BY <1>2 DEF SweepTypes
<1>4. \/ /\ p \in present /\ present' = present \ {p} /\ stable' = stable \ {p}
         /\ gone' = gone + 1 /\ came' = came
      \/ /\ p \notin present /\ present' = present \cup {p} /\ stable' = stable
         /\ gone' = gone /\ came' = came + 1
  BY DEF Change
<1>5. SweepTypes'
  BY <1>1, <1>2, <1>3, <1>4 DEF SweepTypes
<1>6. PublishedIsSound' /\ \A k \in Sweeps : Readable(k)' => Sound(files[k].cache)'
  BY <1>1 DEF SweepInv, PublishedIsSound, Readable, Sound
<1>7. ASSUME job.unresolved = {} PROVE SweepIsSound'
  <2>1. SweepIsSound /\ stable \subseteq present
    BY <1>2, <1>7 DEF SweepIsSound
  <2>2. (stable \subseteq present)' /\ UndisturbedIsExact'
    BY <1>1, <1>3, <1>4, <2>1 DEF UndisturbedIsExact
  <2>3. NoneLostUnpaid'
    <3>1. CASE job.read = Unread
      <4>1. Cardinality(Behind(stable, job.records, job.stack)) <= came
        BY <2>1, <3>1, Debts DEF SweepIsSound
      <4>2. /\ Behind(stable', job.records, job.stack) \subseteq Behind(stable, job.records, job.stack)
            /\ Behind(stable, job.records, job.stack) \subseteq Businesses
        BY <1>3, <1>4, <2>1 DEF Behind
      <4>3. /\ Cardinality(Behind(stable', job.records, job.stack)) \in Nat
            /\ Cardinality(Behind(stable, job.records, job.stack)) \in Nat
            /\ Cardinality(Behind(stable', job.records, job.stack))
                  <= Cardinality(Behind(stable, job.records, job.stack))
        BY <4>2, PartsAreFewer, SweepAssumption
      <4>4. Cardinality(Behind(stable', job.records, job.stack)) <= came'
        BY <1>3, <1>4, <4>1, <4>3
      <4> QED
        BY <1>1, <3>1, <4>4, NextDebts
    <3>2. CASE job.read # Unread
      <4> DEFINE r == job.read.page
                 D == job.read.documents
                 expected == job.read.expected
      <4>1. Owes(present, stable, came, job.records, job.stack, r, D, expected)
        BY <2>1, <3>2, Debts DEF SweepIsSound
      <4>2. r \in Nat /\ expected \in Nat
        BY <1>2 DEF SweepJobs, Reads
      <4>3. present \in SUBSET Businesses /\ stable \in SUBSET present
        BY <1>3, <2>1
      <4> HIDE DEF r, D, expected
      <4>4. Owes(present', stable', came', job.records, job.stack, r, D, expected)
        <5>1. CASE p \in present
          <6>1. Owes(present \ {p}, stable \ {p}, came, job.records, job.stack, r, D, expected)
            BY <1>3, <4>1, <4>2, <4>3, <5>1, DeparturesOweNoMore
          <6> QED
            BY <1>4, <5>1, <6>1
        <5>2. CASE p \notin present
          <6>1. Owes(present \cup {p}, stable, came + 1, job.records, job.stack, r, D, expected)
            BY <1>3, <4>1, <4>2, <4>3, <5>2, ArrivalsPay
          <6> QED
            BY <1>4, <5>2, <6>1
        <5> QED
          BY <5>1, <5>2
      <4> QED
        BY <1>1, <3>2, <4>4, NextDebts DEF r, D, expected
    <3> QED
      BY <3>1, <3>2
  <2> QED
    BY <1>1, <2>1, <2>2, <2>3 DEF SweepIsSound
<1> QED
  BY <1>1, <1>2, <1>5, <1>6, <1>7 DEF SweepInv


\* A job begins with everything still to be read.
LEMMA BeginningsAreSound ==
    ASSUME SweepInv, NEW kind \in Sweeps, Begin(kind)
    PROVE  SweepInv'
<1> DEFINE stack == << <<>> >>
<1>1. /\ job' = [kind |-> kind, stack |-> stack, read |-> Unread, calls |-> 0,
                 records |-> {}, unresolved |-> {}]
      /\ stable' = present /\ came' = 0 /\ gone' = 0
      /\ present' = present /\ staged' = staged /\ files' = files
  BY DEF Begin
<1>2. stack \in Seq(Cells) /\ stack # <<>> /\ stack \in {<<>>, << <<>> >>}
  BY CellsAreSequences
<1>0. DOMAIN stack = {1} /\ stack[1] = <<>>
  OBVIOUS
<1> HIDE DEF stack
<1>3. /\ job'.kind = kind /\ job'.stack = stack /\ job'.read = Unread /\ job'.calls = 0
      /\ job'.records = {} /\ job'.unresolved = {} /\ job' \in SweepJobs
  BY <1>1, <1>2, NothingIsRead DEF SweepJobs
<1>4. SweepTypes /\ present \subseteq Businesses
  BY DEF SweepInv, SweepTypes
<1>5. SweepTypes'
  BY <1>1, <1>3, <1>4 DEF SweepTypes
<1>6. PublishedIsSound' /\ \A k \in Sweeps : Readable(k)' => Sound(files[k].cache)'
  BY <1>1 DEF SweepInv, PublishedIsSound, Readable, Sound
<1>7. Behind(present, {}, stack) = {}
  BY <1>0, <1>4, TheRootHoldsAll DEF Behind
<1>8. NoneLostUnpaid'
  BY <1>1, <1>3, <1>7, FS_EmptySet, NextDebts
<1>9. UndisturbedIsExact' /\ (stable \subseteq present)'
  BY <1>1, <1>3, NothingIsRead DEF UndisturbedIsExact
<1>10. SweepIsSound'
  BY <1>2, <1>3, <1>8, <1>9 DEF SweepIsSound
<1> QED
  BY <1>2, <1>3, <1>5, <1>6, <1>10, SweepAssumption DEF SweepInv

\* A request that failed for good, or a kill, leaves what was published.
LEMMA AbortsAreSound ==
    ASSUME SweepInv, Abort
    PROVE  SweepInv'
<1>1. Reading /\ job' = None
  BY DEF Abort, Reading
<1> QED
  BY <1>1, ReadingsKeepTheRest

\* What a complete sweep hands on.
LEMMA ResultsAreSound ==
    ASSUME SweepInv, job # None, job.stack = <<>>
    PROVE  /\ Result \in Results
           /\ job.unresolved = {} => Sound(Result)
<1>1. /\ job.records \in SUBSET Businesses /\ SweepTypes
      /\ job.unresolved = {} => SweepIsSound
      /\ job.read = Unread
  BY JobsAreTyped
<1>2. present \subseteq Businesses /\ stable \subseteq Businesses /\ came \in Nat /\ gone \in Nat
  BY <1>1 DEF SweepTypes
<1> DEFINE missed == stable \ job.records
           unchanged == came + gone > 0 \/ job.records = present
<1>3. Result = [places |-> job.records, missed |-> Cardinality(missed), came |-> came, unchanged |-> unchanged]
  BY Zenon DEF Result
<1>4. ASSUME SweepIsSound PROVE Cardinality(missed) <= came /\ unchanged
  <2>1. Cardinality(Behind(stable, job.records, job.stack)) <= came
    BY <1>1, <1>4, Debts DEF SweepIsSound
  <2>2. Behind(stable, job.records, job.stack) = missed
    BY DEF Behind
  <2>3. /\ stable \subseteq present
        /\ (came = 0 /\ gone = 0) => (present = stable /\ job.records \subseteq present)
    BY <1>4 DEF SweepIsSound, UndisturbedIsExact
  <2>4. ASSUME came = 0, gone = 0 PROVE job.records = present
    <3> HIDE DEF missed
    <3>1. IsFiniteSet(missed) /\ Cardinality(missed) \in Nat
      <4>1. missed \subseteq Businesses
        BY <1>2, <2>3 DEF missed
      <4> QED
        BY <4>1, PartsAreFewer, SweepAssumption
    <3>2. Cardinality(missed) = 0
      BY <2>1, <2>2, <2>4, <3>1
    <3>3. missed = {}
      BY <3>1, <3>2, FS_EmptySet
    <3> USE DEF missed
    <3>4. stable \subseteq job.records
      BY <3>3
    <3>5. present = stable /\ job.records \subseteq present
      BY <2>3, <2>4
    <3> QED
      BY <3>4, <3>5
  <2>5. Cardinality(missed) <= came
    BY <2>1, <2>2
  <2>6. (came = 0 /\ gone = 0) \/ came + gone > 0
    BY <1>2
  <2>7. unchanged
    BY <2>4, <2>6
  <2> QED
    BY <2>5, <2>7
<1>5. Cardinality(missed) \in Nat
  <2>1. missed \subseteq Businesses
    BY <1>2
  <2> HIDE DEF missed
  <2> QED
    BY <2>1, PartsAreFewer, SweepAssumption
<1>6. unchanged \in BOOLEAN
  OBVIOUS
<1> HIDE DEF missed, unchanged
<1>7. Result \in Results
  BY <1>1, <1>2, <1>3, <1>5, <1>6 DEF Results
<1>8. Result.missed = Cardinality(missed) /\ Result.came = came /\ Result.unchanged = unchanged
  BY <1>3, <1>6
<1> QED
  BY <1>1, <1>4, <1>7, <1>8 DEF Sound

\* Only a complete sweep is handed on.
LEMMA StagesAreSound ==
    ASSUME SweepInv, Stage
    PROVE  SweepInv'
<1>1. /\ job # None /\ job.stack = <<>> /\ job' = None
      /\ staged' = IF job.unresolved = {} THEN [kind |-> job.kind, result |-> Result, next |-> "cache"]
                   ELSE None
      /\ present' = present /\ stable' = stable /\ came' = came /\ gone' = gone /\ files' = files
  BY DEF Stage
<1>2. Result \in Results /\ (job.unresolved = {} => Sound(Result))
  BY <1>1, ResultsAreSound
<1>3. job.kind \in Sweeps /\ SweepTypes
  BY <1>1, JobsAreTyped
<1>4. SweepTypes'
  BY <1>1, <1>2, <1>3 DEF SweepTypes
<1>5. staged' # None => Sound(staged'.result)
  BY <1>1, <1>2
<1>6. \A k \in Sweeps : files'[k].cache # None => Sound(files'[k].cache)
  BY <1>1 DEF SweepInv, PublishedIsSound
<1>7. PublishedIsSound'
  BY <1>5, <1>6 DEF PublishedIsSound, Sound
<1>8. \A k \in Sweeps : Readable(k)' => Sound(files[k].cache)'
  BY <1>6 DEF Readable, Sound
<1> QED
  BY <1>1, <1>4, <1>7, <1>8 DEF SweepInv

\* The steps of publication: each file holds what it held or a staged result.
LEMMA PublicationsAreSound ==
    ASSUME SweepInv, PublishCache \/ PublishManifest \/ ManifestFails \/ Kill
    PROVE  SweepInv'
<1>1. /\ job' = job /\ present' = present /\ stable' = stable /\ came' = came /\ gone' = gone
      /\ staged # None
  BY DEF PublishCache, PublishManifest, ManifestFails, Kill
<1>2. /\ SweepTypes /\ Sound(staged.result) /\ staged.kind \in Sweeps /\ staged.result \in Results
      /\ files \in [Sweeps -> [cache : Results \cup {None}, manifest : Results \cup {None}]]
      /\ staged \in [kind : Sweeps, result : Results, next : {"cache", "manifest"}]
      /\ \A k \in Sweeps : files[k].cache # None => Sound(files[k].cache)
  BY <1>1 DEF SweepInv, SweepTypes, PublishedIsSound
<1>3. \/ /\ staged' = [staged EXCEPT !.next = "manifest"]
         /\ files' = [files EXCEPT ![staged.kind].cache = staged.result]
      \/ /\ staged' = None
         /\ \/ files' = [files EXCEPT ![staged.kind].manifest = staged.result]
            \/ files' = [files EXCEPT !["permits"].cache = None]
            \/ files' = files
  BY DEF PublishCache, PublishManifest, ManifestFails, Kill
<1>4. staged' = None \/ (staged' \in [kind : Sweeps, result : Results, next : {"cache", "manifest"}]
                         /\ staged'.result = staged.result)
  BY <1>2, <1>3
<1>5. files' \in [Sweeps -> [cache : Results \cup {None}, manifest : Results \cup {None}]]
  BY <1>2, <1>3
<1>6. \A k \in Sweeps : files'[k].cache \in {files[k].cache, staged.result, None}
  BY <1>2, <1>3
<1>7. SweepTypes'
  BY <1>1, <1>2, <1>4, <1>5 DEF SweepTypes
<1>8. \A k \in Sweeps : files'[k].cache # None => Sound(files'[k].cache)
  BY <1>2, <1>6
<1>9. PublishedIsSound'
  BY <1>2, <1>4, <1>8 DEF PublishedIsSound, Sound
<1>10. \A k \in Sweeps : Readable(k)' => Sound(files[k].cache)'
  BY <1>8 DEF Readable, Sound
<1>11. (job # None => /\ job.calls <= MaxCalls /\ (job.read # Unread => job.stack # <<>>)
                      /\ job.unresolved = {} => SweepIsSound)'
  BY <1>1 DEF SweepInv, SweepIsSound, NoneLostUnpaid, UndisturbedIsExact, Passed, Slipped, Listed
<1> QED
  BY <1>7, <1>9, <1>10, <1>11 DEF SweepInv

\* The sweeps (SourceSweep), whatever comes, goes, fails or is killed: what a
\* reader takes for a complete cache misses, of the places that were there all
\* along, at most as many as came meanwhile, and is exact when nothing changed.
THEOREM SweepInvariant == SweepSpec => []SweepInv
<1>1. SweepInit => SweepInv
  <2>1. SUFFICES ASSUME SweepInit PROVE SweepInv
    OBVIOUS
  <2>2. \A k \in Sweeps : files[k].cache = None /\ files[k].manifest = None
    BY <2>1 DEF SweepInit
  <2>3. SweepTypes
    BY <2>1 DEF SweepInit, SweepTypes
  <2> QED
    BY <2>1, <2>2, <2>3 DEF SweepInit, SweepInv, PublishedIsSound, Readable
<1>2. SweepInv /\ [SweepNext]_sweepVars => SweepInv'
  <2>1. SUFFICES ASSUME SweepInv, [SweepNext]_sweepVars PROVE SweepInv'
    OBVIOUS
  <2>2. CASE \E k \in Sweeps : Begin(k)
    <3>1. PICK k \in Sweeps : Begin(k)
      BY <2>2
    <3> QED
      BY <2>1, <3>1, BeginningsAreSound
  <2>3. CASE \E p \in Businesses : Change(p)
    <3>1. PICK p \in Businesses : Change(p)
      BY <2>3
    <3> QED
      BY <2>1, <3>1, ChangesAreSound
  <2>4. CASE Read
    BY <2>1, <2>4, BudgetExhaustedIsSound, VisitIsSound, NextPageIsSound, PermitPageIsSound DEF Read
  <2>5. CASE Abort
    BY <2>1, <2>5, AbortsAreSound
  <2>6. CASE Stage
    BY <2>1, <2>6, StagesAreSound
  <2>7. CASE PublishCache \/ PublishManifest \/ ManifestFails \/ Kill
    BY <2>1, <2>7, PublicationsAreSound
  <2>8. CASE UNCHANGED sweepVars
    <3>1. /\ present' = present /\ stable' = stable /\ came' = came /\ gone' = gone /\ job' = job
          /\ staged' = staged /\ files' = files
      BY <2>8 DEF sweepVars
    <3> QED
      BY <2>1, <3>1 DEF SweepInv, SweepTypes, PublishedIsSound, Readable, SweepIsSound, NoneLostUnpaid,
         UndisturbedIsExact, Passed, Slipped, Listed, Sound
  <2> QED
    BY <2>1, <2>2, <2>3, <2>4, <2>5, <2>6, <2>7, <2>8 DEF SweepNext, Publish
<1> QED
  BY <1>1, <1>2, PTL DEF SweepSpec

=============================================================================
