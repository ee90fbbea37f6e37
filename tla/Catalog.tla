------------------------------- MODULE Catalog -------------------------------
(***************************************************************************)
(* The cafe catalog: the tables cafes and cafe_provider_places and the     *)
(* pipelines that own overlapping rows of them.  A pipeline's apply is one *)
(* transaction, so one action; the jobs of the workflow group              *)
(* production-cafe-catalog-refresh exclude each other.  The Naver job has  *)
(* a group of its own and minutes of searches between its reads and its    *)
(* inserts, so it takes two.  A spot stands for positions within 250 m of  *)
(* one another: every change of spot is a large move.  Names, addresses,   *)
(* phones, URLs and times are left out.                                    *)
(***************************************************************************)
EXTENDS Outcomes, FiniteSets

CONSTANTS
    Overture,     \* Overture ids, in the order the seed sorts them
    Permits,      \* management numbers of cafes known from permits only
    Kakao,        \* Kakao place ids
    Naver,        \* Naver place ids
    SeoulSpots,     \* spots with a Seoul address inside SEOUL_BBOX
    Outside,      \* any other spot
    MoveBound,    \* --max-large-moves
    CandidateBound   \* --max-candidates

ASSUME CatalogAssumption ==
    /\ Overture \subseteq Nat
    /\ (Overture \cup Permits) \cap (Kakao \cup Naver) = {}
    /\ Overture \cap Permits = {} /\ Kakao \cap Naver = {}
    /\ None \notin Kakao \cup Naver /\ Outside \notin SeoulSpots
    /\ MoveBound \in Nat /\ CandidateBound \in Nat

Cafes == Overture \cup Permits \cup Kakao   \* by origin_source_id
Places == Overture \cup Kakao \cup Naver    \* by provider_place_id

\* The match methods of Kakao links the provider catalog manages, with one
\* signal (exact_name, exact_phone) or two; and those a refresh trusts.
Managed == {"exact_one", "exact_two"}
Safe == {"source_primary", "exact_two"}
Methods == Managed \cup {"source_primary", "source_direct_url", "naver_exact"}

Rows(ids, row) == UNION {[S -> row] : S \in SUBSET ids}

VARIABLES
    cafes,    \* cafes[c]: the row of the cafe of origin c
    links,    \* links[p]: the row of place p, which names its cafe
    found     \* the links the Naver job will insert, found[p] is p's cafe, or None

catalogVars == <<cafes, links, found>>

\* The places of p's provider, and those of them linked to a cafe.
ProviderOf(p) ==
    IF p \in Kakao THEN Kakao ELSE IF p \in Naver THEN Naver ELSE Overture
Held(c, provider) == {p \in provider \cap DOMAIN links : links[p].cafe = c}

Row(spot) == [active |-> TRUE, spot |-> spot]
Link(c, method) == [cafe |-> c, method |-> method, active |-> TRUE]
Off(row) == [row EXCEPT !.active = FALSE]

CatalogInit == cafes = <<>> /\ links = <<>> /\ found = None

----------------------------------------------------------------------------
(* Overture.  records[o] has the spot of o and the place its website names. *)

\* No two records name one place.
Records ==
    {records \in Rows(Overture, [spot : SeoulSpots, direct : Kakao \cup Naver \cup {None}]) :
        /\ DOMAIN records # {}
        /\ \A o, n \in DOMAIN records :
              records[o].direct = records[n].direct => o = n \/ records[o].direct = None}

Named(records) == {records[o].direct : o \in DOMAIN records} \ {None}

\* The places o leaves because its website now names another one.
Left(records, o) ==
    {q \in Held(o, ProviderOf(records[o].direct)) :
        records[o].direct # None /\ q # records[o].direct}

\* Mutant of Synced: any link may turn to the place the website names now.
SyncedWhateverTheMethod(records, o, freed) ==
    LET p == records[o].direct IN
    /\ o \in DOMAIN cafes => cafes[o].spot \in SeoulSpots
    /\ p \in DOMAIN links => links[p].cafe = o \/ p \in freed

\* sync_provider_places accepts o's record.  A place of another cafe is free
\* only once an earlier record of the same apply has left it.
Synced(records, o, freed) ==
    LET p == records[o].direct IN
    /\ o \in DOMAIN cafes => cafes[o].spot \in SeoulSpots
    /\ p \in DOMAIN links => links[p].cafe = o \/ p \in freed
    /\ \A q \in Left(records, o) : links[q].method = "source_direct_url"

\* A cafe in scope that the records do not have.
Missing(records) == {o \in (DOMAIN cafes \cap Overture) \ DOMAIN records : cafes[o].spot \in SeoulSpots}

\* The link of a known place that no record names.
Retained(records, p) ==
    LET c == links[p].cafe
        gone == c \in Missing(records)
        unnamed ==
            c \in DOMAIN records =>
                records[c].direct = None \/ ProviderOf(records[c].direct) # ProviderOf(p)
    IN  IF \/ p \in Overture /\ gone /\ cafes[p].active
           \/ /\ links[p].method = "source_direct_url"
              /\ gone \/ c \in DOMAIN records
              /\ unnamed
        THEN Off(links[p])
        ELSE links[p]

Seed(records) ==
    LET left == UNION {Left(records, o) : o \in DOMAIN records}
        claimant(p) == CHOOSE o \in DOMAIN records : records[o].direct = p
        kept(p) == p \in DOMAIN links /\ links[p].cafe = claimant(p)
                   /\ links[p].method # "source_direct_url"
    IN
    /\ cafes' = [c \in DOMAIN cafes \cup DOMAIN records |->
                    IF c \in DOMAIN records THEN Row(records[c].spot)
                    ELSE IF c \in Missing(records) THEN Off(cafes[c])
                    ELSE cafes[c]]
    /\ links' = [p \in (DOMAIN links \ left) \cup DOMAIN records \cup Named(records) |->
                    IF p \in DOMAIN records THEN Link(p, "source_primary")
                    ELSE IF p \notin Named(records) THEN Retained(records, p)
                    ELSE IF kept(p) THEN links[p]
                    ELSE Link(claimant(p), "source_direct_url")]
    /\ UNCHANGED found

\* seed_curated_cafes.py --apply: a dry run first, which frees no place and
\* refuses to deactivate a cafe.
SeedCurated ==
    \E records \in Records :
        /\ \A o \in Missing(records) : ~cafes[o].active
        /\ \A o \in DOMAIN records : Synced(records, o, {})
        /\ Seed(records)

\* seed_cafes.py --apply, which the bootstrap runs without that dry run.
SeedDirectly ==
    \E records \in Records :
        /\ \A o \in DOMAIN records :
              Synced(records, o, UNION {Left(records, n) : n \in {n \in DOMAIN records : n < o}})
        /\ Seed(records)

----------------------------------------------------------------------------
(* The provider catalog.  refs[p] is the cafe p was matched to and how;    *)
(* a permit's cafe is a candidate, at spots[c].                            *)

References ==
    {refs \in Rows(Kakao \cup Naver, [cafe : Overture \cup Permits,
                                      method : Managed \cup {"source_direct_url"}]) :
        /\ \A p \in DOMAIN refs :
              /\ refs[p].method \in Managed <=> p \in Kakao
              /\ p \in Naver => refs[p].cafe \in Overture
        /\ \A p, q \in DOMAIN refs :
              refs[p].cafe = refs[q].cafe /\ ProviderOf(p) = ProviderOf(q) => p = q}

Candidates(refs) == {refs[p].cafe : p \in DOMAIN refs} \cap Permits

\* Mutant of AcceptableReferences: the owner of the place is not looked at.
AcceptableWhoeverOwns(refs) ==
    \A p \in DOMAIN refs :
        /\ refs[p].cafe \in DOMAIN cafes \cup Permits
        /\ Held(refs[p].cafe, ProviderOf(p)) \subseteq {p}

\* The checks seed_provider_cafes makes before it changes anything.
AcceptableReferences(refs) ==
    \A p \in DOMAIN refs :
        /\ refs[p].cafe \in DOMAIN cafes \cup Permits
        /\ p \in DOMAIN links => links[p].cafe = refs[p].cafe
        /\ Held(refs[p].cafe, ProviderOf(p)) \subseteq {p}

\* seed_provider_cafes.py --apply.
SeedProvider ==
    \E refs \in References :
        /\ AcceptableReferences(refs)
        /\ \E spots \in [Candidates(refs) -> SeoulSpots] :
              cafes' = [c \in DOMAIN cafes \cup DOMAIN spots |->
                           IF c \in DOMAIN spots THEN Row(spots[c]) ELSE cafes[c]]
        /\ links' = [p \in DOMAIN links \cup DOMAIN refs |->
                        IF p \in DOMAIN refs THEN Link(refs[p].cafe, refs[p].method)
                        ELSE IF p \in Kakao /\ links[p].method \in Managed THEN Off(links[p])
                        ELSE links[p]]
        /\ UNCHANGED found

----------------------------------------------------------------------------
(* Kakao.  snapshot[k] is where the complete sweep saw place k.             *)

\* _validate_database_ownership, which the job starts with: a cafe of Kakao
\* origin owns its place, and no place is without its cafe.
OwnershipValid ==
    /\ \A p \in DOMAIN links : links[p].cafe \in DOMAIN cafes
    /\ \A p, q \in DOMAIN links :
          links[p].cafe = links[q].cafe /\ ProviderOf(p) = ProviderOf(q) => p = q
    /\ \A k \in DOMAIN cafes \cap Kakao :
          k \in DOMAIN links /\ links[k] = Link(k, "source_primary")

\* The active identities a snapshot may refresh; a Kakao origin and a primary
\* match must come together, or build_kakao_display_refresh raises.
Targets ==
    {k \in DOMAIN links \cap Kakao :
        links[k].active /\ links[k].method \in Safe /\ cafes[links[k].cafe].active}
TargetsConsistent ==
    \A k \in Targets : links[k].cafe \in Kakao <=> links[k].method = "source_primary"

InSeoul(snapshot) == {k \in DOMAIN snapshot : snapshot[k] \in SeoulSpots}
Moved(snapshot) ==
    {k \in Targets \cap InSeoul(snapshot) : cafes[links[k].cafe].spot # snapshot[k]}

\* All large moves, or none of them when there are more than the bound.
Applicable(snapshot) ==
    IF Cardinality(Moved(snapshot)) <= MoveBound THEN Moved(snapshot) ELSE {}

\* seed_kakao_catalog_expansion.py --apply.  A place unknown so far becomes a
\* cafe unless it collides with one that the catalog has.
ApplyKakao ==
    \E snapshot \in Rows(Kakao, SeoulSpots \cup {Outside}) :
    \E colliding \in SUBSET (InSeoul(snapshot) \ DOMAIN links) :
        LET new == (InSeoul(snapshot) \ DOMAIN links) \ colliding
            moved(c) == {k \in Applicable(snapshot) : links[k].cafe = c}
        IN
        /\ OwnershipValid /\ TargetsConsistent
        /\ colliding # {} => DOMAIN cafes # {}
        /\ Cardinality(new) <= CandidateBound
        /\ cafes' = [c \in DOMAIN cafes \cup new |->
                        IF c \in new THEN Row(snapshot[c])
                        ELSE IF moved(c) = {} THEN cafes[c]
                        ELSE [cafes[c] EXCEPT !.spot = snapshot[CHOOSE k \in moved(c) : TRUE]]]
        /\ links' = [p \in DOMAIN links \cup new |->
                        IF p \in new THEN Link(p, "source_primary") ELSE links[p]]
        /\ UNCHANGED found

----------------------------------------------------------------------------
(* Naver.                                                                  *)

\* Active cafes without a Naver link are searched; an exact match is accepted
\* unless the place has an owner or matches several cafes.
SearchNaver ==
    /\ found = None
    /\ \E f \in Rows(Naver \ DOMAIN links,
                     {c \in DOMAIN cafes : cafes[c].active /\ Held(c, Naver) = {}}) :
          /\ \A p, q \in DOMAIN f : f[p] = f[q] => p = q
          /\ found' = f
    /\ UNCHANGED <<cafes, links>>

\* The unique keys of cafe_provider_places let every row in, or none.
CommitNaver ==
    /\ found # None
    /\ \A p \in DOMAIN found : p \notin DOMAIN links /\ Held(found[p], Naver) = {}
    /\ links' = [p \in DOMAIN links \cup DOMAIN found |->
                    IF p \in DOMAIN found THEN Link(found[p], "naver_exact") ELSE links[p]]
    /\ found' = None
    /\ UNCHANGED cafes

NaverFails == found # None /\ found' = None /\ UNCHANGED <<cafes, links>>

----------------------------------------------------------------------------

CatalogNext ==
    \/ SeedCurated \/ SeedDirectly
    \/ SeedProvider
    \/ ApplyKakao
    \/ SearchNaver \/ CommitNaver \/ NaverFails

CatalogSpec == CatalogInit /\ [][CatalogNext]_catalogVars

CatalogTypes ==
    /\ DOMAIN cafes \subseteq Cafes
    /\ cafes \in [DOMAIN cafes -> [active : BOOLEAN, spot : SeoulSpots]]
    /\ DOMAIN links \subseteq Places
    /\ links \in [DOMAIN links -> [cafe : Cafes, method : Methods, active : BOOLEAN]]
    /\ found \in Rows(Naver, Cafes) \cup {None}

\* An Overture seed finds its own cafes in scope, each with its own link on
\* exactly while it is active: otherwise every later seed would be refused.
OvertureFollows ==
    \A o \in DOMAIN cafes \cap Overture :
        /\ o \in DOMAIN links
        /\ links[o] = [cafe |-> o, method |-> "source_primary", active |-> cafes[o].active]

\* An identity that made a cafe is that cafe's own: a primary link is never
\* another's, and an Overture id is linked in no other way.
PrimaryIsOwn ==
    \A p \in DOMAIN links :
        /\ p \in Overture => links[p].method = "source_primary"
        /\ links[p].method = "source_primary" => links[p].cafe = p

\* What the Naver job is about to insert names cafes that still exist, one
\* place for each.
FoundIsInsertable ==
    found # None =>
        /\ \A p \in DOMAIN found : found[p] \in DOMAIN cafes
        /\ \A p, q \in DOMAIN found : found[p] = found[q] => p = q

\* Whatever the pipelines do in whatever order, the tables stay as each of
\* them requires: every cafe in Seoul, every Overture cafe with its own
\* identity, every Kakao cafe with its own, no place without its cafe and no
\* cafe with two places of a provider, so that none of them locks another out.
CatalogInv == /\ CatalogTypes
              /\ OvertureFollows /\ OwnershipValid /\ TargetsConsistent
              /\ PrimaryIsOwn /\ FoundIsInsertable

\* An identity found by Naver, matched by a provider catalog or made from a source
\* stays with its cafe, and neither one found by Naver nor a Kakao origin is turned
\* off, for as long as it counts as such.  One step alone ends that: the provider
\* catalog, confirming a Naver place by the website of the Overture cafe that has
\* it, relabels the link as the website's (seed_provider_cafes.py:303-309).  From
\* then on the link follows the website: a seed may turn it off or free it, and
\* only because of that step.
VerifiedIdentitiesStay ==
    [][\A p \in DOMAIN links : links[p].method # "source_direct_url" =>
          /\ p \in DOMAIN links' /\ links'[p].cafe = links[p].cafe
          /\ links[p].active /\ ~links'[p].active =>
                \/ p \in Overture /\ ~cafes'[p].active
                \/ p \in Kakao /\ links[p].method \in Managed
          /\ links'[p].method = "source_direct_url" =>
                p \in Naver /\ links[p].cafe \in Overture /\ links'[p].active]_catalogVars

============================================================================
