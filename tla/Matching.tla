------------------------------ MODULE Matching ------------------------------
(***************************************************************************)
(* How the offline builders decide that two records of different sources   *)
(* are one cafe, and what they make of it: permits from OA-16095 rows, the *)
(* curated Overture catalog, the provider catalog of Kakao and Naver       *)
(* links, the expansion by unused Kakao places, and the strict resolution  *)
(* of permits to cafes.                                                    *)
(*                                                                         *)
(* A record is [id, name, phone, addrs, at, ...].  Names are those left by *)
(* normalize_name, None when nothing is left.  A phone is [abroad, number]: *)
(* the digits, and whether +82 was written before them.  An address is     *)
(* [seoul, gu, road, unit], road None when it holds no letter or no digit; *)
(* positions lie on a line.                                                *)
(***************************************************************************)
EXTENDS Outcomes, FiniteSets, SequencesExt

CONSTANTS
    NameMax,        \* PERMIT_RECONCILE_EXACT_NAME_MAX_M
    PhoneMax,       \* PERMIT_RECONCILE_EXACT_PHONE_MAX_M
    EntityMax,      \* PERMIT_CAFE_ENTITY_MAX_DISTANCE_M
    SeoulBox,       \* the positions inside SEOUL_BBOX
    Districts       \* SEOUL_DISTRICTS

ASSUME MatchingAssumption == NameMax <= PhoneMax /\ SeoulBox \subseteq Int

-----------------------------------------------------------------------------
(* Signals. *)

Distance(a, b) == IF a.at > b.at THEN a.at - b.at ELSE b.at - a.at

SameName(a, b) == a.name # None /\ a.name = b.name
SamePhone(a, b) == a.phone # None /\ a.phone = b.phone

\* _korean_phone: +82 is the 0 before an area.
KoreanPhone(a) == IF a.phone = None THEN None ELSE a.phone.number
SameKoreanPhone(a, b) == KoreanPhone(a) # None /\ KoreanPhone(a) = KoreanPhone(b)

\* _seoul_address_core: city and district are dropped, floors are not.
AddressCores(a) == {<<x.road, x.unit>> : x \in {y \in a.addrs : y.road # None}}

\* parse_seoul_road_address: floors are dropped, the district is not.
RoadAddresses(a) ==
    {<<x.gu, x.road>> : x \in {y \in a.addrs : y.seoul /\ y.gu \in Districts /\ y.road # None}}

\* The potential match of reconcile_candidates.
Strong(a, b) ==
    \/ SameName(a, b) /\ Distance(a, b) <= NameMax
    \/ SamePhone(a, b) /\ Distance(a, b) <= PhoneMax

\* Two of three exact signals, at any distance.
Identical(a, b) ==
    LET signals == <<SameName(a, b), SameKoreanPhone(a, b), AddressCores(a) \cap AddressCores(b) # {}>>
    IN  Cardinality({i \in 1..3 : signals[i]}) >= 2

\* The strong candidate of resolve_permit_to_cafes.
Corroborated(permit, cafe) ==
    /\ RoadAddresses(permit) \cap RoadAddresses(cafe) # {}
    /\ Distance(permit, cafe) <= EntityMax
    /\ SameName(permit, cafe) \/ SamePhone(permit, cafe)

Distinct(S) == Cardinality({r.id : r \in S}) = Cardinality(S)

-----------------------------------------------------------------------------
(* One to one. *)

\* Only a pair neither side of which has another is resolved; the others of a
\* collision are ambiguous, however few matches they have themselves.
OneToOne(C, P, potential) ==
    LET of(c) == {p \in P : <<c, p>> \in potential}
        claims(p) == {c \in C : <<c, p>> \in potential}
        sure == {m \in C \X P : of(m[1]) = {m[2]} /\ claims(m[2]) = {m[1]}}
        unmatched == {c \in C : of(c) = {}}
    IN  [matches |-> sure, unmatched |-> unmatched,
         ambiguous |-> C \ (unmatched \cup {m[1] : m \in sure})]

\* reconcile_candidates
Reconcile(C, P) == OneToOne(C, P, {m \in C \X P : Strong(m[1], m[2])})

\* reconcile_exact_kakao_identities
ExactIdentities(C, P) == OneToOne(C, P, {m \in C \X P : Identical(m[1], m[2])})

\* resolve_permit_candidate_sets: a permit is verified by its only strong cafe
\* among those it was given, unless another permit is verified by it too.
VerifiedPermits(given) ==
    LET strong(p) == {c \in given[p] : Corroborated(p, c)}
        sure == {p \in DOMAIN given : Cardinality(strong(p)) = 1}
    IN  {m \in UNION {{p} \X strong(p) : p \in sure} :
            \A p \in sure : strong(p) = {m[2]} => p = m[1]}

\* select_unmatched_review_sample and select_review_sample, which pick the same:
\* round by round, one of each category in their order while it has any.
ReviewSample(ranked, size) ==
    LET all == {<<i, c>> : i \in 1..size, c \in DOMAIN ranked}
        there == {e \in all : e[1] <= Len(ranked[e[2]])}
        before(e, f) == e[1] < f[1] \/ (e[1] = f[1] /\ e[2] < f[2])
    IN  {ranked[e[2]][e[1]] : e \in {g \in there : Cardinality({f \in there : before(f, g)}) < size}}

-----------------------------------------------------------------------------
(* The permits. *)

\* Mutant: the phone of the first row is taken.
PermitPhoneOfFirst(rows, of) == rows[Min(of)].phone

\* One phone when the rows of a number agree on it, and else none.
PermitPhone(rows, of) ==
    IF \A i, j \in of : rows[i].phone = rows[j].phone THEN rows[Min(of)].phone ELSE None

\* resolve_permit_candidates: rows of one management number are one permit; if
\* they differ in anything but the phone, the number is quarantined.
ResolvePermits(rows) ==
    LET numbers == {rows[i].number : i \in DOMAIN rows} \ {None}
        of(n) == {i \in DOMAIN rows : rows[i].number = n}
        agree == {n \in numbers : \A i, j \in of(n) : rows[i].body = rows[j].body}
        body(n) == rows[Min(of(n))].body
    IN  {[id |-> n, name |-> body(n).name, phone |-> PermitPhone(rows, of(n)),
          addrs |-> body(n).addrs, at |-> body(n).at] :
            n \in {m \in agree : body(m).selected /\ body(m).open /\ body(m).at \in SeoulBox}}

-----------------------------------------------------------------------------
(* The catalogs. *)

\* build_curated_catalog: records of low confidence only when a permit is
\* matched to them, and the matched with its number.
CuratedCatalog(overture, permits) ==
    LET matches == Reconcile(permits, overture).matches
        numbers(o) == {m[1].id : m \in {n \in matches : n[2] = o}}
    IN  {[o EXCEPT !.permits = @ \cup numbers(o)] :
            o \in {r \in overture : r.confident \/ numbers(r) # {}}}

\* direct_website_provider_reference and _overture_naver_ref: the number of a
\* place, when the link names one and nothing stands before its host.
NaverOf(o) == IF o.web # None /\ o.web.place # None /\ ~o.web.port THEN o.web.place ELSE None

Ref(origin, owner, provider, place) ==
    [origin |-> origin, owner |-> owner, provider |-> provider, place |-> place]

Owners(refs, r) == {s \in refs : s.provider = r.provider /\ s.place = r.place}

\* Mutant: identities are looked for among all records and places.
IdentityInputsAll(overture, kakao, spatial, permit) == <<overture, kakao>>

\* Neither a record matched by its position nor a place matched to a permit,
\* or in doubt, takes part again.
IdentityInputs(overture, kakao, spatial, permit) ==
    <<overture \ {m[2] : m \in spatial.matches},
      spatial.unmatched \ {m[2] : m \in permit.matches}>>

\* build_provider_cafe_catalog; None when it refuses its inputs.
ProviderCatalog(overture, permits, kakao) ==
    LET spatial == Reconcile(kakao, overture)
        eligible == {p \in permits : p.id \notin UNION {o.permits : o \in overture}}
        permit == Reconcile(eligible, spatial.unmatched)
        inputs == IdentityInputs(overture, kakao, spatial, permit)
        identity == ExactIdentities(inputs[1], inputs[2])
        refs == {Ref("overture", m[2].id, "kakao", m[1].id) : m \in spatial.matches}
                \cup {Ref("overture", m[1].id, "kakao", m[2].id) : m \in identity.matches}
                \cup {Ref("overture", o.id, "naver", NaverOf(o)) : o \in {r \in overture : NaverOf(r) # None}}
    IN  IF /\ Distinct(overture) /\ Distinct(permits) /\ Distinct(kakao)
           /\ \A k \in kakao : k.ce7
           /\ \A r \in refs : Cardinality({s.owner : s \in Owners(refs, r)}) = 1
        THEN [refs |-> refs,
              new |-> {[id |-> m[1].id, at |-> m[1].at,
                        refs |-> {Ref("permit", m[1].id, "kakao", m[2].id)}] : m \in permit.matches},
              naver |-> Cardinality({r \in refs : r.provider = "naver"}),
              kakao |-> Cardinality(spatial.matches) + Cardinality(identity.matches)]
        ELSE None

\* read_provider_catalog, and the counts read_complete_provider_catalog compares.
ReadsBack(build) ==
    LET all == build.refs \cup UNION {c.refs : c \in build.new} IN
    /\ Distinct(build.new) /\ \A c \in build.new : c.at \in SeoulBox /\ c.refs # {}
    /\ \A r, s \in all :
          /\ r.provider = s.provider /\ r.place = s.place => r = s
          /\ r.provider = s.provider /\ r.origin = s.origin /\ r.owner = s.owner => r = s
    /\ build.naver + build.kakao = Cardinality(build.refs)

\* build_kakao_expansion: Kakao places nothing is linked to and no cafe is
\* known by; what the places have in common with one another is only reported.
Expansion(kakao, cafes, used) ==
    LET target == {k \in kakao : (\E x \in k.addrs : x.seoul) /\ k.at \in SeoulBox}
        once == {k \in target : \A l \in target : l.id = k.id => l = k}
        known(k) == \E c \in cafes :
            \/ k.at = c.at
            \/ Strong(k, c)
            \/ SameName(k, c) /\ AddressCores(k) \cap AddressCores(c) # {}
    IN  {k \in once : k.id \notin used /\ ~known(k)}

\* match_naver_place: the one place among the answers with name and road
\* address of the cafe; an answer may be listed twice.
NaverMatch(cafe, answers) ==
    LET places == {a.web.place : a \in {b \in answers :
            /\ b.web.place # None /\ SameName(b, cafe)
            /\ b.addrs = cafe.addrs}}
    IN  IF cafe.addrs = {} \/ cafe.name = None \/ Cardinality(places) # 1 THEN None
        ELSE CHOOSE p \in places : TRUE

-----------------------------------------------------------------------------
(* Properties. *)

\* Of three sources matched in turn, no Kakao place gets two owners and no cafe
\* two places of a provider; a permit that is known by an Overture record never
\* becomes a cafe of its own; and what is written is what the seed can read.
CatalogLinksOnce(overture, permits, kakao) ==
    LET build == ProviderCatalog(CuratedCatalog(overture, permits), permits, kakao) IN
    build # None =>
        /\ ReadsBack(build)
        /\ \A c \in build.new, o \in CuratedCatalog(overture, permits) : c.id \notin o.permits

\* No cafe is verified for two permits, and no permit by two cafes.
PermitsVerifiedOnce(given) ==
    \A m, n \in VerifiedPermits(given) : m[1] = n[1] <=> m[2] = n[2]

\* The rows of the source have no order: read in another, they are the same
\* permits.
RowsHaveNoOrder(rows) == ResolvePermits(rows) = ResolvePermits(Reverse(rows))

\* A place the expansion makes a cafe of is no cafe yet: nothing in the catalog
\* would be reconciled with it, and a second expansion adds nothing.
ExpandsOnce(kakao, cafes, used) ==
    LET new == Expansion(kakao, cafes, used) IN
    /\ \A m \in Reconcile(new, cafes).matches : FALSE
    /\ Expansion(kakao, cafes, used \cup {k.id : k \in new}) = {}

\* A sample is as large as it was asked to be, and no category has two more in
\* it than one it left unfinished.
SampleIsFair(ranked, size) ==
    LET sample == ReviewSample(ranked, size)
        of(c) == Cardinality(sample \cap ToSet(ranked[c]))
        all == UNION {ToSet(ranked[c]) : c \in DOMAIN ranked}
    IN  /\ Cardinality(sample) = IF Cardinality(all) < size THEN Cardinality(all) ELSE size
        /\ \A c, d \in DOMAIN ranked : of(c) > of(d) + 1 => of(d) = Len(ranked[d])

=============================================================================
