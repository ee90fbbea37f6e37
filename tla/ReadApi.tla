------------------------------ MODULE ReadApi ------------------------------
(***************************************************************************)
(* The queries of backend/app/api/routes.py as functions of the tables:    *)
(* which cafes a listing or a search returns and in which order, what of   *)
(* their scores it shows (Freshness), and which links to map providers a   *)
(* detail may carry.                                                       *)
(*                                                                         *)
(* A cafe is [id, active, x, y, name, address, score, json, places]; a     *)
(* score [age, level, confidence]; text a sequence of characters, already  *)
(* in lower case.  A link is what urlparse makes of it: scheme, host, the  *)
(* kind of its path, the number in the path and the ids in its query.      *)
(***************************************************************************)
EXTENDS Freshness, FiniteSets, SequencesExt

CONSTANTS
    MaxCafesPerViewport,    \* MAX_CAFES_PER_VIEWPORT
    MaxBboxSpan,            \* MAX_BBOX_SPAN_DEG
    MinQueryLength,         \* CAFE_SEARCH_MIN_QUERY_LENGTH
    World, Seoul,           \* [x1, x2, y1, y2]: all coordinates, SEOUL_BBOX
    Aliases                 \* CAFE_SEARCH_BRAND_ALIASES: brand -> sequence of terms

\* The terms of a brand name it too, and no two brands share one.
ASSUME ReadAssumption ==
    /\ \A b \in DOMAIN Aliases : b \in ToSet(Aliases[b]) /\ ToSet(Aliases[b]) \cap {None, <<>>} = {}
    /\ \A b, c \in DOMAIN Aliases : b # c => ToSet(Aliases[b]) \cap ToSet(Aliases[c]) = {}

Providers == {"naver", "kakao", "google"}
Invalid == "422"

-----------------------------------------------------------------------------
(* Links. *)

Hosts(provider) ==
    CASE provider = "naver" -> {"map.naver.com", "m.place.naver.com"}
      [] provider = "kakao" -> {"place.map.kakao.com"}
      [] provider = "google" -> {"www.google.com"}

\* The path or query names one place: is_detail.
IsDetail(provider, url) ==
    CASE provider = "naver" ->
             url.path = IF url.host = "map.naver.com" THEN "/p/entry/place/n" ELSE "/place/n"
      [] provider = "kakao" -> url.path = "/n"
      [] provider = "google" -> url.path = "/maps/place/" \/ url.query # <<>>

\* _safe_external_links, one provider of it.
SafeLink(provider, url) ==
    IF url # None /\ url.scheme = "https" /\ url.host \in Hosts(provider) /\ IsDetail(provider, url)
    THEN url ELSE None

\* _provider_place_id_from_detail_url
PlaceIdOf(provider, url) ==
    IF provider = "google"
    THEN IF Len(url.query) = 1 THEN url.query[1] ELSE None
    ELSE IF IsDetail(provider, url) THEN url.number ELSE None

\* Mutant: an inactive identity leaves the link of the rollout in place.
ExternalLinksRevived(cafe) ==
    [provider \in Providers |->
        LET rows == {p \in cafe.places : p.provider = provider /\ p.active} IN
        IF rows = {} THEN SafeLink(provider, cafe.json[provider])
        ELSE LET place == CHOOSE p \in rows : TRUE
                 link == SafeLink(provider, place.url)
             IN  IF link # None /\ PlaceIdOf(provider, link) = place.id THEN link ELSE None]

\* _cafe_external_links: the row of a provider, of which a cafe has at most
\* one, stands for the provider, also when it is inactive or its link is bad.
ExternalLinks(cafe) ==
    [provider \in Providers |->
        LET rows == {p \in cafe.places : p.provider = provider} IN
        IF rows = {} THEN SafeLink(provider, cafe.json[provider])
        ELSE LET place == CHOOSE p \in rows : TRUE
                 link == SafeLink(provider, place.url)
             IN  IF place.active /\ link # None /\ PlaceIdOf(provider, link) = place.id
                 THEN link ELSE None]

\* _naver_map_search_url: offered instead of a place, and claims none.
OffersNaverSearch(cafe) ==
    ExternalLinks(cafe)["naver"] = None /\ cafe.name # <<>> /\ cafe.address # <<>>

-----------------------------------------------------------------------------
(* Listings. *)

\* _parse_bbox
ParseBbox(b) ==
    IF /\ World.x1 <= b.x1 /\ b.x1 <= b.x2 /\ b.x2 <= World.x2
       /\ World.y1 <= b.y1 /\ b.y1 <= b.y2 /\ b.y2 <= World.y2
       /\ b.x2 - b.x1 <= MaxBboxSpan /\ b.y2 - b.y1 <= MaxBboxSpan
    THEN b ELSE Invalid

Inside(b, cafe) == cafe.active /\ cafe.x \in b.x1..b.x2 /\ cafe.y \in b.y1..b.y2

\* _cafe_map_response and _cafe_map_summary_response: the two listings show
\* the same of a score.
Item(cafe) ==
    LET answer == IF cafe.score = None THEN [freshness |-> "n/a", level |-> FALSE,
                                             confidence |-> FALSE, minutes |-> None]
                  ELSE Answered(cafe.score.age)
    IN  [id |-> cafe.id, freshness |-> answer.freshness, minutes |-> answer.minutes,
         level |-> IF answer.level THEN cafe.score.level ELSE None,
         confidence |-> IF answer.confidence THEN cafe.score.confidence ELSE None]

Confident(confidence, minConf) == minConf = 0 \/ (confidence # None /\ confidence >= minConf)

StoredConfidence(cafe) == IF cafe.score = None THEN None ELSE cafe.score.confidence

\* list_cafes and list_cafe_summaries: the database filters and limits by the
\* stored confidence, and what is stale by now is left out afterwards.
ListCafes(cafes, b, minConf) ==
    LET rows == {c \in cafes : Inside(b, c) /\ Confident(StoredConfidence(c), minConf)}
        shown == {i \in {Item(c) : c \in rows} : Confident(i.confidence, minConf)}
        truncated == Cardinality(rows) > MaxCafesPerViewport
    IN  [truncated |-> truncated,
         items |-> IF truncated THEN <<>> ELSE InOrder(shown, LAMBDA i, j : i.id < j.id)]

\* list_hotspots, one hotspot: its newest snapshot, by observation time.
HotspotStatus(ages) ==
    LET age == IF ages = {} THEN None ELSE CHOOSE a \in ages : \A other \in ages : a <= other
        freshness == IF age = None THEN "n/a" ELSE ObservationFreshness(age)
    IN  [freshness |-> freshness, level |-> ShowsLevel(freshness)]

\* health: the newest cycle by its start, and the newest complete one by its
\* end; an age is the time since.
LastCycleStatus(cycles) ==
    IF cycles = {} THEN None
    ELSE (CHOOSE c \in cycles : \A d \in cycles :
             c.started < d.started \/ (c.started = d.started /\ c.id >= d.id)).status

LastCompleteAge(cycles) ==
    LET ends == {c.completed : c \in {d \in cycles : d.status = "complete"}}
    IN  IF ends = {} THEN None ELSE CHOOSE a \in ends : \A other \in ends : a <= other

-----------------------------------------------------------------------------
(* Search. *)

HasPart(text, term) ==
    \E i \in 0..(Len(text) - Len(term)) : SubSeq(text, i + 1, i + Len(term)) = term

\* Mutant: a brand is searched for as it was written, not by its aliases.
WrittenBrandTerms(brand) == {brand}

\* _brand_search_terms: any alias of a brand stands for all of them; the empty
\* set is a brand that is not supported.
BrandSearchTerms(brand) ==
    LET known == {b \in DOMAIN Aliases : brand = b \/ brand \in ToSet(Aliases[b])}
    IN  UNION {{brand} \cup ToSet(Aliases[b]) : b \in known}

\* search_cafes before it asks the database.
SearchInvalid(q, brand, origin) ==
    \/ q # None /\ q # <<>> /\ Len(q) < MinQueryLength
    \/ brand \notin {None, <<>>} /\ BrandSearchTerms(brand) = {}
    \/ q \in {None, <<>>} /\ brand \in {None, <<>>}
    \/ origin # None /\ (origin.x = None) # (origin.y = None)

Found(cafes, q, brand) ==
    {c \in cafes :
        /\ Inside(Seoul, c)
        /\ q \notin {None, <<>>} => HasPart(c.name, q) \/ HasPart(c.address, q)
        /\ brand \notin {None, <<>>} => \E t \in BrandSearchTerms(brand) : HasPart(c.name, t)}

Relevance(cafe, term) ==
    IF cafe.name = term THEN 0
    ELSE IF IsPrefix(term, cafe.name) THEN 1
    ELSE IF HasPart(cafe.name, term) THEN 2 ELSE 3

\* They agree on their first n letters; then s ends or has the lesser one.
TextBefore(s, t) ==
    \E n \in 0..Len(s) :
        /\ \A i \in 1..n : i \in DOMAIN t /\ s[i] = t[i]
        /\ n + 1 \in DOMAIN t /\ (n = Len(s) \/ s[n + 1] < t[n + 1])

Squared(cafe, origin) ==
    (cafe.x - origin.x) * (cafe.x - origin.x) + (cafe.y - origin.y) * (cafe.y - origin.y)

\* By distance from an origin, else by relevance, then by name; ids last.
Before(c, d, term, origin) ==
    IF origin # None
    THEN \/ Squared(c, origin) < Squared(d, origin)
         \/ Squared(c, origin) = Squared(d, origin) /\ c.id < d.id
    ELSE LET rc == Relevance(c, term) rd == Relevance(d, term) IN
         \/ rc < rd
         \/ rc = rd /\ TextBefore(c.name, d.name)
         \/ rc = rd /\ c.name = d.name /\ c.id < d.id

SearchCafes(cafes, q, brand, origin, limit) ==
    IF SearchInvalid(q, brand, origin) THEN Invalid
    ELSE LET term == IF q \in {None, <<>>} THEN brand ELSE q
             place == IF origin # None /\ origin.x # None THEN origin ELSE None
             ordered == InOrder(Found(cafes, q, brand), LAMBDA c, d : Before(c, d, term, place))
         IN  IF Len(ordered) <= limit THEN ordered ELSE SubSeq(ordered, 1, limit)

-----------------------------------------------------------------------------
(* Properties. *)

\* A link leads to the place the catalog verified: where a cafe has a row of
\* the provider, it is that row's, which is active, and never the rollout's.
LinksAreVerified(cafe) ==
    \A provider \in Providers :
        LET link == ExternalLinks(cafe)[provider] IN
        link # None =>
            /\ link.scheme = "https" /\ link.host \in Hosts(provider)
            /\ \A p \in cafe.places : p.provider = provider =>
                   p.active /\ p.url = link /\ PlaceIdOf(provider, link) = p.id
            /\ provider = "naver" => ~OffersNaverSearch(cafe)

\* A listing is every cafe of the box whose confidence is shown and reaches
\* the limit, each once and by its id, or nothing at all: the limit on rows
\* never hides some of them.
ListingIsWhole(cafes, b, minConf) ==
    LET listed == ListCafes(cafes, b, minConf)
        wanted == {c.id : c \in {d \in cafes : Inside(b, d) /\ Confident(Item(d).confidence, minConf)}}
    IN  IF listed.truncated THEN listed.items = <<>>
        ELSE /\ {i.id : i \in ToSet(listed.items)} = wanted
             /\ \A i, j \in DOMAIN listed.items : i < j => listed.items[i].id < listed.items[j].id

\* A search returns the best of what it found, best first; and any alias of a
\* brand finds the same cafes.
SearchIsBest(cafes, q, brand, origin, limit) ==
    LET answer == SearchCafes(cafes, q, brand, origin, limit)
        term == IF q \in {None, <<>>} THEN brand ELSE q
        place == IF origin # None /\ origin.x # None THEN origin ELSE None
        found == Found(cafes, q, brand)
    IN  ~SearchInvalid(q, brand, origin) =>
            /\ ToSet(answer) \subseteq found
            /\ Len(answer) = IF Cardinality(found) < limit THEN Cardinality(found) ELSE limit
            /\ \A i \in DOMAIN answer :
                   /\ \A d \in found \ ToSet(answer) : ~Before(d, answer[i], term, place)
                   /\ \A j \in 1..(i - 1) : Before(answer[j], answer[i], term, place)
            /\ \A b \in DOMAIN Aliases : brand \in ToSet(Aliases[b]) =>
                   \A alias \in ToSet(Aliases[b]) : Found(cafes, q, alias) = found

=============================================================================
