------------------------------- MODULE Clients -------------------------------
(***************************************************************************)
(* What the provider clients make of the answers they get: which they try  *)
(* again and after how long, how many requests a call may cost, and which  *)
(* payloads are results.                                                   *)
(*                                                                         *)
(* An answer to one request is [kind, after]: kind "ok", "throttled" (429, *)
(* after its Retry-After or None), "retryable" (another status of the      *)
(* list), "status", "transport", "http" (any other error of httpx) or      *)
(* "invalid" (no JSON); attempts are counted from 0.  A payload is the     *)
(* sequence of the objects in it, in document order.                       *)
(***************************************************************************)
EXTENDS Outcomes, FiniteSets, SequencesExt

CONSTANTS
    MaxRetries,     \* HTTP_MAX_RETRIES
    BaseDelay,      \* HTTP_RETRY_BASE_DELAY_SECONDS, in units
    MaxAfter        \* KAKAO_RETRY_AFTER_MAX_SECONDS and its Naver twin

ASSUME ClientsAssumption == MaxRetries \in Nat /\ BaseDelay \in Nat /\ MaxAfter \in Nat

Kinds == {"ok", "throttled", "retryable", "status", "transport", "http", "invalid"}

-----------------------------------------------------------------------------
(* Retries. *)

\* KakaoLocalClient._retry_delay and NaverLocalClient._retry_delay.
RetryDelay(answer, index) ==
    IF answer.kind = "throttled" /\ answer.after # None
    THEN IF answer.after < 0 THEN 0 ELSE IF answer.after > MaxAfter THEN MaxAfter ELSE answer.after
    ELSE BaseDelay * 2 ^ index

\* Which answers are tried again: KAKAO_RETRYABLE_STATUS_CODES and transport
\* errors; NAVER_LOCAL_RETRYABLE_STATUS_CODES and any error of httpx.
Retried(client, answer) ==
    \/ answer.kind \in {"throttled", "retryable", "transport"}
    \/ client = "naver" /\ answer.kind = "http"

\* Mutant: the last attempt may be followed by another.
LastAttemptLate(client, answers) == 
    LET tried == {i \in 1..Len(answers) : \A j \in 1..(i - 1) : Retried(client, answers[j])}
    IN  CHOOSE i \in tried : \A j \in tried : j <= i

\* The request a call ends with: the first whose answer is not tried again, and
\* in any case the one after MaxRetries others.
LastAttempt(client, answers) ==
    LET tried == {i \in 1..(MaxRetries + 1) : \A j \in 1..(i - 1) : Retried(client, answers[j])}
    IN  CHOOSE i \in tried : \A j \in tried : j <= i

\* search_category_raw and search_local_raw, given the answers to come and how
\* many requests the client may still send (Naver's request_limit; Kakao has
\* none).  `used` counts requests, `waited` is the time slept between them.
Call(client, answers, left) ==
    LET last == LastAttempt(client, answers)
        limited == client = "naver" /\ left < last
        used == IF limited THEN left ELSE last
        slept == IF limited THEN left ELSE last - 1
    IN  [used |-> used,
         result |-> IF limited \/ answers[last].kind # "ok" THEN "error" ELSE "ok",
         waited |-> SumFunction([i \in 1..slept |-> RetryDelay(answers[i], i - 1)])]

-----------------------------------------------------------------------------
(* Payloads of the Seoul API; an object is [code, area], code that of a     *)
(* RESULT in it or None, area whether it has AREA_NM and AREA_CONGEST_LVL.  *)

\* _raise_for_api_error: an error code anywhere.
HasApiError(payload) == \E i \in DOMAIN payload : payload[i].code \notin {None, "INFO-000"}

\* _find_area_record: the first record, depth first.
AreaRecord(payload) ==
    LET records == {i \in DOMAIN payload : payload[i].area}
    IN  IF records = {} THEN None ELSE CHOOSE i \in records : \A j \in records : i <= j

\* fetch_population_raw and fetch_population: no retry within a call.
FetchPopulation(answer, payload) ==
    IF answer.kind # "ok" \/ HasApiError(payload) THEN "error"
    ELSE IF AreaRecord(payload) = None THEN "error" ELSE "ok"

\* parse_permit_page: the code stands in the envelope, or beside it when there
\* is none; the rows must be a list.
ParsePermitPage(page) ==
    IF page.envelope /\ page.code = "INFO-000" /\ page.rows # None /\ page.total # None
    THEN [rows |-> page.rows, total |-> page.total] ELSE "error"

\* _validate_page_bounds
PageBounds(first, last, max) == first >= 1 /\ last >= first /\ last - first + 1 <= max

\* _attachment_filename and _validate_attachment: a file of the suffix that
\* begins as a ZIP does.
Attachment(response, suffix) ==
    IF response.disposition = "attachment" /\ response.suffix = suffix /\ response.zip
    THEN response ELSE "error"

\* SeoulLivingPopulationFilesClient.download_to: the file under exactly the name
\* asked for, not empty; else nothing is left of it.
DownloadTo(response, name) ==
    IF /\ response.kind = "ok" /\ response.disposition = "attachment"
       /\ response.name = name /\ response.chunks # <<>> /\ response.zip
    THEN [file |-> response.chunks, result |-> "ok"] ELSE [file |-> None, result |-> "error"]

-----------------------------------------------------------------------------
(* Properties. *)

\* No call sends more than its retries allow, nor, over any number of calls,
\* more than the limit; it gives up only over an answer worth no retry, or when
\* all were used; and a server that asks for a pause gets it, up to a bound.
CallsAreBounded(client, answers, left) ==
    LET call == Call(client, answers, left) IN
    /\ call.used <= MaxRetries + 1
    /\ client = "naver" => call.used <= left
    /\ call.result = "error" =>
          \/ call.used = MaxRetries + 1
          \/ client = "naver" /\ call.used = left
          \/ ~Retried(client, answers[call.used])
    /\ call.waited <= MaxRetries * (MaxAfter + BaseDelay * 2 ^ MaxRetries)

\* An answer that carries an error is never read as an observation, whatever
\* records come with it.
ErrorsAreNoData(payload) ==
    FetchPopulation([kind |-> "ok", after |-> None], payload) = "ok"
        => /\ \A i \in DOMAIN payload : payload[i].code \in {None, "INFO-000"}
           /\ payload[AreaRecord(payload)].area

=============================================================================
