----------------------------- MODULE Catalogue ------------------------------
(***************************************************************************)
(* The catalogue as the tools of the MCP server and the HTTP API read it,  *)
(* while the pipeline commits to it.  A client makes one request after     *)
(* another and may use in one what an earlier one told it.  Each query is  *)
(* one READ COMMITTED statement: between two of a request, and between two *)
(* requests, the pipeline goes on.                                         *)
(*                                                                         *)
(* The commits are those of Pipeline, one report at a time except that a   *)
(* discovery inserts several; a redeployment brings new prompts.           *)
(***************************************************************************)
EXTENDS Naturals, FiniteSets, Facets

CONSTANTS
    Reports,
    Cards,        \* what the listing may say of the reports: type, ticker, published
    Payloads,     \* answers of Gemini, each in the schema of its key
    Queries,      \* search arguments that a client may think of by itself
    PageQueries,  \* arguments of list_reports
    Limits,       \* limit of a request
    MaxVersion    \* bound: prompt versions deployed in a behaviour

ASSUME LimitAssumption == Limits \subseteq Nat \ {0} /\ MaxVersion \in Nat
ASSUME ReportsAssumption == IsFiniteSet(Reports)
ASSUME CardsAssumption ==
    \A c \in Cards, r \in Reports :
        /\ c[r].published \in Nat
        /\ c[r].ticker = Nil \/ Spelled(c[r].ticker)
ASSUME PayloadsAssumption ==
    \A p \in Payloads :
        /\ p.industry \in Texts \cup {Nil} /\ p.topic \in Texts \cup {Nil}
        /\ p.outlook \in Outlooks \cup {Nil}
        \* a Literal of the schema of company
        /\ \/ p.recommendation = Nil
           \/ p.recommendation \in Texts /\ p.recommendation.case = "upper"
        /\ p.picks \subseteq Texts /\ p.indexes \subseteq Texts
ASSUME QueriesAssumption ==
    \A q \in Queries : "mentions_ticker" \in DOMAIN q => q.mentions_ticker \in Texts

VARIABLES
    card,         \* the columns that are written once, by the discovery
    status,       \* reports.status, absent before the report is discovered
    since,        \* discovered_at: now() of the transaction that inserted it
    keyed,        \* reports with a pdf_object_key
    extractions,  \* rows of report_extractions
    version,      \* prompt_version of the schemas deployed
    client,       \* the request in progress
    answer,       \* what the last request returned, until something else happens
    known         \* something an earlier answer said

catalogue == <<card, status, since, keyed, extractions, version>>
vars == <<catalogue, client, answer, known>>

Statuses == {"absent", "discovered", "downloaded", "duplicate", "failed", "extracted"}
Idle == [op |-> "idle"]
NoAnswer == [op |-> "none"]
Nothing == [kind |-> "nothing"]

Init ==
    /\ card \in Cards
    /\ status = [r \in Reports |-> "absent"]
    /\ since = [r \in Reports |-> 0]
    /\ keyed = {}
    /\ extractions = {}
    /\ version = 1
    /\ client = Idle
    /\ answer = NoAnswer
    /\ known = Nothing

Present == {r \in Reports : status[r] # "absent"}

-----------------------------------------------------------------------------
(* What the pipeline commits *)

Readers == /\ answer' = NoAnswer
           /\ UNCHANGED <<client, known>>

\* As Discover, with an insert that starts a known report over.
DiscoverAgain(S) ==
    /\ S # {}
    /\ status' = [r \in Reports |-> IF r \in S THEN "discovered" ELSE status[r]]
    /\ \E now \in 1..Cardinality(Reports) \ {since[r] : r \in Present} :
           since' = [r \in Reports |-> IF r \in S THEN now ELSE since[r]]
    /\ Readers
    /\ UNCHANGED <<card, keyed, extractions, version>>

\* One transaction, so one discovered_at for all that it inserts: the time when it
\* began, which may be before that of one that has committed.
Discover(S) ==
    /\ S # {} /\ S \cap Present = {}
    /\ status' = [r \in Reports |-> IF r \in S THEN "discovered" ELSE status[r]]
    /\ \E now \in 1..Cardinality(Reports) \ {since[r] : r \in Present} :
           since' = [r \in Reports |-> IF r \in S THEN now ELSE since[r]]
    /\ Readers
    /\ UNCHANGED <<card, keyed, extractions, version>>

Download(r) ==
    /\ status[r] = "discovered"
    /\ status' = [status EXCEPT ![r] = "downloaded"]
    /\ keyed' = keyed \cup {r}
    /\ Readers
    /\ UNCHANGED <<card, since, extractions, version>>

\* A duplicate, or the last retry of a stage.
Settle(r, s) ==
    /\ \/ status[r] = "discovered" /\ s \in {"duplicate", "failed"}
       \/ status[r] = "downloaded" /\ s = "failed"
    /\ status' = [status EXCEPT ![r] = s]
    /\ Readers
    /\ UNCHANGED <<card, since, keyed, extractions, version>>

\* As Claimable, so that new prompts are applied to old reports.
ClaimableAgain(r) == status[r] \in {"downloaded", "extracted"}

Claimable(r) == status[r] = "downloaded"

\* insert ... on conflict (report_id, prompt_version) do nothing, then the update.
Extract(r, payload) ==
    /\ Claimable(r)
    /\ payload.key = SchemaKey(card[r].type)
    /\ LET row == [report |-> r, version |-> version, raw |-> payload,
                   facets |-> ExtractFacets(payload, payload.key, card[r].ticker)]
           conflict == \E e \in extractions : e.report = r /\ e.version = version
       IN extractions' = IF conflict THEN extractions ELSE extractions \cup {row}
    /\ status' = [status EXCEPT ![r] = "extracted"]
    /\ Readers
    /\ UNCHANGED <<card, since, keyed, version>>

\* A deployment ends the requests in progress.
Deploy ==
    /\ version < MaxVersion
    /\ version' = version + 1
    /\ client' = Idle
    /\ answer' = NoAnswer
    /\ UNCHANGED <<card, status, since, keyed, extractions, known>>

Pipeline ==
    \/ \E S \in SUBSET Reports : Discover(S)
    \/ \E r \in Reports : Download(r)
    \/ \E r \in Reports, s \in {"duplicate", "failed"} : Settle(r, s)
    \/ \E r \in Reports, p \in Payloads : Extract(r, p)
    \/ Deploy

-----------------------------------------------------------------------------
(* Queries *)

Of(r) == {e \in extractions : e.report = r}

\* As Latest, for the prompts of today only.
LatestOfVersion(r) == {e \in Of(r) : e.version = version}

\* order by extracted_at desc limit 1.  A later version is extracted later, and
\* for one version the order of two extractions is left open.
Latest(r) == {e \in Of(r) : \A d \in Of(r) : d.version <= e.version}

\* As Newer, with what was worked on last in front.
NewerByProgress(x, y) == x \in keyed /\ y \notin keyed

\* order by published_at desc nulls last, discovered_at desc.  A date is a
\* positive number, and 0 if the listing shows none.  Reports of one day that one
\* transaction inserted come in any order, and in another one the next time.
Newer(x, y) ==
    \/ card[x].published > card[y].published
    \/ card[x].published = card[y].published /\ since[x] > since[y]

NewestFirst(reports) == {p \in reports \X reports : Newer(p[1], p[2])}

\* The ways to take the first n rows of a result, of a pair in order the left one first.
First(rows, n, order) ==
    {S \in SUBSET rows :
        /\ Cardinality(S) = IF Cardinality(rows) < n THEN Cardinality(rows) ELSE n
        /\ \A x \in S, y \in rows \ S : <<y, x>> \notin order}

\* As Flag, for every report that has its PDF.
FlagStored(r) == r \in keyed

\* has_extraction of a row that was not joined with an extraction
Flag(r) == Of(r) # {}

\* Only some arguments of a search are given: DOMAIN args.
OfExtraction == {"industry_name", "topic", "outlook", "recommendation", "mentions_ticker"}

NeedsJoin(args) ==
    \/ OfExtraction \cap DOMAIN args # {}
    \/ "has_extraction" \in DOMAIN args /\ args.has_extraction

Given(args, name) == name \in DOMAIN args

\* An empty text is given, but does not filter.
Filters(args, name) == Given(args, name) /\ Truthy(args[name])

ReportMatches(args, r) ==
    /\ Filters(args, "ticker") => card[r].ticker = Upper(args.ticker)
    /\ Given(args, "report_type_code") => card[r].type = args.report_type_code
    /\ Given(args, "since") => card[r].published # 0 /\ card[r].published >= args.since
    /\ Given(args, "until") => card[r].published # 0 /\ card[r].published <= args.until

FacetsMatch(args, facets) ==
    /\ Filters(args, "industry_name") => ILike(facets.industry_name, args.industry_name)
    /\ Filters(args, "topic") => ILike(facets.topic, args.topic)
    /\ Given(args, "outlook") => facets.outlook = args.outlook
    /\ Filters(args, "recommendation") =>
           facets.recommendation = Upper(args.recommendation)
    /\ Filters(args, "mentions_ticker") => Upper(args.mentions_ticker) \in facets.mentioned

Joined(e) == [report |-> e.report, version |-> e.version, extracted |-> TRUE]

\* One row per report and extraction, or per report if nothing is joined.
SearchRows(args) ==
    IF NeedsJoin(args)
    THEN {Joined(e) : e \in {e \in extractions : /\ ReportMatches(args, e.report)
                                                 /\ FacetsMatch(args, e.facets)}}
    ELSE {[report |-> r, version |-> 0, extracted |-> Flag(r)] :
             r \in {r \in Present : /\ ReportMatches(args, r)
                                    /\ Given(args, "has_extraction") => Of(r) = {}}}

StockRows(ticker) ==
    {Joined(e) : e \in {e \in extractions : card[e.report].ticker = Upper(ticker)}}

\* order by published_at desc nulls last, extracted_at desc
LaterAnalysis(rows) ==
    {p \in rows \X rows :
        \/ card[p[1].report].published > card[p[2].report].published
        \/ /\ card[p[1].report].published = card[p[2].report].published
           /\ p[1].version > p[2].version}

-----------------------------------------------------------------------------
(* Requests of one statement *)

Answers(a) == /\ client = Idle
              /\ answer' = a
              /\ UNCHANGED <<catalogue, client, known>>

NewestRows(rows) == {p \in rows \X rows : Newer(p[1].report, p[2].report)}

Search(args, limit) ==
    \E rows \in First(SearchRows(args), limit, NewestRows(SearchRows(args))) :
        Answers([op |-> "search", args |-> args, limit |-> limit, rows |-> rows])

GetStockAnalysis(ticker, limit) ==
    \E rows \in First(StockRows(ticker), limit, LaterAnalysis(StockRows(ticker))) :
        Answers([op |-> "stock", rows |-> rows])

\* The values in use; the limit keeps some of them.
ListFacets(facet) ==
    \E values \in SUBSET ({e.facets[facet] : e \in extractions} \ {Nil}) :
        Answers([op |-> "facets", facet |-> facet, values |-> values])

\* The tickers as the extras of an extraction show them.
NamedIn(e) == Named(e.raw, e.raw.key, card[e.report].ticker)

GetReportMetrics(r) ==
    Answers([op |-> "metrics", report |-> r, found |-> Latest(r) # {},
             named |-> UNION {NamedIn(e) : e \in Latest(r)}])

\* After its statement the object store or Gemini may still fail.
AskReportPdf(r) ==
    LET found == r \in Present /\ r \in keyed
    IN \E answered \in IF found THEN BOOLEAN ELSE {FALSE} :
           Answers([op |-> "ask", report |-> r, found |-> found, answered |-> answered])

GetReportPdf(r) ==
    Answers([op |-> "pdf", report |-> r, found |-> r \in Present /\ r \in keyed])

-----------------------------------------------------------------------------
(* Requests of several statements *)

\* get_report: the row of the report, then its latest extraction.
ReadReport(r) ==
    /\ client = Idle
    /\ IF r \in Present
       THEN /\ client' = [op |-> "detail", report |-> r, status |-> status[r]]
            /\ answer' = NoAnswer
       ELSE /\ client' = Idle
            /\ answer' = [op |-> "detail", report |-> r, status |-> "absent",
                          extracted |-> FALSE]
    /\ UNCHANGED <<catalogue, known>>

ReadExtraction ==
    /\ client.op = "detail"
    /\ client' = Idle
    /\ answer' = [op |-> "detail", report |-> client.report, status |-> client.status,
                  extracted |-> Latest(client.report) # {}]
    /\ UNCHANGED <<catalogue, known>>

\* A client that reads list_reports page by page until one is not full.
Listed(filter) ==
    {r \in Present : /\ Given(filter, "type") => card[r].type = filter.type
                     /\ Filters(filter, "ticker") => card[r].ticker = Upper(filter.ticker)
                     /\ Given(filter, "status") => status[r] = filter.status}

Paging(filter, limit, offset, due, seen) ==
    [op |-> "pages", filter |-> filter, limit |-> limit, offset |-> offset,
     due |-> due, seen |-> seen]

StartPages(filter, limit) ==
    /\ client = Idle
    /\ client' = Paging(filter, limit, 0, Listed(filter), {})
    /\ answer' = NoAnswer
    /\ UNCHANGED <<catalogue, known>>

\* offset and limit: what stands after a way to take the first offset rows.
Page(rows, offset, limit) ==
    UNION {{top \ skipped : top \in {t \in First(rows, offset + limit, NewestFirst(rows)) :
                                        skipped \subseteq t}} :
              skipped \in First(rows, offset, NewestFirst(rows))}

ListReports ==
    /\ client.op = "pages"
    /\ \E page \in Page(Listed(client.filter), client.offset, client.limit) :
          LET seen == client.seen \cup page
          IN IF Cardinality(page) = client.limit
             THEN /\ client' = Paging(client.filter, client.limit,
                                     client.offset + client.limit, client.due, seen)
                  /\ answer' = NoAnswer
             ELSE /\ client' = Idle
                  /\ answer' = [op |-> "pages", filter |-> client.filter,
                                due |-> client.due, seen |-> seen]
    /\ UNCHANGED <<catalogue, known>>

-----------------------------------------------------------------------------
(* A client that takes up what it was told *)

\* publisher and period are listed too, but no argument of a search compares them.
FacetNames == {"industry_name", "topic", "outlook", "recommendation"}

Told(a) ==
    CASE a.op \in {"search", "stock"} ->
             {[kind |-> "extracted", report |-> row.report] :
                 row \in {row \in a.rows : row.extracted}}
      [] a.op = "detail" ->
             IF a.extracted THEN {[kind |-> "extracted", report |-> a.report]} ELSE {}
      [] a.op = "metrics" ->
             {[kind |-> "mention", report |-> a.report, ticker |-> t] :
                 t \in {t \in a.named : t.word # Blank}}
      [] a.op = "facets" ->
             {[kind |-> "facet", facet |-> a.facet, value |-> v] : v \in a.values}
      [] OTHER -> {}

Remember ==
    /\ known' \in Told(answer)
    /\ answer' = NoAnswer
    /\ UNCHANGED <<catalogue, client>>

\* Any case, with the blanks that Gemini spelled the ticker with or without them.
Spellings(t) == {[u EXCEPT !.case = c] : u \in {t, Strip(t)}, c \in Cases}

\* A listed value is copied, a ticker is copied or typed.
Suggested ==
    CASE known.kind = "facet" -> {[f \in {known.facet} |-> known.value]}
      [] known.kind = "mention" ->
             {[mentions_ticker |-> t] : t \in Spellings(known.ticker)}
      [] OTHER -> {}

Requests ==
    \/ \E args \in Queries \cup Suggested, limit \in Limits : Search(args, limit)
    \/ \E t \in {card[r].ticker : r \in Reports} \ {Nil}, limit \in Limits :
           GetStockAnalysis(t, limit)
    \/ \E f \in FacetNames : ListFacets(f)
    \/ \E r \in Reports : GetReportMetrics(r) \/ AskReportPdf(r) \/ GetReportPdf(r)
                          \/ ReadReport(r)
    \/ ReadExtraction
    \/ \E filter \in PageQueries, limit \in Limits : StartPages(filter, limit)
    \/ ListReports
    \/ Remember

Next == Pipeline \/ Requests

Spec == Init /\ [][Next]_vars

-----------------------------------------------------------------------------
(* Properties *)

\* Every variable has its type; the facets that are compared for equality are
\* stored in their normal form.
TypeOK ==
    /\ card \in Cards
    /\ status \in [Reports -> Statuses]
    /\ since \in [Reports -> Nat]
    /\ keyed \subseteq Reports
    /\ version \in Nat
    /\ \A e \in extractions :
           /\ e.report \in Reports /\ e.version \in Nat
           /\ e.raw \in Payloads
           /\ e.facets.industry_name = Nil \/ Spelled(e.facets.industry_name)
           /\ e.facets.outlook \in Outlooks \cup {Nil}
           /\ \A t \in e.facets.mentioned : Spelled(t) /\ t.case = "upper"
    /\ client.op \in {"idle", "detail", "pages"}
    /\ answer.op \in {"none", "search", "stock", "facets", "metrics", "ask", "pdf",
                      "detail", "pages"}
    /\ known.kind \in {"nothing", "extracted", "facet", "mention"}

\* Each commit moves each report along the life cycle that the pipeline promises,
\* also across deployments.  Of a PDF this module knows only that there is one, of
\* retries only that they are used up; an extraction too many would be no edge.
Life ==
    [r \in Reports |->
        [status |-> status[r],
         type |-> IF status[r] = "absent" THEN Nil ELSE card[r].type,
         retry |-> IF status[r] = "failed" THEN 1 ELSE 0,
         stored |-> r \in keyed,
         sha |-> IF r \in keyed \/ status[r] = "duplicate" THEN 1 ELSE Nil,
         digest |-> IF Of(r) = {} THEN Nil ELSE Cardinality(Of(r))]]

ListedTypes == UNION {{c[r].type : r \in Reports} : c \in Cards}

Lifecycle == INSTANCE ReportLifecycle WITH
    life <- Life, Types <- ListedTypes, Contents <- {1}, MaxRetries <- 1
LifecycleSpec == Lifecycle!Spec

\* A search joins reports with their extractions and drops no repetition.  It
\* still shows a report once, since a new prompt_version never brings a second
\* extraction: what is extracted is not claimed again.
SearchedOnce ==
    answer.op \in {"search", "stock"} =>
        \A x, y \in answer.rows : x.report = y.report => x = y

\* get_report reads the report and its extraction in two statements, between
\* which the pipeline may commit.  A report that it shows as extracted comes
\* with its extraction, whatever the prompt version was.
DetailCoherent ==
    answer.op = "detail" /\ answer.status = "extracted" => answer.extracted

\* "Use a report_id from search_reports": a report that an earlier answer called
\* extracted has metrics, and a PDF to ask or to fetch, in every later request.
DrillDown ==
    (/\ known.kind = "extracted" /\ answer.op \in {"metrics", "ask", "pdf"}
     /\ answer.report = known.report) => answer.found

\* list_facets is there to find values for search_reports: a value it has listed
\* finds a report, now and later.
ListedIsFound ==
    (/\ known.kind = "facet" /\ answer.op = "search"
     /\ answer.args = [f \in {known.facet} |-> known.value]) => answer.rows # {}

AsksFor(ticker) ==
    /\ answer.op = "search" /\ DOMAIN answer.args = {"mentions_ticker"}
    /\ answer.args.mentions_ticker.word = ticker.word

FoundOrFull(r) ==
    \/ \E row \in answer.rows : row.report = r
    \/ Cardinality(answer.rows) = answer.limit

\* A ticker that an extraction names, with or without blanks and in any case, finds the
\* report through mentions_ticker when it is typed in any case without blanks, unless
\* newer reports fill the answer: the stored one is stripped and in upper case.  The
\* argument is not stripped: copied with the blanks that get_report_metrics shows, it
\* finds nothing, so this case is left out.
MentionFound ==
    (/\ known.kind = "mention" /\ answer.op = "search"
     /\ DOMAIN answer.args = {"mentions_ticker"}
     /\ answer.args.mentions_ticker.word = known.ticker.word
     /\ ~answer.args.mentions_ticker.padded)
    => \/ \E row \in answer.rows : row.report = known.report
       \/ Cardinality(answer.rows) = answer.limit

\* A client that reads list_reports to the last page has seen every report that
\* was there when it began, although new ones are inserted above its offset and
\* the pipeline works on the old ones.  Except for reports that tie with another
\* one, and for a filter on the status, which reports leave as they progress.
PagesComplete ==
    answer.op = "pages" /\ ~Given(answer.filter, "status") =>
        \A r \in answer.due :
            \/ r \in answer.seen
            \/ \E s \in Present \ {r} : /\ card[s].published = card[r].published
                                         /\ since[s] = since[r]
=============================================================================
