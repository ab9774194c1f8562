-------------------------- MODULE CatalogueProofs ---------------------------
(***************************************************************************)
(* What the catalogue promises to a client, for every set of reports,      *)
(* every answer of Gemini and every number of deployments.                 *)
(***************************************************************************)
EXTENDS Catalogue, FiniteSetTheorems, TLAPS

\* What makes the queries right: a report has an extraction if and only if it is
\* extracted, it has then only that one, and it has its PDF.
RowsInv ==
    /\ status \in [Reports -> Statuses]
    /\ keyed \subseteq Reports
    /\ version \in Nat
    /\ \A e \in extractions : /\ e.report \in Reports /\ e.version \in Nat
                              /\ status[e.report] = "extracted"
    /\ \A d, e \in extractions : d.report = e.report => d = e
    /\ \A r \in Reports : status[r] = "downloaded" => r \in keyed
    /\ \A r \in Reports : status[r] = "extracted" => r \in keyed /\ Of(r) # {}

\* r can be drilled into, from now on.
Drillable(r) == r \in Reports /\ r \in keyed /\ r \in Present /\ Of(r) # {}

\* What a client reads and is told of extracted reports stays true.
ClientInv ==
    /\ client.op = "detail" => /\ client.report \in Reports
                               /\ client.status = "extracted" => Drillable(client.report)
    /\ known.kind = "extracted" => Drillable(known.report)

AnswerInv ==
    /\ answer.op \in {"search", "stock"} =>
           \A row \in answer.rows : row.extracted => Drillable(row.report)
    /\ answer.op = "detail" /\ answer.extracted => Drillable(answer.report)
    /\ SearchedOnce
    /\ DetailCoherent
    /\ DrillDown

IInv == RowsInv /\ ClientInv /\ AnswerInv

-----------------------------------------------------------------------------
\* A request only reads.
LEMMA RequestKeeps == Requests => UNCHANGED catalogue
BY DEF Requests, Search, GetStockAnalysis, ListFacets, GetReportMetrics, AskReportPdf,
       GetReportPdf, ReadReport, ReadExtraction, StartPages, ListReports, Remember, Answers

\* The only extraction of a report is its latest one.
LEMMA LatestIsOnly ==
    ASSUME RowsInv, NEW r \in Reports
    PROVE  Latest(r) = Of(r)
BY DEF RowsInv, Latest, Of

\* A commit keeps the table coherent, and a report that can be drilled into stays so.
LEMMA CommitRows ==
    ASSUME RowsInv, Pipeline
    PROVE  /\ RowsInv'
           /\ \A r \in Reports : Drillable(r) => Drillable(r)'
<1>1. ASSUME NEW S \in SUBSET Reports, Discover(S)
      PROVE  RowsInv' /\ \A r \in Reports : Drillable(r) => Drillable(r)'
  BY <1>1 DEF RowsInv, Discover, Present, Statuses, Of, Drillable
<1>2. ASSUME NEW q \in Reports, Download(q)
      PROVE  RowsInv' /\ \A r \in Reports : Drillable(r) => Drillable(r)'
  BY <1>2 DEF RowsInv, Download, Present, Statuses, Of, Drillable
<1>3. ASSUME NEW q \in Reports, NEW s \in {"duplicate", "failed"}, Settle(q, s)
      PROVE  RowsInv' /\ \A r \in Reports : Drillable(r) => Drillable(r)'
  BY <1>3 DEF RowsInv, Settle, Present, Statuses, Of, Drillable
<1>4. ASSUME NEW q \in Reports, NEW p \in Payloads, Extract(q, p)
      PROVE  RowsInv' /\ \A r \in Reports : Drillable(r) => Drillable(r)'
  <2> DEFINE row == [report |-> q, version |-> version, raw |-> p,
                     facets |-> ExtractFacets(p, p.key, card[q].ticker)]
  <2>1. status[q] = "downloaded" /\ q \in keyed
    BY <1>4 DEF Extract, Claimable, RowsInv
  <2>2. \A e \in extractions : e.report # q
    BY <2>1 DEF RowsInv
  <2>3. extractions' = extractions \cup {row}
    BY <1>4, <2>2 DEF Extract
  <2>4. row.report = q /\ row.version \in Nat
    BY DEF RowsInv
  <2> HIDE DEF row
  <2>5. version' \in Nat
    BY <1>4 DEF Extract, RowsInv
  <2>6. status' = [status EXCEPT ![q] = "extracted"] /\ keyed' = keyed
    BY <1>4 DEF Extract
  <2>7. status' \in [Reports -> Statuses]
    BY <2>6 DEF RowsInv, Statuses
  <2>8. \A e \in extractions' : /\ e.report \in Reports /\ e.version \in Nat
                                /\ status'[e.report] = "extracted"
    BY <2>3, <2>4, <2>6 DEF RowsInv
  <2>9. \A d, e \in extractions' : d.report = e.report => d = e
    BY <2>2, <2>3, <2>4 DEF RowsInv
  <2>10. \A r \in Reports : Of(r) \subseteq Of(r)' /\ row \in Of(q)'
    BY <2>3, <2>4 DEF Of
  <2>11. \A r \in Reports : status'[r] = "extracted" => r \in keyed' /\ Of(r)' # {}
    BY <2>1, <2>6, <2>10 DEF RowsInv
  <2>12. \A r \in Reports : status'[r] = "downloaded" => r \in keyed'
    BY <2>6 DEF RowsInv
  <2>13. RowsInv'
    BY <2>5, <2>6, <2>7, <2>8, <2>9, <2>11, <2>12 DEF RowsInv
  <2>14. \A r \in Reports : Drillable(r) => Drillable(r)'
    BY <2>6, <2>10 DEF Drillable, Present, RowsInv
  <2> QED BY <2>13, <2>14
<1>5. CASE Deploy
  BY <1>5 DEF RowsInv, Deploy, Present, Of, Drillable
<1> QED BY <1>1, <1>2, <1>3, <1>4, <1>5 DEF Pipeline

\* A row that a query calls extracted is of a report that can be drilled into, and a
\* query shows a report once.
LEMMA QueryRows ==
    ASSUME RowsInv
    PROVE  /\ \A args : \A x, y \in SearchRows(args) : x.report = y.report => x = y
           /\ \A args : \A x \in SearchRows(args) : x.extracted => Drillable(x.report)
           /\ \A t : \A x, y \in StockRows(t) : x.report = y.report => x = y
           /\ \A t : \A x \in StockRows(t) : x.extracted => Drillable(x.report)
<1>1. \A e \in extractions : Drillable(e.report)
  BY DEF RowsInv, Drillable, Of, Present
<1>2. \A r \in Present : Flag(r) => Drillable(r)
  BY <1>1 DEF Flag, Of, Present
<1>3. ASSUME NEW args
      PROVE  \A x, y \in SearchRows(args) : x.report = y.report => x = y
  <2>1. CASE NeedsJoin(args)
    <3> SUFFICES ASSUME NEW x \in SearchRows(args), NEW y \in SearchRows(args),
                        x.report = y.report
                 PROVE  x = y
      OBVIOUS
    <3>1. PICK d \in extractions : x = Joined(d)
      BY <2>1 DEF SearchRows
    <3>2. PICK e \in extractions : y = Joined(e)
      BY <2>1 DEF SearchRows
    <3>3. d = e
      BY <3>1, <3>2 DEF RowsInv, Joined
    <3> QED BY <3>1, <3>2, <3>3
  <2>2. CASE ~NeedsJoin(args)
    BY <2>2 DEF SearchRows
  <2> QED BY <2>1, <2>2
<1>4. ASSUME NEW args
      PROVE  \A x \in SearchRows(args) : x.extracted => Drillable(x.report)
  <2>1. CASE NeedsJoin(args)
    BY <1>1, <2>1 DEF SearchRows, Joined
  <2>2. CASE ~NeedsJoin(args)
    BY <1>2, <2>2 DEF SearchRows
  <2> QED BY <2>1, <2>2
<1>5. ASSUME NEW t
      PROVE  /\ \A x, y \in StockRows(t) : x.report = y.report => x = y
             /\ \A x \in StockRows(t) : x.extracted => Drillable(x.report)
  <2>1. \A x \in StockRows(t) :
            \E e \in extractions : x = Joined(e)
    BY DEF StockRows
  <2>2. ASSUME NEW x \in StockRows(t), NEW y \in StockRows(t), x.report = y.report
        PROVE  x = y
    <3>1. PICK d \in extractions : x = Joined(d)
      BY <2>1
    <3>2. PICK e \in extractions : y = Joined(e)
      BY <2>1
    <3>3. d = e
      BY <2>2, <3>1, <3>2 DEF RowsInv, Joined
    <3> QED BY <3>1, <3>2, <3>3
  <2>3. \A x \in StockRows(t) : x.extracted => Drillable(x.report)
    BY <1>1, <2>1 DEF Joined
  <2> QED BY <2>2, <2>3
<1> QED BY <1>3, <1>4, <1>5

-----------------------------------------------------------------------------
LEMMA InitIInv ==
    ASSUME Init
    PROVE  IInv
<1>1. RowsInv
  BY DEF Init, RowsInv, Statuses, Of
<1>2. ClientInv /\ AnswerInv
  BY DEF Init, ClientInv, AnswerInv, Idle, NoAnswer, Nothing, SearchedOnce,
         DetailCoherent, DrillDown
<1> QED BY <1>1, <1>2 DEF IInv

\* No answer says nothing wrong.
LEMMA SilentAnswer ==
    ASSUME answer' = NoAnswer
    PROVE  AnswerInv'
BY DEF NoAnswer, AnswerInv, SearchedOnce, DetailCoherent, DrillDown

LEMMA CommitIInv ==
    ASSUME IInv, Pipeline
    PROVE  IInv'
<1>1. RowsInv' /\ \A r \in Reports : Drillable(r) => Drillable(r)'
  BY CommitRows DEF IInv
<1>2. answer' = NoAnswer /\ client' \in {client, Idle} /\ known' = known
  BY DEF Pipeline, Discover, Download, Settle, Extract, Deploy, Readers
<1>3. AnswerInv'
  BY <1>2, SilentAnswer
<1>4. ClientInv'
  BY <1>1, <1>2 DEF IInv, ClientInv, Idle, Drillable
<1> QED BY <1>1, <1>3, <1>4 DEF IInv

LEMMA RequestIInv ==
    ASSUME IInv, Requests
    PROVE  IInv'
<1>1. UNCHANGED catalogue
  BY RequestKeeps
<1>2. RowsInv' /\ \A r \in Reports : Drillable(r) = Drillable(r)'
  BY <1>1 DEF catalogue, IInv, RowsInv, Of, Drillable, Present
<1>3. ASSUME NEW a, Answers(a),
             a.op \in {"search", "stock"} =>
                 /\ \A row \in a.rows : row.extracted => Drillable(row.report)
                 /\ \A x, y \in a.rows : x.report = y.report => x = y,
             a.op # "detail",
             (a.op \in {"metrics", "ask", "pdf"} /\ Drillable(a.report)) => a.found
      PROVE  IInv'
  <2>1. answer' = a /\ client' = client /\ known' = known
    BY <1>3 DEF Answers
  <2>2. ClientInv'
    BY <1>2, <2>1 DEF IInv, ClientInv, Drillable
  <2>3. AnswerInv'
    <3>1. (answer.op \in {"search", "stock"} =>
               \A row \in answer.rows : row.extracted => Drillable(row.report))'
      BY <1>2, <1>3, <2>1 DEF Drillable
    <3>2. SearchedOnce'
      BY <1>3, <2>1 DEF SearchedOnce
    <3>3. DetailCoherent' /\ (answer.op = "detail" /\ answer.extracted
                                  => Drillable(answer.report))'
      BY <1>3, <2>1 DEF DetailCoherent
    <3>4. DrillDown'
      BY <1>3, <2>1 DEF IInv, ClientInv, DrillDown
    <3> QED BY <3>1, <3>2, <3>3, <3>4 DEF AnswerInv
  <2> QED BY <1>2, <2>2, <2>3 DEF IInv
<1>4. ASSUME NEW args, NEW limit, Search(args, limit)
      PROVE  IInv'
  <2>1. PICK rows \in First(SearchRows(args), limit, NewestRows(SearchRows(args))) :
            Answers([op |-> "search", args |-> args, limit |-> limit, rows |-> rows])
    BY <1>4 DEF Search
  <2>2. rows \subseteq SearchRows(args)
    BY DEF First
  <2>3. /\ \A row \in rows : row.extracted => Drillable(row.report)
        /\ \A x, y \in rows : x.report = y.report => x = y
    BY <2>2, QueryRows DEF IInv
  <2> DEFINE a == [op |-> "search", args |-> args, limit |-> limit, rows |-> rows]
  <2>4. a.op = "search" /\ a.rows = rows /\ Answers(a)
    BY <2>1
  <2> HIDE DEF a
  <2> QED BY <1>3, <2>3, <2>4
<1>5. ASSUME NEW ticker, NEW limit, GetStockAnalysis(ticker, limit)
      PROVE  IInv'
  <2>1. PICK rows \in First(StockRows(ticker), limit, LaterAnalysis(StockRows(ticker))) :
            Answers([op |-> "stock", rows |-> rows])
    BY <1>5 DEF GetStockAnalysis
  <2>2. rows \subseteq StockRows(ticker)
    BY DEF First
  <2>3. /\ \A row \in rows : row.extracted => Drillable(row.report)
        /\ \A x, y \in rows : x.report = y.report => x = y
    BY <2>2, QueryRows DEF IInv
  <2> DEFINE a == [op |-> "stock", rows |-> rows]
  <2>4. a.op = "stock" /\ a.rows = rows /\ Answers(a)
    BY <2>1
  <2> HIDE DEF a
  <2> QED BY <1>3, <2>3, <2>4
<1>6. ASSUME NEW facet, ListFacets(facet)
      PROVE  IInv'
  <2>1. PICK values : Answers([op |-> "facets", facet |-> facet, values |-> values])
    BY <1>6 DEF ListFacets
  <2> QED BY <1>3, <2>1
<1>7. ASSUME NEW r \in Reports, GetReportMetrics(r)
      PROVE  IInv'
  <2>1. Drillable(r) => Latest(r) # {}
    BY LatestIsOnly DEF IInv, Drillable
  <2> QED BY <1>3, <1>7, <2>1 DEF GetReportMetrics
<1>8. ASSUME NEW r \in Reports, AskReportPdf(r)
      PROVE  IInv'
  <2>1. PICK answered : Answers([op |-> "ask", report |-> r,
                                 found |-> r \in Present /\ r \in keyed,
                                 answered |-> answered])
    BY <1>8 DEF AskReportPdf
  <2>2. Drillable(r) => r \in Present /\ r \in keyed
    BY DEF Drillable
  <2> QED BY <1>3, <2>1, <2>2
<1>9. ASSUME NEW r \in Reports, GetReportPdf(r)
      PROVE  IInv'
  <2>1. Drillable(r) => r \in Present /\ r \in keyed
    BY DEF Drillable
  <2> QED BY <1>3, <1>9, <2>1 DEF GetReportPdf
<1>10. ASSUME NEW r \in Reports, ReadReport(r)
       PROVE  IInv'
  <2>1. known' = known
    BY <1>10 DEF ReadReport
  <2>2. CASE r \in Present
    <3>1. client' = [op |-> "detail", report |-> r, status |-> status[r]]
      BY <1>10, <2>2 DEF ReadReport
    <3>2. status[r] = "extracted" => Drillable(r)
      BY <2>2 DEF IInv, RowsInv, Drillable
    <3>3. ClientInv'
      BY <1>2, <2>1, <3>1, <3>2 DEF IInv, ClientInv, Drillable
    <3>4. AnswerInv'
      BY <1>10, <2>2, SilentAnswer DEF ReadReport
    <3> QED BY <1>2, <3>3, <3>4 DEF IInv
  <2>3. CASE r \notin Present
    <3>1. client' = Idle /\ answer' = [op |-> "detail", report |-> r, status |-> "absent",
                                      extracted |-> FALSE]
      BY <1>10, <2>3 DEF ReadReport
    <3>2. ClientInv'
      BY <1>2, <2>1, <3>1 DEF IInv, ClientInv, Idle, Drillable
    <3>3. AnswerInv'
      BY <3>1 DEF AnswerInv, SearchedOnce, DetailCoherent, DrillDown
    <3> QED BY <1>2, <3>2, <3>3 DEF IInv
  <2> QED BY <2>2, <2>3
<1>11. CASE ReadExtraction
  <2>1. /\ client.op = "detail" /\ client' = Idle /\ known' = known
        /\ answer' = [op |-> "detail", report |-> client.report,
                      status |-> client.status, extracted |-> Latest(client.report) # {}]
    BY <1>11 DEF ReadExtraction
  <2>2. client.report \in Reports /\ (client.status = "extracted" => Drillable(client.report))
    BY <2>1 DEF IInv, ClientInv
  <2>3. Latest(client.report) = Of(client.report)
    BY <2>2, LatestIsOnly DEF IInv
  <2>4. Of(client.report) # {} => Drillable(client.report)
    BY <2>2 DEF IInv, RowsInv, Of, Drillable, Present
  <2>5. ClientInv'
    BY <1>2, <2>1 DEF IInv, ClientInv, Idle, Drillable
  <2>6. AnswerInv'
    <3>1. (answer.op = "detail" /\ answer.extracted => Drillable(answer.report))'
      BY <1>2, <2>1, <2>2, <2>3, <2>4
    <3>2. DetailCoherent'
      BY <2>1, <2>2, <2>3 DEF DetailCoherent, Drillable
    <3> QED BY <2>1, <3>1, <3>2 DEF AnswerInv, SearchedOnce, DrillDown
  <2> QED BY <1>2, <2>5, <2>6 DEF IInv
<1>12. ASSUME NEW filter, NEW limit, StartPages(filter, limit)
       PROVE  IInv'
  <2>1. ClientInv'
    BY <1>2, <1>12 DEF StartPages, Paging, IInv, ClientInv, Drillable
  <2>2. AnswerInv'
    BY <1>12, SilentAnswer DEF StartPages
  <2> QED BY <1>2, <2>1, <2>2 DEF IInv
<1>13. CASE ListReports
  <2>1. PICK page :
            LET seen == client.seen \cup page
            IN \/ /\ client' = Paging(client.filter, client.limit,
                                      client.offset + client.limit, client.due, seen)
                  /\ answer' = NoAnswer
               \/ /\ client' = Idle
                  /\ answer' = [op |-> "pages", filter |-> client.filter,
                                due |-> client.due, seen |-> seen]
    BY <1>13 DEF ListReports
  <2>2. known' = known /\ client.op = "pages"
    BY <1>13 DEF ListReports
  <2>3. client'.op # "detail"
    BY <2>1 DEF Idle, Paging
  <2>4. ClientInv'
    BY <1>2, <2>2, <2>3 DEF IInv, ClientInv, Drillable
  <2>5. AnswerInv'
    BY <2>1 DEF NoAnswer, AnswerInv, SearchedOnce, DetailCoherent, DrillDown
  <2> QED BY <1>2, <2>4, <2>5 DEF IInv
<1>14. CASE Remember
  <2>1. known' \in Told(answer) /\ client' = client
    BY <1>14 DEF Remember
  <2>2. ASSUME known'.kind = "extracted"
        PROVE  Drillable(known'.report)
    <3>1. CASE answer.op \in {"search", "stock"}
      BY <2>1, <3>1 DEF Told, IInv, AnswerInv
    <3>2. CASE answer.op = "detail"
      BY <2>1, <3>2 DEF Told, IInv, AnswerInv
    <3>3. CASE answer.op = "metrics"
      BY <2>1, <2>2, <3>3 DEF Told
    <3>4. CASE answer.op = "facets"
      BY <2>1, <2>2, <3>4 DEF Told
    <3>5. CASE answer.op \notin {"search", "stock", "detail", "metrics", "facets"}
      BY <2>1, <3>5 DEF Told
    <3> QED BY <3>1, <3>2, <3>3, <3>4, <3>5
  <2>3. ClientInv'
    BY <1>2, <2>1, <2>2 DEF IInv, ClientInv, Drillable
  <2>4. AnswerInv'
    BY <1>14, SilentAnswer DEF Remember
  <2> QED BY <1>2, <2>3, <2>4 DEF IInv
<1> QED
  BY <1>4, <1>5, <1>6, <1>7, <1>8, <1>9, <1>10, <1>11, <1>12, <1>13, <1>14 DEF Requests

-----------------------------------------------------------------------------
THEOREM Invariance == Spec => []IInv
<1>1. Init => IInv
  BY InitIInv
<1>2. IInv /\ [Next]_vars => IInv'
  <2> SUFFICES ASSUME IInv, [Next]_vars PROVE IInv'
    OBVIOUS
  <2>1. CASE UNCHANGED vars
    BY <2>1 DEF IInv, vars, catalogue, RowsInv, Of, Drillable, Present, ClientInv, AnswerInv,
                SearchedOnce, DetailCoherent, DrillDown
  <2> QED BY <2>1, CommitIInv, RequestIInv DEF Next
<1> QED BY <1>1, <1>2, PTL DEF Spec

\* A search and an analysis show a report once, although they join it with its
\* extractions.
THEOREM Once == Spec => []SearchedOnce
<1>1. IInv => SearchedOnce
  BY DEF IInv, AnswerInv
<1> QED BY <1>1, Invariance, PTL

\* The two statements of get_report never show an extracted report without its
\* extraction.
THEOREM Detail == Spec => []DetailCoherent
<1>1. IInv => DetailCoherent
  BY DEF IInv, AnswerInv
<1> QED BY <1>1, Invariance, PTL

\* What an answer called extracted has metrics and a PDF in every later request.
THEOREM Drilling == Spec => []DrillDown
<1>1. IInv => DrillDown
  BY DEF IInv, AnswerInv
<1> QED BY <1>1, Invariance, PTL

-----------------------------------------------------------------------------
\* The columns that are compared for equality are stored in their normal form,
\* whatever white space and case Gemini answers in.
LEMMA FacetsNormal ==
    ASSUME NEW p \in Payloads, NEW key, NEW ticker, ticker = Nil \/ Spelled(ticker)
    PROVE  LET facets == ExtractFacets(p, key, ticker)
           IN /\ facets.industry_name = Nil \/ Spelled(facets.industry_name)
              /\ facets.outlook \in Outlooks \cup {Nil}
              /\ \A t \in facets.mentioned : Spelled(t) /\ t.case = "upper"
<1>1. ASSUME NEW v \in Texts \cup {Nil}
      PROVE  CanonicalizeIndustry(v) = Nil \/ Spelled(CanonicalizeIndustry(v))
  <2>1. CASE v = Nil \/ v.word = Blank
    BY <2>1 DEF CanonicalizeIndustry
  <2>2. CASE v \in Texts /\ v.word # Blank /\ v # Nil /\ v.word \in DOMAIN Aliases
    BY <2>2, AliasesAssumption, WordsAssumption
       DEF CanonicalizeIndustry, Label, Spelled, Texts, Cases
  <2>3. CASE v \in Texts /\ v.word # Blank /\ v # Nil /\ v.word \notin DOMAIN Aliases
    BY <2>3 DEF CanonicalizeIndustry, Strip, Spelled, Texts
  <2> QED BY <2>1, <2>2, <2>3
<1>2. \A t \in Named(p, key, ticker) : t \in Texts
  BY PayloadsAssumption DEF Named, Spelled
<1>3. ASSUME NEW t \in Texts, t.word # Blank
      PROVE  Spelled(Upper(Strip(t))) /\ Upper(Strip(t)).case = "upper"
  BY <1>3 DEF Upper, Strip, Spelled, Texts, Cases
<1>4. \A t \in Mentioned(p, key, ticker) : Spelled(t) /\ t.case = "upper"
  BY <1>2, <1>3 DEF Mentioned
<1>5. p.industry \in Texts \cup {Nil} /\ p.outlook \in Outlooks \cup {Nil}
  BY PayloadsAssumption
<1>6. /\ ExtractFacets(p, key, ticker).industry_name \in {CanonicalizeIndustry(p.industry), Nil}
      /\ ExtractFacets(p, key, ticker).outlook \in {p.outlook, Nil}
      /\ ExtractFacets(p, key, ticker).mentioned = Mentioned(p, key, ticker)
  BY DEF ExtractFacets
<1> QED BY <1>1, <1>4, <1>5, <1>6

LEMMA CommitType ==
    ASSUME TypeOK, Pipeline
    PROVE  TypeOK'
<1>1. ASSUME NEW S \in SUBSET Reports, Discover(S)
      PROVE  TypeOK'
  <2>1. Cardinality(Reports) \in Nat
    BY ReportsAssumption, FS_CardinalityType
  <2>2. PICK now \in 1..Cardinality(Reports) :
            since' = [r \in Reports |-> IF r \in S THEN now ELSE since[r]]
    BY <1>1 DEF Discover
  <2>3. status' \in [Reports -> Statuses] /\ since' \in [Reports -> Nat]
    BY <1>1, <2>1, <2>2 DEF Discover, TypeOK, Statuses
  <2> QED BY <1>1, <2>3 DEF Discover, Readers, TypeOK, NoAnswer
<1>2. ASSUME NEW r \in Reports, Download(r)
      PROVE  TypeOK'
  BY <1>2 DEF Download, Readers, TypeOK, NoAnswer, Statuses
<1>3. ASSUME NEW r \in Reports, NEW s \in {"duplicate", "failed"}, Settle(r, s)
      PROVE  TypeOK'
  BY <1>3 DEF Settle, Readers, TypeOK, NoAnswer, Statuses
<1>4. ASSUME NEW r \in Reports, NEW p \in Payloads, Extract(r, p)
      PROVE  TypeOK'
  <2> DEFINE row == [report |-> r, version |-> version, raw |-> p,
                     facets |-> ExtractFacets(p, p.key, card[r].ticker)]
  <2>1. card[r].ticker = Nil \/ Spelled(card[r].ticker)
    BY CardsAssumption DEF TypeOK
  <2>2. /\ row.report \in Reports /\ row.version \in Nat /\ row.raw \in Payloads
    BY DEF TypeOK
  <2>3. /\ row.facets.industry_name = Nil \/ Spelled(row.facets.industry_name)
        /\ row.facets.outlook \in Outlooks \cup {Nil}
        /\ \A t \in row.facets.mentioned : Spelled(t) /\ t.case = "upper"
    BY <2>1, FacetsNormal
  <2>4. extractions' \subseteq extractions \cup {row}
    BY <1>4 DEF Extract
  <2> HIDE DEF row
  <2>5. status' \in [Reports -> Statuses]
    BY <1>4 DEF Extract, TypeOK, Statuses
  <2> QED BY <1>4, <2>2, <2>3, <2>4, <2>5 DEF Extract, Readers, TypeOK, NoAnswer
<1>5. CASE Deploy
  BY <1>5 DEF Deploy, TypeOK, NoAnswer, Idle
<1> QED BY <1>1, <1>2, <1>3, <1>4, <1>5 DEF Pipeline

LEMMA RequestType ==
    ASSUME TypeOK, Requests
    PROVE  TypeOK'
<1>1. UNCHANGED catalogue
  BY RequestKeeps
<1> DEFINE Typed == /\ client'.op \in {"idle", "detail", "pages"}
                    /\ answer'.op \in {"none", "search", "stock", "facets", "metrics",
                                       "ask", "pdf", "detail", "pages"}
                    /\ known' = known \/ known' \in Told(answer)
<1>2. Typed
  <2>1. ASSUME NEW args, NEW limit, Search(args, limit)
        PROVE  Typed
    BY <2>1 DEF Search, Answers, Idle
  <2>2. ASSUME NEW ticker, NEW limit, GetStockAnalysis(ticker, limit)
        PROVE  Typed
    BY <2>2 DEF GetStockAnalysis, Answers, Idle
  <2>3. ASSUME NEW facet, ListFacets(facet)
        PROVE  Typed
    BY <2>3 DEF ListFacets, Answers, Idle
  <2>4. ASSUME NEW r, GetReportMetrics(r) \/ AskReportPdf(r) \/ GetReportPdf(r)
        PROVE  Typed
    <3>1. CASE GetReportMetrics(r)
      BY <3>1 DEF GetReportMetrics, Answers, Idle
    <3>2. CASE AskReportPdf(r)
      BY <3>2 DEF AskReportPdf, Answers, Idle
    <3>3. CASE GetReportPdf(r)
      BY <3>3 DEF GetReportPdf, Answers, Idle
    <3> QED BY <2>4, <3>1, <3>2, <3>3
  <2>5. ASSUME NEW r, ReadReport(r)
        PROVE  Typed
    BY <2>5 DEF ReadReport, Idle, NoAnswer
  <2>6. CASE ReadExtraction
    BY <2>6 DEF ReadExtraction, Idle
  <2>7. ASSUME NEW filter, NEW limit, StartPages(filter, limit)
        PROVE  Typed
    BY <2>7 DEF StartPages, Paging, NoAnswer
  <2>8. CASE ListReports
    BY <2>8 DEF ListReports, Paging, Idle, NoAnswer
  <2>9. CASE Remember
    BY <2>9 DEF Remember, TypeOK, NoAnswer
  <2> QED BY <2>1, <2>2, <2>3, <2>4, <2>5, <2>6, <2>7, <2>8, <2>9 DEF Requests
<1>3. \A k \in Told(answer) : k.kind \in {"extracted", "facet", "mention"}
  BY DEF Told
<1> QED BY <1>1, <1>2, <1>3 DEF TypeOK, catalogue

\* Every variable keeps its type, and the facets their normal form.
THEOREM TypeCorrectness == Spec => []TypeOK
<1>1. Init => TypeOK
  BY DEF Init, TypeOK, Statuses, Idle, NoAnswer, Nothing
<1>2. TypeOK /\ [Next]_vars => TypeOK'
  <2> SUFFICES ASSUME TypeOK, [Next]_vars PROVE TypeOK'
    OBVIOUS
  <2>1. CASE UNCHANGED vars
    BY <2>1 DEF TypeOK, vars, catalogue
  <2> QED BY <2>1, CommitType, RequestType DEF Next
<1> QED BY <1>1, <1>2, PTL DEF Spec

-----------------------------------------------------------------------------
(* What a client was told of the facets finds a report *)

\* v is the value of facet f in some extraction.
Stored(f, v) == f \in FacetNames /\ v # Nil /\ \E e \in extractions : e.facets[f] = v

\* The extraction of r names t.
Names(r, t) ==
    /\ t \in Texts /\ t.word # Blank
    /\ \E e \in extractions : e.report = r /\ Upper(Strip(t)) \in e.facets.mentioned

\* The facets are made from the answer that is shown as extras.
FacetsInv ==
    /\ IsFiniteSet(extractions)
    /\ \A e \in extractions :
           /\ e.facets.mentioned = Mentioned(e.raw, e.raw.key, card[e.report].ticker)
           /\ \/ e.facets.recommendation = Nil
              \/ Upper(e.facets.recommendation) = e.facets.recommendation

ToldInv ==
    /\ known.kind = "facet" => Stored(known.facet, known.value)
    /\ known.kind = "mention" => Names(known.report, known.ticker)
    /\ answer.op = "facets" => \A v \in answer.values : Stored(answer.facet, v)
    /\ answer.op = "metrics" =>
           \A t \in answer.named : t.word # Blank => Names(answer.report, t)

FoundInv == TypeOK /\ FacetsInv /\ ToldInv /\ ListedIsFound /\ MentionFound

\* The answer of a limited query is empty only if its result is, and leaves a row
\* out only if it is full.
LEMMA FirstRows ==
    ASSUME NEW rows, IsFiniteSet(rows), NEW n \in Nat \ {0}, NEW order,
           NEW S \in First(rows, n, order)
    PROVE  /\ S \subseteq rows
           /\ rows # {} => S # {}
           /\ \A x \in rows : x \in S \/ Cardinality(S) = n
<1>1. S \in SUBSET rows
      /\ Cardinality(S) = IF Cardinality(rows) < n THEN Cardinality(rows) ELSE n
  BY DEF First
<1>2. IsFiniteSet(S) /\ (Cardinality(rows) = Cardinality(S) => rows = S)
  BY <1>1, FS_Subset
<1>3. Cardinality(rows) \in Nat /\ Cardinality(S) \in Nat
  BY <1>2, FS_CardinalityType
<1>4. rows # {} => Cardinality(rows) # 0
  BY FS_EmptySet
<1>5. S = {} => Cardinality(S) = 0
  BY FS_EmptySet
<1> QED BY <1>1, <1>2, <1>3, <1>4, <1>5

\* A search that joins the extractions has finitely many rows.
LEMMA SearchRowsFinite ==
    ASSUME IsFiniteSet(extractions), NEW args, NeedsJoin(args)
    PROVE  IsFiniteSet(SearchRows(args))
<1> DEFINE some == {e \in extractions : /\ ReportMatches(args, e.report)
                                        /\ FacetsMatch(args, e.facets)}
           f == [e \in some |-> Joined(e)]
<1>1. IsFiniteSet(some)
  BY FS_Subset
<1>2. SearchRows(args) = {Joined(e) : e \in some}
  BY DEF SearchRows
<1>3. f \in Surjection(some, SearchRows(args))
  BY <1>2 DEF Surjection
<1> QED BY <1>1, <1>3, FS_Surjection

\* A search for one value of one facet finds the extraction that has it.
LEMMA FacetFinds ==
    ASSUME FacetsInv, NEW f, NEW v, Stored(f, v)
    PROVE  /\ NeedsJoin([x \in {f} |-> v])
           /\ SearchRows([x \in {f} |-> v]) # {}
<1> DEFINE args == [x \in {f} |-> v]
<1>1. DOMAIN args = {f} /\ args[f] = v /\ f \in FacetNames /\ v # Nil
  BY DEF Stored
<1>2. PICK e \in extractions : e.facets[f] = v
  BY DEF Stored
<1> HIDE DEF args
<1>3. NeedsJoin(args)
  BY <1>1 DEF NeedsJoin, OfExtraction, FacetNames
<1>4. ReportMatches(args, e.report)
  BY <1>1 DEF ReportMatches, Filters, Given, FacetNames
<1>5. FacetsMatch(args, e.facets)
  <2>1. CASE f = "industry_name"
    BY <1>1, <1>2, <2>1 DEF FacetsMatch, Filters, Given, ILike
  <2>2. CASE f = "topic"
    BY <1>1, <1>2, <2>2 DEF FacetsMatch, Filters, Given, ILike
  <2>3. CASE f = "outlook"
    BY <1>1, <1>2, <2>3 DEF FacetsMatch, Filters, Given
  <2>4. CASE f = "recommendation"
    BY <1>1, <1>2, <2>4 DEF FacetsMatch, Filters, Given, FacetsInv
  <2> QED BY <1>1, <2>1, <2>2, <2>3, <2>4 DEF FacetNames
<1>6. Joined(e) \in SearchRows(args)
  BY <1>3, <1>4, <1>5 DEF SearchRows
<1> QED BY <1>3, <1>6 DEF args

\* A search for a ticker in any case finds the extraction that names it.
LEMMA MentionFinds ==
    ASSUME NEW r, NEW t, Names(r, t), NEW args, DOMAIN args = {"mentions_ticker"},
           args.mentions_ticker \in Texts, args.mentions_ticker.word = t.word,
           ~args.mentions_ticker.padded
    PROVE  /\ NeedsJoin(args)
           /\ \E row \in SearchRows(args) : row.report = r
<1>1. PICK e \in extractions : e.report = r /\ Upper(Strip(t)) \in e.facets.mentioned
  BY DEF Names
<1>2. NeedsJoin(args)
  BY DEF NeedsJoin, OfExtraction
<1>3. Upper(args.mentions_ticker) = Upper(Strip(t))
  BY DEF Names, Upper, Strip, Texts
<1>4. ReportMatches(args, e.report)
  BY DEF ReportMatches, Filters, Given
<1>5. FacetsMatch(args, e.facets)
  BY <1>1, <1>3 DEF FacetsMatch, Filters, Given
<1>6. Joined(e) \in SearchRows(args) /\ Joined(e).report = r
  BY <1>1, <1>2, <1>4, <1>5 DEF SearchRows, Joined
<1> QED BY <1>2, <1>6

\* No answer finds nothing in vain.
LEMMA SilentFound ==
    ASSUME answer' = NoAnswer
    PROVE  /\ ListedIsFound' /\ MentionFound'
           /\ answer'.op \notin {"facets", "metrics"}
BY DEF NoAnswer, ListedIsFound, MentionFound

\* A new row of report_extractions.
LEMMA ExtractFacetsInv ==
    ASSUME TypeOK, FacetsInv, NEW r \in Reports, NEW p \in Payloads, Extract(r, p)
    PROVE  FacetsInv' /\ extractions \subseteq extractions'
<1> DEFINE row == [report |-> r, version |-> version, raw |-> p,
                   facets |-> ExtractFacets(p, p.key, card[r].ticker)]
<1>1. extractions' \in {extractions, extractions \cup {row}} /\ card' = card
      /\ p.key = SchemaKey(card[r].type)
  BY DEF Extract
<1>2. IsFiniteSet(extractions')
  BY <1>1, FS_AddElement DEF FacetsInv
<1>3. row.facets.mentioned = Mentioned(row.raw, row.raw.key, card[row.report].ticker)
  BY DEF ExtractFacets
<1>4. row.facets.recommendation \in {p.recommendation, Nil}
  BY DEF ExtractFacets
<1>5. p.recommendation = Nil \/ Upper(p.recommendation) = p.recommendation
  BY PayloadsAssumption DEF Upper, Texts, Cases
<1>6. row.facets.recommendation = Nil
      \/ Upper(row.facets.recommendation) = row.facets.recommendation
  BY <1>4, <1>5
<1> HIDE DEF row
<1> QED BY <1>1, <1>2, <1>3, <1>6 DEF FacetsInv

LEMMA CommitFound ==
    ASSUME FoundInv, Pipeline
    PROVE  FoundInv'
<1>1. TypeOK'
  BY CommitType DEF FoundInv
<1>2. FacetsInv' /\ extractions \subseteq extractions'
  <2>1. CASE \E r \in Reports, p \in Payloads : Extract(r, p)
    BY <2>1, ExtractFacetsInv DEF FoundInv
  <2>2. CASE ~\E r \in Reports, p \in Payloads : Extract(r, p)
    <3>1. extractions' = extractions /\ card' = card
      BY <2>2 DEF Pipeline, Discover, Download, Settle, Deploy
    <3> QED BY <3>1 DEF FoundInv, FacetsInv
  <2> QED BY <2>1, <2>2
<1>3. answer' = NoAnswer /\ known' = known
  BY DEF Pipeline, Discover, Download, Settle, Extract, Deploy, Readers
<1>4. \A f, v : Stored(f, v) => Stored(f, v)'
  BY <1>2 DEF Stored
<1>5. \A r, t : Names(r, t) => Names(r, t)'
  BY <1>2 DEF Names
<1>6. known'.kind = "facet" => Stored(known.facet, known.value)'
  BY <1>3, <1>4 DEF FoundInv, ToldInv
<1>7. known'.kind = "mention" => Names(known.report, known.ticker)'
  BY <1>3, <1>5 DEF FoundInv, ToldInv
<1>8. ToldInv'
  BY <1>3, <1>6, <1>7, SilentFound DEF ToldInv
<1> QED BY <1>1, <1>2, <1>3, <1>8, SilentFound DEF FoundInv

\* Only an answer and what is known can change when nothing is committed.
LEMMA UnchangedFound ==
    ASSUME UNCHANGED <<card, extractions>>
    PROVE  /\ FacetsInv => FacetsInv'
           /\ \A f, v : Stored(f, v)' <=> Stored(f, v)
           /\ \A r, t : Names(r, t)' <=> Names(r, t)
BY DEF FacetsInv, Stored, Names

LEMMA SearchFound ==
    ASSUME FoundInv, NEW args \in Queries \cup Suggested, NEW limit \in Limits,
           Search(args, limit)
    PROVE  ListedIsFound' /\ MentionFound'
<1>1. PICK rows \in First(SearchRows(args), limit, NewestRows(SearchRows(args))) :
          Answers([op |-> "search", args |-> args, limit |-> limit, rows |-> rows])
  BY DEF Search
<1>2. known' = known /\ answer' = [op |-> "search", args |-> args, limit |-> limit,
                                   rows |-> rows]
  BY <1>1 DEF Answers
<1>3. limit \in Nat \ {0}
  BY LimitAssumption
<1>4. NeedsJoin(args) => /\ SearchRows(args) # {} => rows # {}
                         /\ \A x \in SearchRows(args) : x \in rows \/ Cardinality(rows) = limit
  BY <1>3, FirstRows, SearchRowsFinite DEF FoundInv, FacetsInv
<1>5. ListedIsFound'
  <2> SUFFICES ASSUME known.kind = "facet", args = [f \in {known.facet} |-> known.value]
               PROVE  rows # {}
    BY <1>2 DEF ListedIsFound
  <2>1. Stored(known.facet, known.value)
    BY DEF FoundInv, ToldInv
  <2> QED BY <1>4, <2>1, FacetFinds DEF FoundInv
<1>6. MentionFound'
  <2> SUFFICES ASSUME known.kind = "mention", DOMAIN args = {"mentions_ticker"},
                      args.mentions_ticker.word = known.ticker.word,
                      ~args.mentions_ticker.padded
               PROVE  (\E row \in rows : row.report = known.report)
                      \/ Cardinality(rows) = limit
    BY <1>2 DEF MentionFound
  <2>1. Names(known.report, known.ticker)
    BY DEF FoundInv, ToldInv
  <2>2. args.mentions_ticker \in Texts
    <3>1. CASE args \in Queries
      BY <3>1, QueriesAssumption
    <3>2. CASE args \in Suggested
      <4>1. PICK t \in Spellings(known.ticker) : args = [mentions_ticker |-> t]
        BY <3>2 DEF Suggested
      <4>2. PICK u \in {known.ticker, Strip(known.ticker)}, c \in Cases :
                t = [u EXCEPT !.case = c]
        BY <4>1 DEF Spellings
      <4>3. u \in Texts
        BY <2>1, <4>2 DEF Names, Texts, Strip
      <4> QED BY <4>1, <4>2, <4>3 DEF Texts
    <3> QED BY <3>1, <3>2
  <2>3. NeedsJoin(args) /\ \E row \in SearchRows(args) : row.report = known.report
    BY <2>1, <2>2, MentionFinds
  <2> QED BY <1>4, <2>3
<1> QED BY <1>5, <1>6

\* What get_report_metrics shows of an extraction is what its facets were made from.
LEMMA NamedMeansNames ==
    ASSUME TypeOK, FacetsInv, NEW r, NEW e \in extractions, e.report = r,
           NEW t \in NamedIn(e), t.word # Blank
    PROVE  Names(r, t)
<1>1. e.raw \in Payloads /\ e.report \in Reports /\ card \in Cards
  BY DEF TypeOK
<1>2. card[e.report].ticker = Nil \/ Spelled(card[e.report].ticker)
  BY <1>1, CardsAssumption
<1>3. t \in Texts
  BY <1>1, <1>2, PayloadsAssumption DEF NamedIn, Named, Spelled
<1>4. Upper(Strip(t)) \in e.facets.mentioned
  BY DEF FacetsInv, Mentioned, NamedIn
<1> QED BY <1>3, <1>4 DEF Names

LEMMA RequestFound ==
    ASSUME FoundInv, Requests
    PROVE  FoundInv'
<1>1. UNCHANGED catalogue
  BY RequestKeeps
<1>2. /\ TypeOK' /\ FacetsInv'
      /\ \A f, v : Stored(f, v)' <=> Stored(f, v)
      /\ \A r, t : Names(r, t)' <=> Names(r, t)
  BY <1>1, RequestType, UnchangedFound DEF catalogue, FoundInv
<1>3. ASSUME known' = known,
             answer'.op = "facets" => \A v \in answer'.values : Stored(answer'.facet, v),
             answer'.op = "metrics" =>
                 \A t \in answer'.named : t.word # Blank => Names(answer'.report, t),
             ListedIsFound' /\ MentionFound'
      PROVE  FoundInv'
  BY <1>2, <1>3 DEF FoundInv, ToldInv
<1>4. ASSUME known' = known, answer'.op \notin {"facets", "metrics", "search"}
      PROVE  FoundInv'
  BY <1>3, <1>4 DEF ListedIsFound, MentionFound
<1>5. ASSUME NEW args \in Queries \cup Suggested, NEW limit \in Limits, Search(args, limit)
      PROVE  FoundInv'
  <2>1. known' = known /\ answer'.op = "search"
    BY <1>5 DEF Search, Answers
  <2> QED BY <1>3, <1>5, <2>1, SearchFound
<1>6. ASSUME NEW ticker, NEW limit, GetStockAnalysis(ticker, limit)
      PROVE  FoundInv'
  <2>1. known' = known /\ answer'.op = "stock"
    BY <1>6 DEF GetStockAnalysis, Answers
  <2> QED BY <1>4, <2>1
<1>7. ASSUME NEW f \in FacetNames, ListFacets(f)
      PROVE  FoundInv'
  <2>1. PICK values \in SUBSET ({e.facets[f] : e \in extractions} \ {Nil}) :
            Answers([op |-> "facets", facet |-> f, values |-> values])
    BY <1>7 DEF ListFacets
  <2>2. known' = known /\ answer' = [op |-> "facets", facet |-> f, values |-> values]
    BY <2>1 DEF Answers
  <2>3. \A v \in values : Stored(f, v)
    BY DEF Stored
  <2>4. ListedIsFound' /\ MentionFound'
    BY <2>2 DEF ListedIsFound, MentionFound
  <2> QED BY <1>3, <2>2, <2>3, <2>4
<1>8. ASSUME NEW r \in Reports, GetReportMetrics(r)
      PROVE  FoundInv'
  <2>1. /\ known' = known
        /\ answer'.op = "metrics" /\ answer'.report = r
        /\ answer'.named = UNION {NamedIn(e) : e \in Latest(r)}
    BY <1>8 DEF GetReportMetrics, Answers
  <2>2. \A t \in answer'.named : t.word # Blank => Names(r, t)
    <3> SUFFICES ASSUME NEW t \in answer'.named, t.word # Blank
                 PROVE  Names(r, t)
      OBVIOUS
    <3>1. PICK e \in Latest(r) : t \in NamedIn(e)
      BY <2>1
    <3>2. e \in extractions /\ e.report = r
      BY DEF Latest, Of
    <3> QED BY <3>1, <3>2, NamedMeansNames DEF FoundInv
  <2>3. ListedIsFound' /\ MentionFound'
    BY <2>1 DEF ListedIsFound, MentionFound
  <2> QED BY <1>3, <2>1, <2>2, <2>3
<1>9. ASSUME NEW r, AskReportPdf(r) \/ GetReportPdf(r)
      PROVE  FoundInv'
  <2>1. CASE AskReportPdf(r)
    <3>1. known' = known /\ answer'.op = "ask"
      BY <2>1 DEF AskReportPdf, Answers
    <3> QED BY <1>4, <3>1
  <2>2. CASE GetReportPdf(r)
    <3>1. known' = known /\ answer'.op = "pdf"
      BY <2>2 DEF GetReportPdf, Answers
    <3> QED BY <1>4, <3>1
  <2> QED BY <1>9, <2>1, <2>2
<1>10. ASSUME NEW r, ReadReport(r)
       PROVE  FoundInv'
  <2>1. known' = known /\ answer'.op \in {"none", "detail"}
    BY <1>10 DEF ReadReport, NoAnswer
  <2> QED BY <1>4, <2>1
<1>11. CASE ReadExtraction
  <2>1. known' = known /\ answer'.op = "detail"
    BY <1>11 DEF ReadExtraction
  <2> QED BY <1>4, <2>1
<1>12. ASSUME NEW filter, NEW limit, StartPages(filter, limit)
       PROVE  FoundInv'
  <2>1. known' = known /\ answer'.op = "none"
    BY <1>12 DEF StartPages, NoAnswer
  <2> QED BY <1>4, <2>1
<1>13. CASE ListReports
  <2>1. known' = known /\ answer'.op \in {"none", "pages"}
    BY <1>13 DEF ListReports, NoAnswer
  <2> QED BY <1>4, <2>1
<1>14. CASE Remember
  <2>1. known' \in Told(answer) /\ answer' = NoAnswer
    BY <1>14 DEF Remember
  <2>2. CASE answer.op = "facets"
    <3>1. PICK v \in answer.values :
              known' = [kind |-> "facet", facet |-> answer.facet, value |-> v]
      BY <2>1, <2>2 DEF Told
    <3>2. Stored(answer.facet, v)
      BY <2>2 DEF FoundInv, ToldInv
    <3>3. ToldInv'
      BY <1>2, <2>1, <3>1, <3>2, SilentFound DEF ToldInv
    <3> QED BY <1>2, <2>1, <3>3, SilentFound DEF FoundInv
  <2>3. CASE answer.op = "metrics"
    <3>1. PICK t \in answer.named :
              /\ t.word # Blank
              /\ known' = [kind |-> "mention", report |-> answer.report, ticker |-> t]
      BY <2>1, <2>3 DEF Told
    <3>2. Names(answer.report, t)
      BY <2>3, <3>1 DEF FoundInv, ToldInv
    <3>3. ToldInv'
      BY <1>2, <2>1, <3>1, <3>2, SilentFound DEF ToldInv
    <3> QED BY <1>2, <2>1, <3>3, SilentFound DEF FoundInv
  <2>4. CASE answer.op \notin {"facets", "metrics"}
    <3>1. known'.kind = "extracted"
      BY <2>1, <2>4 DEF Told
    <3>2. ToldInv'
      BY <2>1, <3>1, SilentFound DEF ToldInv
    <3> QED BY <1>2, <2>1, <3>2, SilentFound DEF FoundInv
  <2> QED BY <2>2, <2>3, <2>4
<1> QED
  BY <1>5, <1>6, <1>7, <1>8, <1>9, <1>10, <1>11, <1>12, <1>13, <1>14 DEF Requests

THEOREM FoundInvariance == Spec => []FoundInv
<1>1. Init => FoundInv
  BY FS_EmptySet DEF Init, FoundInv, TypeOK, FacetsInv, ToldInv, ListedIsFound, MentionFound,
                     Statuses, Idle, NoAnswer, Nothing
<1>2. FoundInv /\ [Next]_vars => FoundInv'
  <2> SUFFICES ASSUME FoundInv, [Next]_vars PROVE FoundInv'
    OBVIOUS
  <2>1. CASE UNCHANGED vars
    <3>1. TypeOK' /\ FacetsInv' /\ ToldInv'
      BY <2>1 DEF FoundInv, TypeOK, FacetsInv, ToldInv, Stored, Names, vars, catalogue
    <3>2. ListedIsFound' /\ MentionFound'
      BY <2>1 DEF FoundInv, ListedIsFound, MentionFound, vars, catalogue
    <3> QED BY <3>1, <3>2 DEF FoundInv
  <2> QED BY <2>1, CommitFound, RequestFound DEF Next
<1> QED BY <1>1, <1>2, PTL DEF Spec

\* A value that list_facets has shown finds a report in every later search.
THEOREM FacetValues == Spec => []ListedIsFound
<1>1. FoundInv => ListedIsFound
  BY DEF FoundInv
<1> QED BY <1>1, FoundInvariance, PTL

\* A ticker that an extraction names finds its report in every later search, in any
\* case, if the answer is not full.
THEOREM Mentions == Spec => []MentionFound
<1>1. FoundInv => MentionFound
  BY DEF FoundInv
<1> QED BY <1>1, FoundInvariance, PTL

-----------------------------------------------------------------------------
(* Reading list_reports to the end *)

Above(r, filter) == {x \in Listed(filter) : Newer(x, r)}

Tied(r) == \E s \in Present \ {r} : /\ card[s].published = card[r].published
                                     /\ since[s] = since[r]

\* A report that the client has not seen stands behind its offset.
PagesInv ==
    client.op = "pages" /\ ~Given(client.filter, "status") =>
        /\ client.offset \in Nat /\ client.limit \in Nat \ {0}
        /\ \A r \in client.due :
               /\ r \in Listed(client.filter)
               /\ \/ r \in client.seen
                  \/ Tied(r)
                  \/ Cardinality(Above(r, client.filter)) >= client.offset

ReadInv == TypeOK /\ PagesInv /\ PagesComplete

\* All but the tied ones are above or below a report.
LEMMA TotalOrder ==
    ASSUME TypeOK, NEW r \in Present, ~Tied(r), NEW x \in Present, x # r
    PROVE  Newer(x, r) \/ Newer(r, x)
<1>1. /\ card[x].published \in Nat /\ card[r].published \in Nat
      /\ since[x] \in Nat /\ since[r] \in Nat
  BY CardsAssumption DEF TypeOK, Present
<1>2. card[x].published # card[r].published \/ since[x] # since[r]
  BY DEF Tied
<1> QED BY <1>1, <1>2 DEF Newer

LEMMA ListedFinite ==
    ASSUME NEW filter, NEW r
    PROVE  /\ Listed(filter) \subseteq Present /\ IsFiniteSet(Listed(filter))
           /\ IsFiniteSet(Above(r, filter)) /\ Cardinality(Above(r, filter)) \in Nat
<1>1. Listed(filter) \subseteq Present /\ Listed(filter) \subseteq Reports
  BY DEF Listed, Present
<1>2. Above(r, filter) \subseteq Listed(filter)
  BY DEF Above
<1>3. IsFiniteSet(Listed(filter)) /\ IsFiniteSet(Above(r, filter))
  BY <1>1, <1>2, ReportsAssumption, FS_Subset
<1> QED BY <1>1, <1>3, FS_CardinalityType

\* A page that misses a report from behind the offset is full, and the report is
\* behind the next offset too.
LEMMA PageRows ==
    ASSUME TypeOK, NEW filter, NEW o \in Nat, NEW n \in Nat \ {0},
           NEW page \in Page(Listed(filter), o, n),
           NEW r \in Listed(filter), r \notin page, ~Tied(r),
           Cardinality(Above(r, filter)) >= o
    PROVE  Cardinality(page) = n /\ Cardinality(Above(r, filter)) >= o + n
<1> DEFINE rows == Listed(filter)
           order == NewestFirst(rows)
<1>1. PICK skipped \in First(rows, o, order), top \in First(rows, o + n, order) :
          skipped \subseteq top /\ page = top \ skipped
  BY DEF Page
<1>2. /\ skipped \in SUBSET rows /\ top \in SUBSET rows
      /\ Cardinality(skipped) = IF Cardinality(rows) < o THEN Cardinality(rows) ELSE o
      /\ Cardinality(top) = IF Cardinality(rows) < o + n THEN Cardinality(rows) ELSE o + n
      /\ \A x \in skipped, y \in rows \ skipped : <<y, x>> \notin order
      /\ \A x \in top, y \in rows \ top : <<y, x>> \notin order
  BY <1>1 DEF First
<1>3. rows \subseteq Present /\ IsFiniteSet(rows) /\ Cardinality(rows) \in Nat
      /\ IsFiniteSet(Above(r, filter)) /\ Cardinality(Above(r, filter)) \in Nat
  BY ListedFinite, FS_CardinalityType
<1>4. \A x, y \in rows : <<x, y>> \in order <=> Newer(x, y)
  BY DEF NewestFirst
<1>5. r \notin skipped
  <2> SUFFICES ASSUME r \in skipped
               PROVE  FALSE
    OBVIOUS
  <2>1. Above(r, filter) \cup {r} \subseteq skipped
    BY <1>2, <1>4 DEF Above
  <2>2. r \notin Above(r, filter)
    <3>1. card[r].published \in Nat /\ since[r] \in Nat
      BY <1>3, CardsAssumption DEF TypeOK, Present
    <3> QED BY <3>1 DEF Above, Newer
  <2>3. Cardinality(Above(r, filter) \cup {r}) = Cardinality(Above(r, filter)) + 1
    BY <1>3, <2>2, FS_AddElement
  <2>4. IsFiniteSet(skipped)
    BY <1>2, <1>3, FS_Subset
  <2>5. Cardinality(Above(r, filter) \cup {r}) <= Cardinality(skipped)
        /\ Cardinality(skipped) \in Nat
    BY <2>1, <2>4, FS_Subset, FS_CardinalityType
  <2> QED BY <1>2, <1>3, <2>3, <2>5
<1>6. r \notin top
  BY <1>1, <1>5
<1>7. IsFiniteSet(top) /\ Cardinality(top) \in Nat
      /\ (Cardinality(rows) = Cardinality(top) => rows = top)
  BY <1>2, <1>3, FS_Subset, FS_CardinalityType
<1>8. Cardinality(top) = o + n /\ ~(Cardinality(rows) < o + n)
  BY <1>2, <1>6, <1>7
<1>9. top \subseteq Above(r, filter)
  <2> SUFFICES ASSUME NEW x \in top
               PROVE  x \in Above(r, filter)
    OBVIOUS
  <2>1. ~Newer(r, x) /\ x # r /\ x \in rows
    BY <1>2, <1>4, <1>6
  <2> QED BY <1>3, <2>1, TotalOrder DEF Above
<1>10. Cardinality(Above(r, filter)) >= o + n
  BY <1>3, <1>8, <1>9, FS_Subset
<1>11. Cardinality(skipped) = o
  BY <1>2, <1>3, <1>8
<1>12. top \cap skipped = skipped
  BY <1>1
<1>13. Cardinality(page) = Cardinality(top) - Cardinality(skipped)
  BY <1>1, <1>7, <1>12, FS_Difference
<1> QED BY <1>8, <1>10, <1>11, <1>13

LEMMA CommitRead ==
    ASSUME ReadInv, Pipeline
    PROVE  ReadInv'
<1>1. TypeOK'
  BY CommitType DEF ReadInv
<1>2. answer' = NoAnswer /\ client' \in {client, Idle} /\ card' = card
  BY DEF Pipeline, Discover, Download, Settle, Extract, Deploy, Readers
<1>3. Present \subseteq Present' /\ \A x \in Present : since'[x] = since[x]
  <2>1. ASSUME NEW S \in SUBSET Reports, Discover(S)
        PROVE  Present \subseteq Present' /\ \A x \in Present : since'[x] = since[x]
    BY <2>1 DEF Discover, Present
  <2>2. CASE ~\E S \in SUBSET Reports : Discover(S)
    BY <2>2 DEF Pipeline, Download, Settle, Extract, Deploy, Present, Claimable, ReadInv, TypeOK
  <2> QED BY <2>1, <2>2
<1>4. PagesComplete'
  BY <1>2 DEF PagesComplete, NoAnswer
<1>5. PagesInv'
  <2> SUFFICES ASSUME (client.op = "pages" /\ ~Given(client.filter, "status"))'
               PROVE  (/\ client.offset \in Nat /\ client.limit \in Nat \ {0}
                       /\ \A r \in client.due :
                              /\ r \in Listed(client.filter)
                              /\ \/ r \in client.seen
                                 \/ Tied(r)
                                 \/ Cardinality(Above(r, client.filter)) >= client.offset)'
    BY DEF PagesInv
  <2>1. client' = client
    BY <1>2 DEF Idle
  <2> DEFINE f == client.filter
  <2>2. Listed(f) \subseteq Listed(f)'
    BY <1>2, <1>3, <2>1 DEF Listed, Given, Filters
  <2> SUFFICES ASSUME NEW r \in client.due
               PROVE  /\ r \in Listed(f)'
                      /\ \/ r \in client.seen
                         \/ Tied(r)'
                         \/ Cardinality(Above(r, f)') >= client.offset
    BY <2>1 DEF ReadInv, PagesInv, Given
  <2>3. /\ client.offset \in Nat
        /\ r \in Listed(f)
        /\ r \in client.seen \/ Tied(r) \/ Cardinality(Above(r, f)) >= client.offset
    BY <2>1 DEF ReadInv, PagesInv, Given
  <2>4. r \in Present
    BY <2>3 DEF Listed
  <2>5. Tied(r) => Tied(r)'
    BY <1>2, <1>3, <2>4 DEF Tied
  <2>6. Above(r, f) \subseteq Above(r, f)'
    BY <1>2, <1>3, <2>2, <2>4 DEF Above, Newer, Listed
  <2>7. /\ IsFiniteSet(Above(r, f)') /\ Cardinality(Above(r, f)') \in Nat
        /\ Cardinality(Above(r, f)) \in Nat
    <3>1. Above(r, f)' \subseteq Reports
      BY DEF Above, Listed, Present
    <3>2. IsFiniteSet(Above(r, f)')
      BY <3>1, ReportsAssumption, FS_Subset
    <3> QED BY <3>2, ListedFinite, FS_CardinalityType
  <2>8. Cardinality(Above(r, f)) <= Cardinality(Above(r, f)')
    BY <2>6, <2>7, FS_Subset
  <2> QED BY <2>2, <2>3, <2>5, <2>7, <2>8
<1> QED BY <1>1, <1>4, <1>5 DEF ReadInv

\* One page of list_reports.
LEMMA PageRead ==
    ASSUME ReadInv, ListReports, UNCHANGED catalogue
    PROVE  PagesInv' /\ PagesComplete'
<1>1. client.op = "pages"
  BY DEF ListReports
<1>2. PICK page \in Page(Listed(client.filter), client.offset, client.limit) :
          LET seen == client.seen \cup page
          IN IF Cardinality(page) = client.limit
             THEN /\ client' = Paging(client.filter, client.limit,
                                     client.offset + client.limit, client.due, seen)
                  /\ answer' = NoAnswer
             ELSE /\ client' = Idle
                  /\ answer' = [op |-> "pages", filter |-> client.filter,
                                due |-> client.due, seen |-> seen]
  BY DEF ListReports
<1> DEFINE f == client.filter
<1>3. ASSUME ~Given(f, "status"), NEW r \in client.due
      PROVE  /\ r \in Listed(f)
             /\ \/ r \in client.seen \cup page
                \/ Tied(r)
                \/ /\ Cardinality(page) = client.limit
                   /\ Cardinality(Above(r, f)) >= client.offset + client.limit
  <2>1. /\ client.offset \in Nat /\ client.limit \in Nat \ {0}
        /\ r \in Listed(f)
        /\ r \in client.seen \/ Tied(r) \/ Cardinality(Above(r, f)) >= client.offset
    BY <1>1, <1>3 DEF ReadInv, PagesInv
  <2> QED BY <1>2, <2>1, PageRows DEF ReadInv
<1>4. CASE Cardinality(page) = client.limit
  <2>1. client' = Paging(f, client.limit, client.offset + client.limit, client.due,
                         client.seen \cup page)
        /\ answer' = NoAnswer
    BY <1>2, <1>4
  <2>2. /\ client'.op = "pages" /\ client'.filter = f /\ client'.limit = client.limit
        /\ client'.offset = client.offset + client.limit
        /\ client'.due = client.due /\ client'.seen = client.seen \cup page
    BY <2>1 DEF Paging
  <2>3. PagesInv'
    <3> SUFFICES ASSUME ~Given(f, "status")
                 PROVE  (/\ client.offset \in Nat /\ client.limit \in Nat \ {0}
                         /\ \A r \in client.due :
                                /\ r \in Listed(client.filter)
                                /\ \/ r \in client.seen
                                   \/ Tied(r)
                                   \/ Cardinality(Above(r, client.filter)) >= client.offset)'
      BY <2>2 DEF PagesInv, Given
    <3>1. client.offset \in Nat /\ client.limit \in Nat \ {0}
      BY <1>1 DEF ReadInv, PagesInv
    <3>2. ASSUME NEW r
          PROVE  /\ Listed(client.filter)' = Listed(f)
                 /\ Tied(r)' <=> Tied(r)
                 /\ Above(r, client.filter)' = Above(r, f)
      BY <2>2 DEF Listed, Tied, Above, Newer, Present, Given, Filters, catalogue
    <3> QED BY <1>3, <2>2, <3>1, <3>2
  <2> QED BY <2>1, <2>3 DEF PagesComplete, NoAnswer
<1>5. CASE Cardinality(page) # client.limit
  <2>1. client' = Idle /\ answer' = [op |-> "pages", filter |-> f, due |-> client.due,
                                     seen |-> client.seen \cup page]
    BY <1>2, <1>5
  <2>2. PagesInv'
    BY <2>1 DEF PagesInv, Idle
  <2>3. PagesComplete'
    <3> SUFFICES ASSUME ~Given(f, "status"), NEW r \in client.due
                 PROVE  r \in client.seen \cup page \/ Tied(r)'
      BY <2>1 DEF PagesComplete, Given, Tied
    <3>1. Tied(r)' <=> Tied(r)
      BY DEF Tied, Present, catalogue
    <3> QED BY <1>3, <1>5, <3>1
  <2> QED BY <2>2, <2>3
<1> QED BY <1>4, <1>5

LEMMA RequestRead ==
    ASSUME ReadInv, Requests
    PROVE  ReadInv'
<1>1. UNCHANGED catalogue
  BY RequestKeeps
<1>2. TypeOK'
  BY RequestType DEF ReadInv
<1>3. ASSUME client' = client \/ client'.op # "pages", answer'.op # "pages"
      PROVE  ReadInv'
  <2>1. PagesComplete'
    BY <1>3 DEF PagesComplete
  <2>2. PagesInv'
    <3>1. CASE client' = client
      BY <1>1, <3>1 DEF ReadInv, PagesInv, Listed, Tied, Above, Newer, Present, Given,
                        Filters, catalogue
    <3>2. CASE client'.op # "pages"
      BY <3>2 DEF PagesInv
    <3> QED BY <1>3, <3>1, <3>2
  <2> QED BY <1>2, <2>1, <2>2 DEF ReadInv
<1>4. ASSUME NEW filter, NEW limit \in Limits, StartPages(filter, limit)
      PROVE  ReadInv'
  <2>1. client' = Paging(filter, limit, 0, Listed(filter), {}) /\ answer' = NoAnswer
    BY <1>4 DEF StartPages
  <2>2. PagesComplete'
    BY <2>1 DEF PagesComplete, NoAnswer
  <2>3. /\ client'.filter = filter /\ client'.limit = limit /\ client'.offset = 0
        /\ client'.due = Listed(filter) /\ client'.seen = {}
    BY <2>1 DEF Paging
  <2>4. PagesInv'
    <3> SUFFICES ASSUME NEW r \in Listed(filter)
                 PROVE  /\ limit \in Nat \ {0}
                        /\ r \in Listed(client.filter)'
                        /\ Cardinality(Above(r, client.filter)') >= 0
      BY <2>3, LimitAssumption DEF PagesInv
    <3>1. Listed(client.filter)' = Listed(filter)
          /\ Above(r, client.filter)' = Above(r, filter)
      BY <1>1, <2>3 DEF Listed, Above, Newer, Present, Given, Filters, catalogue
    <3> QED BY <3>1, ListedFinite, LimitAssumption
  <2> QED BY <1>2, <2>2, <2>4 DEF ReadInv
<1>5. CASE ListReports
  BY <1>1, <1>2, <1>5, PageRead DEF ReadInv
<1>6. ASSUME NEW args, NEW limit, Search(args, limit)
      PROVE  ReadInv'
  <2>1. client' = client /\ answer'.op = "search"
    BY <1>6 DEF Search, Answers
  <2> QED BY <1>3, <2>1
<1>7. ASSUME NEW ticker, NEW limit, GetStockAnalysis(ticker, limit)
      PROVE  ReadInv'
  <2>1. client' = client /\ answer'.op = "stock"
    BY <1>7 DEF GetStockAnalysis, Answers
  <2> QED BY <1>3, <2>1
<1>8. ASSUME NEW f, ListFacets(f)
      PROVE  ReadInv'
  <2>1. client' = client /\ answer'.op = "facets"
    BY <1>8 DEF ListFacets, Answers
  <2> QED BY <1>3, <2>1
<1>9. ASSUME NEW r, GetReportMetrics(r) \/ AskReportPdf(r) \/ GetReportPdf(r)
      PROVE  ReadInv'
  <2>1. client' = client /\ answer'.op \in {"metrics", "ask", "pdf"}
    <3>1. CASE GetReportMetrics(r)
      BY <3>1 DEF GetReportMetrics, Answers
    <3>2. CASE AskReportPdf(r)
      BY <3>2 DEF AskReportPdf, Answers
    <3>3. CASE GetReportPdf(r)
      BY <3>3 DEF GetReportPdf, Answers
    <3> QED BY <1>9, <3>1, <3>2, <3>3
  <2> QED BY <1>3, <2>1
<1>10. ASSUME NEW r, ReadReport(r)
       PROVE  ReadInv'
  <2>1. client'.op \in {"idle", "detail"} /\ answer'.op \in {"none", "detail"}
    BY <1>10 DEF ReadReport, NoAnswer, Idle
  <2> QED BY <1>3, <2>1
<1>11. CASE ReadExtraction
  <2>1. client'.op = "idle" /\ answer'.op = "detail"
    BY <1>11 DEF ReadExtraction, Idle
  <2> QED BY <1>3, <2>1
<1>12. CASE Remember
  <2>1. client' = client /\ answer'.op = "none"
    BY <1>12 DEF Remember, NoAnswer
  <2> QED BY <1>3, <2>1
<1> QED BY <1>4, <1>5, <1>6, <1>7, <1>8, <1>9, <1>10, <1>11, <1>12 DEF Requests

\* A client that reads every page misses no report that was there when it began and
\* is tied with no other.
THEOREM Pages == Spec => []PagesComplete
<1>1. Init => ReadInv
  BY DEF Init, ReadInv, TypeOK, PagesInv, PagesComplete, Statuses, Idle, NoAnswer, Nothing
<1>2. ReadInv /\ [Next]_vars => ReadInv'
  <2> SUFFICES ASSUME ReadInv, [Next]_vars PROVE ReadInv'
    OBVIOUS
  <2>1. CASE UNCHANGED vars
    BY <2>1 DEF ReadInv, TypeOK, PagesInv, PagesComplete, Listed, Tied, Above, Newer, Present,
                Given, Filters, vars, catalogue
  <2> QED BY <2>1, CommitRead, RequestRead DEF Next
<1>3. ReadInv => PagesComplete
  BY DEF ReadInv
<1> QED BY <1>1, <1>2, <1>3, PTL DEF Spec

-----------------------------------------------------------------------------
(* The life cycle *)

\* A report that has not come as far as the download has no PDF.
KeyInv ==
    \A r \in Reports : status[r] \in {"absent", "discovered", "duplicate"} => r \notin keyed

LEMMA KeyStep == RowsInv /\ KeyInv /\ [Next]_vars => KeyInv'
<1> SUFFICES ASSUME RowsInv, KeyInv, [Next]_vars PROVE KeyInv'
  OBVIOUS
<1>1. ASSUME NEW S \in SUBSET Reports, Discover(S) PROVE KeyInv'
  BY <1>1 DEF RowsInv, KeyInv, Discover, Present
<1>2. ASSUME NEW q \in Reports, Download(q) PROVE KeyInv'
  BY <1>2 DEF RowsInv, KeyInv, Download
<1>3. ASSUME NEW q \in Reports, NEW s \in {"duplicate", "failed"}, Settle(q, s) PROVE KeyInv'
  BY <1>3 DEF RowsInv, KeyInv, Settle
<1>4. ASSUME NEW q \in Reports, NEW p \in Payloads, Extract(q, p) PROVE KeyInv'
  BY <1>4 DEF RowsInv, KeyInv, Extract
<1>5. CASE Deploy
  BY <1>5 DEF KeyInv, Deploy
<1>6. CASE Requests
  BY <1>6, RequestKeeps DEF KeyInv, catalogue
<1>7. CASE UNCHANGED vars
  BY <1>7 DEF KeyInv, vars, catalogue
<1> QED
  BY <1>1, <1>2, <1>3, <1>4, <1>5, <1>6, <1>7 DEF Next, Pipeline

\* What there is of a report is one extraction, or none.
LEMMA DigestOf ==
    ASSUME RowsInv, NEW r \in Reports
    PROVE  Life[r].digest = IF status[r] = "extracted" THEN 1 ELSE Nil
<1>1. CASE status[r] # "extracted"
  <2>1. Of(r) = {}
    BY <1>1 DEF RowsInv, Of
  <2> QED BY <1>1, <2>1 DEF Life
<1>2. CASE status[r] = "extracted"
  <2>1. PICK e \in Of(r) : TRUE
    BY <1>2 DEF RowsInv
  <2>2. Of(r) = {e}
    BY <2>1 DEF RowsInv, Of
  <2>3. Cardinality(Of(r)) = 1
    BY <2>2, FS_Singleton
  <2> QED BY <1>2, <2>2, <2>3 DEF Life
<1> QED BY <1>1, <1>2

\* The life of each report, from the columns alone.
Stage(s, t, stored) ==
    [status |-> s,
     type |-> IF s = "absent" THEN Nil ELSE t,
     retry |-> IF s = "failed" THEN 1 ELSE 0,
     stored |-> stored,
     sha |-> IF stored \/ s = "duplicate" THEN 1 ELSE Nil,
     digest |-> IF s = "extracted" THEN 1 ELSE Nil]

LifeOf ==
    \A r \in Reports :
        /\ r \in keyed => Life[r] = Stage(status[r], card[r].type, TRUE)
        /\ r \notin keyed => Life[r] = Stage(status[r], card[r].type, FALSE)

LEMMA LifeColumns == RowsInv => LifeOf
<1> SUFFICES ASSUME RowsInv, NEW r \in Reports
             PROVE  /\ r \in keyed => Life[r] = Stage(status[r], card[r].type, TRUE)
                    /\ r \notin keyed => Life[r] = Stage(status[r], card[r].type, FALSE)
  BY DEF LifeOf
<1>1. Life[r] = Stage(status[r], card[r].type, r \in keyed)
  <2>1. (IF Of(r) = {} THEN Nil ELSE Cardinality(Of(r))) = IF status[r] = "extracted" THEN 1 ELSE Nil
    BY DigestOf DEF Life
  <2> QED BY <2>1, Zenon DEF Life, Stage
<1>2. r \in keyed => (r \in keyed) = TRUE
  OBVIOUS
<1>3. r \notin keyed => (r \in keyed) = FALSE
  OBVIOUS
<1> QED BY <1>1, <1>2, <1>3, Zenon

\* A record of the life cycle is determined by what it shows.
LifeRow(t) ==
    [status : Statuses, type : {Nil, t}, retry : {0, 1}, stored : BOOLEAN,
     sha : {Nil, 1}, digest : {Nil, 1}]

Shows(x, s, t, k) ==
    /\ x.status = s
    /\ x.type = IF s = "absent" THEN Nil ELSE t
    /\ x.retry = IF s = "failed" THEN 1 ELSE 0
    /\ x.stored = k
    /\ x.sha = IF k \/ s = "duplicate" THEN 1 ELSE Nil
    /\ x.digest = IF s = "extracted" THEN 1 ELSE Nil

LEMMA StageShows ==
    ASSUME NEW s \in Statuses, NEW t, NEW k \in BOOLEAN
    PROVE  Stage(s, t, k) \in LifeRow(t) /\ Shows(Stage(s, t, k), s, t, k)
<1>1. Stage(s, t, k) \in LifeRow(t)
  BY DEF Stage, LifeRow
<1>2. Shows(Stage(s, t, k), s, t, k)
  BY DEF Stage, Shows
<1> QED BY <1>1, <1>2

LEMMA ShownStage ==
    ASSUME NEW s \in Statuses, NEW t, NEW k \in BOOLEAN,
           NEW x \in LifeRow(t), Shows(x, s, t, k)
    PROVE  x = Stage(s, t, k)
<1>1. PICK y \in LifeRow(t) : y = Stage(s, t, k) /\ Shows(y, s, t, k)
  BY StageShows
<1>2. x = y
  BY <1>1 DEF LifeRow, Shows
<1> QED BY <1>1, <1>2

\* What the pipeline commits are edges of the life cycle.
LEMMA StageEdges ==
    ASSUME NEW t, NEW k \in BOOLEAN
    PROVE  /\ Stage("absent", t, FALSE) = Lifecycle!Unknown
           /\ t \in ListedTypes
                  => Lifecycle!Appears(Stage("absent", t, FALSE), Stage("discovered", t, FALSE))
           /\ Lifecycle!Stored(Stage("discovered", t, FALSE), Stage("downloaded", t, TRUE))
           /\ Lifecycle!Deduplicated(Stage("discovered", t, FALSE), Stage("duplicate", t, FALSE))
           /\ Lifecycle!GivenUp(Stage("discovered", t, k), Stage("failed", t, k))
           /\ Lifecycle!GivenUp(Stage("downloaded", t, TRUE), Stage("failed", t, TRUE))
           /\ Lifecycle!Digested(Stage("downloaded", t, TRUE), Stage("extracted", t, TRUE))
<1>1. Stage("absent", t, FALSE) = Lifecycle!Unknown
  BY DEF Stage, Lifecycle!Unknown
<1>2. ASSUME t \in ListedTypes PROVE Lifecycle!Appears(Stage("absent", t, FALSE), Stage("discovered", t, FALSE))
  <2>1. PICK x \in LifeRow(t) : x = Lifecycle!Unknown /\ Shows(x, "absent", t, FALSE)
    BY <1>1, StageShows DEF Statuses
  <2> DEFINE y == [x EXCEPT !.status = "discovered", !.type = t]
  <2>2. y \in LifeRow(t) /\ Shows(y, "discovered", t, FALSE)
    BY <2>1 DEF LifeRow, Statuses, Shows
  <2>3. y = Stage("discovered", t, FALSE)
    BY <2>2, ShownStage DEF Statuses
  <2>4. y = [Lifecycle!Unknown EXCEPT !.status = "discovered", !.type = t]
    BY <2>1, Zenon
  <2> HIDE DEF y
  <2>5. Lifecycle!Appears(Lifecycle!Unknown, y)
    BY <1>2, <2>4, Zenon DEF Lifecycle!Appears
  <2> QED BY <1>1, <2>3, <2>5
<1>3. Lifecycle!Stored(Stage("discovered", t, FALSE), Stage("downloaded", t, TRUE))
  <2>1. PICK x \in LifeRow(t) : x = Stage("discovered", t, FALSE) /\ Shows(x, "discovered", t, FALSE)
    BY StageShows DEF Statuses
  <2> DEFINE y == [x EXCEPT !.status = "downloaded", !.stored = TRUE, !.sha = 1]
  <2>2. y \in LifeRow(t) /\ Shows(y, "downloaded", t, TRUE)
    BY <2>1 DEF LifeRow, Statuses, Shows
  <2>3. y = Stage("downloaded", t, TRUE)
    BY <2>2, ShownStage DEF Statuses
  <2>4. x.status = "discovered"
    BY <2>1 DEF Shows
  <2> QED BY <2>1, <2>3, <2>4, Zenon DEF Lifecycle!Stored
<1>4. Lifecycle!Deduplicated(Stage("discovered", t, FALSE), Stage("duplicate", t, FALSE))
  <2>1. PICK x \in LifeRow(t) : x = Stage("discovered", t, FALSE) /\ Shows(x, "discovered", t, FALSE)
    BY StageShows DEF Statuses
  <2> DEFINE y == [x EXCEPT !.status = "duplicate", !.sha = 1]
  <2>2. y \in LifeRow(t) /\ Shows(y, "duplicate", t, FALSE)
    BY <2>1 DEF LifeRow, Statuses, Shows
  <2>3. y = Stage("duplicate", t, FALSE)
    BY <2>2, ShownStage DEF Statuses
  <2>4. x.status = "discovered"
    BY <2>1 DEF Shows
  <2> QED BY <2>1, <2>3, <2>4, Zenon DEF Lifecycle!Deduplicated
<1>5. Lifecycle!GivenUp(Stage("discovered", t, k), Stage("failed", t, k))
  <2>1. PICK x \in LifeRow(t) : x = Stage("discovered", t, k) /\ Shows(x, "discovered", t, k)
    BY StageShows DEF Statuses
  <2> DEFINE y == [x EXCEPT !.retry = 1, !.status = "failed"]
  <2>2. y \in LifeRow(t) /\ Shows(y, "failed", t, k)
    BY <2>1 DEF LifeRow, Statuses, Shows
  <2>3. y = Stage("failed", t, k)
    BY <2>2, ShownStage DEF Statuses
  <2>4. x.status = "discovered" /\ x.retry + 1 = 1
    <3>1. x.status = "discovered" /\ x.retry = 0
      BY <2>1 DEF Shows
    <3> QED BY <3>1
  <2> QED BY <2>1, <2>3, <2>4, Zenon DEF Lifecycle!GivenUp, Lifecycle!Open
<1>6. Lifecycle!GivenUp(Stage("downloaded", t, TRUE), Stage("failed", t, TRUE))
  <2>1. PICK x \in LifeRow(t) : x = Stage("downloaded", t, TRUE) /\ Shows(x, "downloaded", t, TRUE)
    BY StageShows DEF Statuses
  <2> DEFINE y == [x EXCEPT !.retry = 1, !.status = "failed"]
  <2>2. y \in LifeRow(t) /\ Shows(y, "failed", t, TRUE)
    BY <2>1 DEF LifeRow, Statuses, Shows
  <2>3. y = Stage("failed", t, TRUE)
    BY <2>2, ShownStage DEF Statuses
  <2>4. x.status = "downloaded" /\ x.retry + 1 = 1
    <3>1. x.status = "downloaded" /\ x.retry = 0
      BY <2>1 DEF Shows
    <3> QED BY <3>1
  <2> QED BY <2>1, <2>3, <2>4, Zenon DEF Lifecycle!GivenUp, Lifecycle!Open
<1>7. Lifecycle!Digested(Stage("downloaded", t, TRUE), Stage("extracted", t, TRUE))
  <2>1. PICK x \in LifeRow(t) : x = Stage("downloaded", t, TRUE) /\ Shows(x, "downloaded", t, TRUE)
    BY StageShows DEF Statuses
  <2> DEFINE y == [x EXCEPT !.status = "extracted", !.digest = 1]
  <2>2. y \in LifeRow(t) /\ Shows(y, "extracted", t, TRUE)
    BY <2>1 DEF LifeRow, Statuses, Shows
  <2>3. y = Stage("extracted", t, TRUE)
    BY <2>2, ShownStage DEF Statuses
  <2>4. x.status = "downloaded" /\ x.stored
    BY <2>1 DEF Shows
  <2> QED BY <2>1, <2>3, <2>4, Zenon DEF Lifecycle!Digested
<1> QED BY <1>1, <1>2, <1>3, <1>4, <1>5, <1>6, <1>7

LEMMA CommitLife ==
    ASSUME RowsInv, RowsInv', KeyInv, card \in Cards, card' = card, LifeOf, LifeOf', Pipeline
    PROVE  \A r \in Reports : Life'[r] = Life[r] \/ Lifecycle!Edge(Life[r], Life'[r])
<1> SUFFICES ASSUME NEW r \in Reports
             PROVE  Life'[r] = Life[r] \/ Lifecycle!Edge(Life[r], Life'[r])
  OBVIOUS
<1>k. ASSUME status'[r] = status[r], r \in keyed' <=> r \in keyed PROVE Life'[r] = Life[r]
  BY <1>k DEF LifeOf
<1>t. status[r] \in Statuses
  BY DEF RowsInv
<1> DEFINE t == card[r].type
<1>1. ASSUME NEW S \in SUBSET Reports, Discover(S), r \in S
      PROVE  Lifecycle!Appears(Life[r], Life'[r])
  <2>1. status[r] = "absent" /\ status'[r] = "discovered" /\ r \notin keyed /\ keyed' = keyed
    BY <1>t, <1>1 DEF Discover, Present, RowsInv, KeyInv
  <2>2. Life[r] = Stage("absent", t, FALSE) /\ Life'[r] = Stage("discovered", t, FALSE)
    BY <2>1 DEF LifeOf
  <2>3. t \in ListedTypes
    BY DEF ListedTypes
  <2> QED BY <2>2, <2>3, StageEdges
<1>2. ASSUME Download(r) PROVE Lifecycle!Stored(Life[r], Life'[r])
  <2>1. status[r] = "discovered" /\ status'[r] = "downloaded" /\ r \notin keyed /\ r \in keyed'
    BY <1>2 DEF Download, RowsInv, KeyInv
  <2>2. Life[r] = Stage("discovered", t, FALSE) /\ Life'[r] = Stage("downloaded", t, TRUE)
    BY <2>1 DEF LifeOf
  <2> QED BY <2>2, StageEdges
<1>3. ASSUME Settle(r, "duplicate") PROVE Lifecycle!Deduplicated(Life[r], Life'[r])
  <2>1. status[r] = "discovered" /\ status'[r] = "duplicate" /\ r \notin keyed /\ keyed' = keyed
    BY <1>3 DEF Settle, RowsInv, KeyInv
  <2>2. Life[r] = Stage("discovered", t, FALSE) /\ Life'[r] = Stage("duplicate", t, FALSE)
    BY <2>1 DEF LifeOf
  <2> QED BY <2>2, StageEdges
<1>4. ASSUME Settle(r, "failed") PROVE Lifecycle!GivenUp(Life[r], Life'[r])
  <2>1. /\ status[r] = "discovered" \/ (status[r] = "downloaded" /\ r \in keyed)
        /\ status'[r] = "failed" /\ keyed' = keyed
    BY <1>4 DEF Settle, RowsInv
  <2>2. PICK k \in BOOLEAN : /\ Life[r] = Stage(status[r], t, k) /\ Life'[r] = Stage("failed", t, k)
                             /\ r \in keyed => k = TRUE
    BY <2>1 DEF LifeOf
  <2> QED BY <2>1, <2>2, StageEdges
<1>5. ASSUME NEW p \in Payloads, Extract(r, p) PROVE Lifecycle!Digested(Life[r], Life'[r])
  <2>1. /\ status[r] = "downloaded" /\ status'[r] = "extracted"
        /\ r \in keyed /\ keyed' = keyed
    BY <1>5 DEF Extract, Claimable, RowsInv
  <2>2. Life[r] = Stage("downloaded", t, TRUE) /\ Life'[r] = Stage("extracted", t, TRUE)
    BY <2>1 DEF LifeOf
  <2> QED BY <2>2, StageEdges
<1>6. ASSUME NEW S \in SUBSET Reports, Discover(S), r \notin S PROVE Life'[r] = Life[r]
  BY <1>6, <1>k DEF Discover
<1>7. ASSUME NEW q \in Reports, Download(q), q # r PROVE Life'[r] = Life[r]
  BY <1>7, <1>k DEF Download, RowsInv
<1>8. ASSUME NEW q \in Reports, NEW s, Settle(q, s), q # r PROVE Life'[r] = Life[r]
  BY <1>8, <1>k DEF Settle, RowsInv
<1>9. ASSUME NEW q \in Reports, NEW p, Extract(q, p), q # r PROVE Life'[r] = Life[r]
  BY <1>9, <1>k DEF Extract, RowsInv
<1>10. CASE Deploy
  BY <1>10, <1>k DEF Deploy
<1> QED
  BY <1>1, <1>2, <1>3, <1>4, <1>5, <1>6, <1>7, <1>8, <1>9, <1>10 DEF Pipeline, Lifecycle!Edge

\* What the catalogue shows goes through the life cycle that the pipeline implements,
\* with no step of its own: this is what Pipeline and this module have in common.
THEOREM Refinement == Spec => LifecycleSpec
<1> DEFINE LifeInv == RowsInv /\ KeyInv /\ card \in Cards
<1>1. Init => LifeInv
  BY InitIInv DEF Init, IInv, KeyInv
<1>2. RowsInv /\ LifeInv /\ [Next]_vars => card' = card /\ KeyInv'
  <2> SUFFICES ASSUME RowsInv, LifeInv, [Next]_vars PROVE card' = card
    BY KeyStep
  <2>1. Pipeline => card' = card
    BY DEF Pipeline, Discover, Download, Settle, Extract, Deploy
  <2> QED BY <2>1, RequestKeeps DEF Next, vars, catalogue
<1>3. RowsInv /\ RowsInv' /\ LifeInv /\ [Next]_vars => LifeInv'
  BY <1>2
<1>4. Init => Lifecycle!Init
  <2> SUFFICES ASSUME Init PROVE Life = [r \in Reports |-> Lifecycle!Unknown]
    BY DEF Lifecycle!Init
  <2>1. RowsInv /\ \A r \in Reports : status[r] = "absent" /\ r \notin keyed
    BY InitIInv DEF Init, IInv
  <2>2. \A r \in Reports : Life[r] = Lifecycle!Unknown
    BY <2>1, LifeColumns, StageEdges DEF LifeOf
  <2> QED BY <2>2 DEF Life
<1>5. RowsInv /\ RowsInv' /\ LifeInv /\ LifeOf /\ LifeOf' /\ [Next]_vars
      => [Lifecycle!Next]_Life
  <2> SUFFICES ASSUME RowsInv, RowsInv', LifeInv, LifeOf, LifeOf', [Next]_vars
               PROVE  [Lifecycle!Next]_Life
    OBVIOUS
  <2>1. CASE Pipeline
    <3>1. DOMAIN Life' = Reports
      BY DEF Life
    <3>2. \A r \in Reports : Life'[r] = Life[r] \/ Lifecycle!Edge(Life[r], Life'[r])
      BY <1>2, <2>1, CommitLife
    <3> QED BY <3>1, <3>2 DEF Lifecycle!Next
  <2>2. CASE UNCHANGED catalogue
    BY <2>2 DEF Life, Of, catalogue
  <2> QED BY <2>1, <2>2, RequestKeeps DEF Next, vars
<1>6. IInv => RowsInv
  BY DEF IInv
<1> QED
  BY <1>1, <1>3, <1>4, <1>5, <1>6, LifeColumns, Invariance, PTL
  DEF Spec, LifecycleSpec, Lifecycle!Spec
=============================================================================
