------------------------------- MODULE Facets -------------------------------
(***************************************************************************)
(* What ExtractorService keeps of an answer of Gemini in typed columns,    *)
(* and how a filter of search_reports is compared with them.               *)
(*                                                                         *)
(* A text is a word with the two things that normalisation takes away:     *)
(* the case it is spelled in and white space around it.                    *)
(***************************************************************************)
CONSTANTS
    Words,     \* of tickers, industries, topics, recommendations
    Aliases,   \* CANONICAL_INDUSTRIES: from names in lower case to the label
    Within,    \* pairs of words of which the first is a proper part of the second
    Blank,     \* the word of "" and of "  "
    Nil

Cases == {"upper", "lower", "mixed"}
Texts == [word : Words \cup {Blank}, case : Cases, padded : BOOLEAN]

ASSUME WordsAssumption == Blank \notin Words /\ Nil \notin Texts
ASSUME AliasesAssumption == \A w \in DOMAIN Aliases : Aliases[w] \in Words

\* A text that is not blank, without white space around it.
Spelled(t) == t \in Texts /\ t.word # Blank /\ ~t.padded

Upper(t) == [t EXCEPT !.case = "upper"]
Strip(t) == [t EXCEPT !.padded = FALSE]
Label(w) == [word |-> w, case |-> "mixed", padded |-> FALSE]

\* A value that an "if value" of Python lets through.
Truthy(t) == t # Nil /\ ~(t.word = Blank /\ ~t.padded)

Outlooks == {"POSITIVE", "NEUTRAL", "NEGATIVE"}
Schemas == {"company", "industry", "macro", "technical", "thematic", "generic"}

\* A type that the registry does not know is read as a generic report.
SchemaKey(code) == IF code \in Schemas THEN code ELSE "generic"

-----------------------------------------------------------------------------
\* As CanonicalizeIndustry, without value.strip().
CanonicalizeUnstripped(v) ==
    IF v = Nil \/ ~Truthy(v) THEN Nil
    ELSE IF v.word \in DOMAIN Aliases THEN Label(Aliases[v.word])
    ELSE v

\* A known name becomes its label; another one is kept as it is spelled.
CanonicalizeIndustry(v) ==
    IF v = Nil \/ v.word = Blank THEN Nil
    ELSE IF v.word \in DOMAIN Aliases THEN Label(Aliases[v.word])
    ELSE Strip(v)

\* The tickers of a payload: picks stands for top_picks, top_signals or
\* affected_tickers, indexes for the symbols of index_outlook.
Named(payload, key, ticker) ==
    CASE key \in {"industry", "thematic"} -> payload.picks
      [] key = "technical" -> payload.picks \cup payload.indexes
      [] key = "company" -> {ticker} \ {Nil}
      [] OTHER -> {}

\* As Mentioned, without upper().
MentionedAsSpelled(payload, key, ticker) ==
    {Strip(t) : t \in {t \in Named(payload, key, ticker) : t.word # Blank}}

\* mentioned_tickers, a set here: no query depends on the order.
Mentioned(payload, key, ticker) ==
    {Upper(Strip(t)) : t \in {t \in Named(payload, key, ticker) : t.word # Blank}}

ExtractFacets(payload, key, ticker) ==
    [industry_name  |-> IF key = "industry"
                        THEN CanonicalizeIndustry(payload.industry) ELSE Nil,
     topic          |-> IF key = "thematic" /\ Truthy(payload.topic)
                        THEN payload.topic ELSE Nil,
     outlook        |-> IF key \in {"industry", "macro"} /\ payload.outlook \in Outlooks
                        THEN payload.outlook ELSE Nil,
     recommendation |-> IF key = "company" THEN payload.recommendation ELSE Nil,
     mentioned      |-> Mentioned(payload, key, ticker)]

-----------------------------------------------------------------------------
\* As ILike, with the comparison that recommendation and ticker have.
EqualsUpper(value, arg) == value = Upper(arg)

\* column ILIKE '%arg%'
ILike(value, arg) ==
    /\ value # Nil
    /\ \/ arg.word = value.word /\ (arg.padded => value.padded)
       \/ <<arg.word, value.word>> \in Within /\ ~arg.padded
=============================================================================
