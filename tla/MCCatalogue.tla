---------------------------- MODULE MCCatalogue -----------------------------
\* Two reports, of the types and days of one of three listings.
EXTENDS Catalogue, TLC

CONSTANTS r1, r2, steel, cement, ev, hpg, buy, thep, vni

MCWords == {steel, cement, ev, hpg, buy, thep, vni}
MCAliases == [w \in {steel, thep} |-> steel]

Text(w, c, p) == [word |-> w, case |-> c, padded |-> p]

Company(day) == [type |-> "company", ticker |-> Text(hpg, "upper", FALSE), published |-> day]
Other(type, day) == [type |-> type, ticker |-> Nil, published |-> day]

\* Two of one day, one of them without a schema of its own; one without a date;
\* two analyses of one stock.
MCCards ==
    {r1 :> Other("industry", 1) @@ r2 :> Other("note", 1),
     r1 :> Other("thematic", 2) @@ r2 :> Other("technical", 0),
     r1 :> Company(1) @@ r2 :> Company(2)}

Payload(key, industry, topic, picks, indexes) ==
    [key |-> key, industry |-> industry, topic |-> topic,
     outlook |-> IF key = "industry" THEN "POSITIVE" ELSE Nil,
     recommendation |-> IF key = "company" THEN Text(buy, "upper", FALSE) ELSE Nil,
     picks |-> picks, indexes |-> indexes]

MCPayloads ==
    {Payload("industry", Text(thep, "lower", TRUE), Nil,
             {Text(hpg, "lower", TRUE), Text(Blank, "lower", TRUE)}, {}),
     Payload("industry", Text(cement, "lower", TRUE), Nil, {Text(hpg, "upper", FALSE)}, {}),
     Payload("thematic", Nil, Text(ev, "mixed", TRUE), {Text(hpg, "lower", FALSE)}, {}),
     Payload("technical", Nil, Nil, {Text(hpg, "mixed", FALSE)}, {Text(vni, "upper", FALSE)}),
     Payload("company", Nil, Nil, {}, {}),
     Payload("generic", Nil, Nil, {}, {})}

NoArgs == [x \in {} |-> Nil]

MCQueries ==
    {NoArgs, [has_extraction |-> TRUE], [has_extraction |-> FALSE],
     [topic |-> Text(Blank, "mixed", FALSE)],
     [has_extraction |-> FALSE, outlook |-> "POSITIVE"],
     [ticker |-> Text(hpg, "lower", FALSE), since |-> 1]}

MCPageQueries == {NoArgs, [status |-> "discovered"]}
=============================================================================
