---------------------------- MODULE MCProjections ----------------------------
(* Answers for Projections: every kind of projector, over two keywords.     *)
EXTENDS Projections, TLC

Record(k, says, months, domains) ==
    [keyword |-> k, says |-> says, months |-> months, domains |-> domains]

Answer(capability, question, cost, records) ==
    [capability |-> capability, question |-> question, cost |-> cost, records |-> records]

MCResponses ==
    {Answer("AUTOCOMPLETE", "seed", 0, {Record("crm", {}, {}, {}), Record("erp", {}, {}, {})}),
     Answer("SEARCH_VOLUME", "crm", 1,
            {Record("crm", {"volume", "difficulty", "intent"}, {"may"}, {})}),
     Answer("BULK_KEYWORD_DIFFICULTY", "crm", 1, {Record("crm", {"difficulty"}, {}, {})}),
     Answer("SEARCH_INTENT", "crm", 1, {Record("crm", {"intent", "probability"}, {}, {})}),
     Answer("KEYWORDS_FOR_KEYWORDS", "seed", 1,
            {Record("crm", {"volume"}, {"may", "june"}, {}), Record("erp", {}, {}, {})}),
     Answer("RANKED_KEYWORDS", "mine", 1,
            {Record("erp", {"volume", "intent"}, {"may"}, {"mine"})}),
     Answer("DOMAIN_INTERSECTION", "mine, theirs", 1,
            {Record("crm", {"difficulty"}, {}, {"mine", "theirs"})}),
     Answer("SEARCH_ANALYTICS", "page", 0, {Record("crm on a day", {}, {}, {})}),
     Answer("USER_DATA", "balance", 0, {})}

Interchangeable == Permutations(Processes)
=============================================================================
