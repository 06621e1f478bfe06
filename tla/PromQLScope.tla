----------------------------- MODULE PromQLScope -----------------------------
(***************************************************************************)
(* How the Prometheus proxy confines a dashboard's query to one cluster    *)
(* (app/grafana/promql_inject.py), at the level of its tokens: it finds    *)
(* the vector selectors by what stands next to an identifier, and gives    *)
(* each the matcher of the cluster in place of any it had.  A token is     *)
(* glued when no space parts it from the one before.                       *)
(*                                                                         *)
(* The reference is compositional: a query is built from selectors by      *)
(* functions, aggregations, operators and modifiers, the constants of the  *)
(* module, and its scoped form is built along with it.                     *)
(***************************************************************************)
EXTENDS Integers, Sequences, SequencesExt, FiniteSetsExt

CONSTANTS
    Vectors,    \* selectors, each with the scoped form it should get
    Modifiers,  \* what may stand around a selector: [before, after]
    Constructs, \* what may stand around any expression: [before, after]
    Operators,  \* what may stand between an expression and a selector
    MaxGrowth   \* bound on the constructs and operators of a query

VARIABLES
    query,     \* the query a dashboard asks, with the scoped form it should get
    growth,    \* constructs it was built from
    forwarded   \* the request passed on to Prometheus

promVars == <<query, growth, forwarded>>

Ident(v) == [kind |-> "IDENT", value |-> v, glued |-> FALSE]
Punct(v) == [kind |-> "PUNCT", value |-> v, glued |-> FALSE]
Number(v) == [kind |-> "NUMBER", value |-> v, glued |-> FALSE]
Text(v) == [kind |-> "STRING", value |-> v, glued |-> FALSE]
Glue(t) == [t EXCEPT !.glued = TRUE]

Keywords == {"and", "bool", "by", "group_left", "group_right", "ignoring", "offset", "on",
             "or", "unless", "without"}
Aggregators == {"avg", "bottomk", "count", "count_values", "group", "max", "min", "quantile",
                "stddev", "stdvar", "sum", "topk"}
LabelListKeywords == {"by", "without", "on", "ignoring", "group_left", "group_right"}
Units == {"ms", "s", "m", "h", "d", "w", "y"}

-----------------------------------------------------------------------------
(* PromQLParser.parse *)

\* Where as many brackets are closed as are open from i on.
Balances(q, i, open, close) ==
    LET Count(v, j) == Cardinality({n \in i..j : q[n].value = v})
    IN  {j \in i..Len(q) : Count(open, j) = Count(close, j)}

\* _matching: the closing partner of the bracket at i.
Matching(q, i, open, close) == Min(Balances(q, i, open, close))

ValueAt(q, i) == IF i \in DOMAIN q THEN q[i].value ELSE ""

\* Selectors with braces start at a metric name that touches the brace.
BraceStart(q, i) ==
    IF i > 1 /\ q[i - 1].kind = "IDENT" /\ q[i].glued /\ q[i - 1].value \notin Keywords
    THEN i - 1 ELSE i
BraceSpans(q) ==
    {<<BraceStart(q, i), Matching(q, i, "{", "}")>> : i \in {j \in DOMAIN q : q[j].value = "{"}}

\* _label_list_depths: by (...), on (...) and the like.
OpensList(q, i) ==
    q[i].kind = "IDENT" /\ q[i].value \in LabelListKeywords /\ ValueAt(q, i + 1) = "("
LabelLists(q) ==
    {<<i + 1, Matching(q, i + 1, "(", ")")>> : i \in {j \in DOMAIN q : OpensList(q, j)}}

Within(i, spans) == \E s \in spans : i \in s[1]..s[2]

IsFunctionOrAggregator(q, i) ==
    \/ ValueAt(q, i + 1) = "("
    \/ q[i].value \in Aggregators /\ ValueAt(q, i + 1) \in {"by", "without"}

IsDurationUnit(q, i) ==
    i > 1 /\ q[i - 1].kind = "NUMBER" /\ q[i].glued /\ q[i].value \in Units

\* A metric name without braces.
IsLoneName(q, i, braces, lists) ==
    /\ q[i].kind = "IDENT" /\ q[i].value \notin Keywords
    /\ ~Within(i, braces) /\ ~Within(i, lists)
    /\ ~IsFunctionOrAggregator(q, i) /\ ~IsDurationUnit(q, i)

\* The first and last token of each selector.
Selectors(q) ==
    LET braces == BraceSpans(q)
        lists == LabelLists(q)
    IN  braces \cup {<<i, i>> : i \in {j \in DOMAIN q : IsLoneName(q, j, braces, lists)}}

-----------------------------------------------------------------------------
(* _inject_selector and inject_cluster_label *)

Matcher(label, value) == <<Ident(label), Punct("="), Text(value)>>
Own == Matcher("cluster_id", "own")

\* The matchers between braces, kept when they are about another label.
Kept(inner) ==
    LET starts == {i \in DOMAIN inner : i = 1 \/ inner[i - 1].value = ","}
        Part(i) == SubSeq(inner, i, Min({j \in i..Len(inner) :
                       j = Len(inner) \/ inner[j + 1].value = ","}))
    IN  SelectSeq([n \in 1..Cardinality(starts) |->
                      Part(CHOOSE i \in starts :
                          Cardinality({j \in starts : j <= i}) = n)],
                  LAMBDA part : part[1].value # "cluster_id")

\* Matchers joined by commas, in braces.
Braced(matchers) ==
    <<Glue(Punct("{"))>> \o
    FoldLeft(LAMBDA text, m : IF text = <<>> THEN m ELSE text \o <<Punct(",")>> \o m,
             <<>>, matchers)
    \o <<Punct("}")>>

InjectSelector(s) ==
    LET named == s[1].value # "{"
    IN  (IF named THEN <<s[1]>> ELSE <<>>)
        \o Braced((IF Len(s) = 1 THEN <<>>
                   ELSE Kept(SubSeq(s, IF named THEN 3 ELSE 2, Len(s) - 1)))
                  \o <<Own>>)

\* The text with the selector s of q replaced.
Replaced(text, q, s) ==
    SubSeq(text, 1, s[1] - 1) \o InjectSelector(SubSeq(q, s[1], s[2]))
        \o SubSeq(text, s[2] + 1, Len(text))

\* Fault: from the first selector to the last, at the places of the query.
InjectFromFirst(q) ==
    LET selectors == Selectors(q)
        upTo[i \in 0..Len(q)] ==
            LET here == {s \in selectors : s[1] = i}
            IN  IF i = 0 THEN q
                ELSE IF here = {} THEN upTo[i - 1]
                ELSE Replaced(upTo[i - 1], q, CHOOSE s \in here : TRUE)
    IN  upTo[Len(q)]

\* From the last selector to the first, so that the places stay good.
InjectClusterLabel(q) ==
    LET selectors == Selectors(q)
        from[i \in 1..(Len(q) + 1)] ==
            LET here == {s \in selectors : s[1] = i}
            IN  IF i > Len(q) THEN q
                ELSE IF here = {} THEN from[i + 1]
                ELSE Replaced(from[i + 1], q, CHOOSE s \in here : TRUE)
    IN  from[1]

-----------------------------------------------------------------------------
(* The reference: queries, each with the scoped form it should get. *)

Query(text, scoped) == [text |-> text, scoped |-> scoped]
Around(w, q) ==
    Query(w.before \o q.text \o w.after, w.before \o q.scoped \o w.after)

\* An expression grows by one construct, or by one operator and a selector.
Grown(q) ==
    {Around(w, q) : w \in Constructs} \cup
    {Query(q.text \o op \o v.text, q.scoped \o op \o v.scoped) : op \in Operators, v \in Vectors}

Atoms == Vectors \cup {Around(w, v) : w \in Modifiers, v \in Vectors}

\* Text that can be read by itself: what it opens it closes, and its
\* selectors stand in it one after the other.
Token == [kind : {"IDENT", "PUNCT", "NUMBER", "STRING"}, value : STRING, glued : BOOLEAN]

Whole(q) ==
    /\ q \in Seq(Token) /\ q # <<>>
    /\ \A i \in DOMAIN q : q[i].value = "{" => Balances(q, i, "{", "}") # {}
    /\ \A i \in DOMAIN q : OpensList(q, i) => Balances(q, i + 1, "(", ")") # {}
    /\ \A s \in Selectors(q) :
          /\ s[1] \in DOMAIN q /\ s[2] \in DOMAIN q /\ s[1] <= s[2]
          /\ InjectSelector(SubSeq(q, s[1], s[2])) \in Seq(Token)
          /\ \A r \in Selectors(q) : r = s \/ r[2] < s[1] \/ s[2] < r[1]

\* No name ends, or starts, where one text meets the next.
EndsFree(q) ==
    LET last == q[Len(q)]
    IN  \/ last.kind = "PUNCT"
        \/ last.kind = "IDENT" /\ last.value \in Keywords \ LabelListKeywords
StartsFree(q) == ~q[1].glued /\ q[1].value \notin {"(", "by", "without"}

Bare(q) == Whole(q) /\ Selectors(q) = {}
Before(q) == q = <<>> \/ (Bare(q) /\ EndsFree(q))
After(q) == q = <<>> \/ (Bare(q) /\ StartsFree(q))

\* Both forms of a query can be read by themselves, and the proxy turns
\* either into the scoped one.
Scoped(q) ==
    /\ Whole(q.text) /\ Whole(q.scoped)
    /\ InjectClusterLabel(q.text) = q.scoped /\ InjectClusterLabel(q.scoped) = q.scoped

\* What queries are built from is understood piece by piece.
ASSUME GrammarAssumption ==
    /\ MaxGrowth \in Nat
    /\ \A v \in Vectors : Scoped(v)
    /\ \A w \in Modifiers \cup Constructs : Before(w.before) /\ After(w.after)
    /\ \A op \in Operators : op # <<>> /\ Before(op) /\ After(op)

-----------------------------------------------------------------------------
(* The proxy: prometheus_proxy, _rewrite_query_params, _rewrite_form_items. *)
(* A request is a GET, a POST with a form, or a POST with a body of another *)
(* type; any of them may carry parameters in its URL.                       *)

Rewritten == {"query", "match[]"}
RequestTypes == {"get", "form", "other"}
ParamLists == {<<"query", "time">>, <<"match[]", "match[]">>}

NoQuery == Query(<<>>, <<>>)
NoRequest == [type |-> "none", url |-> <<>>, body |-> <<>>]

\* The parameters of the names keys, asking the query.
Params(keys) ==
    [n \in DOMAIN keys |->
        [key |-> keys[n],
         value |-> IF keys[n] \in Rewritten THEN query.text ELSE <<Number("1")>>]]

RewriteParams(params) ==
    [n \in DOMAIN params |->
        IF params[n].key \in Rewritten
        THEN [params[n] EXCEPT !.value = InjectClusterLabel(params[n].value)] ELSE params[n]]

PromInit == query = NoQuery /\ growth = 0 /\ forwarded = NoRequest

Ask ==
    /\ query = NoQuery
    /\ query' \in Atoms
    /\ UNCHANGED <<growth, forwarded>>

Grow ==
    /\ query # NoQuery /\ forwarded = NoRequest /\ growth < MaxGrowth
    /\ query' \in Grown(query)
    /\ growth' = growth + 1
    /\ UNCHANGED forwarded

\* With a valid token of the cluster in the path; without one nothing is
\* forwarded.  Beside a form the URL goes on as it came, and so does a body of
\* another type; a GET goes on without its body.
Forward(type, url, body) ==
    /\ query # NoQuery /\ forwarded = NoRequest
    /\ forwarded' =
          [type |-> type,
           url  |-> IF type = "form" THEN Params(url) ELSE RewriteParams(Params(url)),
           body |-> CASE type = "get"   -> <<>>
                      [] type = "form"  -> RewriteParams(Params(body))
                      [] type = "other" -> Params(body)]
    /\ UNCHANGED <<query, growth>>

PromNext ==
    \/ Ask \/ Grow
    \/ \E type \in RequestTypes, url, body \in ParamLists : Forward(type, url, body)

PromSpec == PromInit /\ [][PromNext]_promVars

-----------------------------------------------------------------------------
\* The queries among the parameters are scoped: each vector selector has one
\* matcher for the cluster, the token's own, and all its others; nothing else
\* changed; and scoping twice is scoping once.
ScopedIn(params) ==
    \A n \in DOMAIN params :
        params[n].key \in Rewritten =>
            /\ params[n].value = query.scoped
            /\ InjectClusterLabel(params[n].value) = params[n].value

\* Each vector selector, wherever it stands in the expression, leaves the
\* proxy confined to the token's cluster, in the part of the request the proxy
\* rewrites: the form of a POST that has one, the URL of any other request.
\* Nothing is claimed of what it passes on as it came, parameters in the URL
\* beside a form and bodies of other types (proxy.py:67-82).
EverySelectorIsScoped ==
    ScopedIn(IF forwarded.type = "form" THEN forwarded.body ELSE forwarded.url)
=============================================================================
