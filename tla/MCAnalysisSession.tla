-------------------------- MODULE MCAnalysisSession -------------------------
(***************************************************************************)
(* Payloads for TLC: one plain payload, and families that vary one part of *)
(* it over everything that part can be.                                    *)
(***************************************************************************)
EXTENDS AnalysisSession

CONSTANTS rec, plain, seen, rhetoric, gap, bare, stated, worded, context, dated,
          asked, other, words

Read(kind) == [kind |-> kind, direct |-> FALSE, speaker |-> FALSE, context |-> FALSE, cue |-> NoCue,
               stance |-> NoStance, time |-> NoTime, disputes |-> FALSE]

Passages == {rec, plain, seen, rhetoric, gap, bare, stated, worded, context, dated}

MCReading == [p \in Passages |->
    CASE p = rec      -> [Read("primary_record") EXCEPT !.direct = TRUE, !.time = "may"]
      [] p = plain    -> Read("primary_record")
      [] p = seen     -> [Read("observed_event") EXCEPT !.time = "june"]
      [] p = rhetoric -> Read("rhetoric")
      [] p = gap      -> Read("omission")
      [] p = bare     -> [Read("attributed_statement") EXCEPT !.stance = <<"talks", "broken">>]
      [] p = stated   -> [Read("attributed_statement") EXCEPT !.speaker = TRUE, !.stance = <<"talks", "on">>]
      [] p = worded   -> [Read("primary_record") EXCEPT !.direct = TRUE, !.cue = "forecast"]
      [] p = context  -> [Read("primary_record") EXCEPT !.context = TRUE]
      [] p = dated    -> [Read("primary_record") EXCEPT !.disputes = TRUE]]

Question == [meaning |-> asked, wording |-> words, future |-> TRUE, horizon |-> TRUE,
             semantics |-> "explicit", coverage |-> "inside", thresholds |-> <<2, 4>>, width |-> "none"]

Cond(id, required, status) == [id |-> id, required |-> required, status |-> status, impact |-> TRUE]
Source(id, passages) == [id |-> id, passages |-> passages, declared |-> TRUE, relevance |-> {"c1"},
                         speaker |-> FALSE, titled |-> TRUE]
Bind(s, p, k, v) == [source |-> s, passage |-> p, key |-> k, field |-> "amount", value |-> v]
Interval(l, u, s, b) == [lower |-> l, upper |-> u, scale |-> s, coverage |-> TRUE, baseline |-> b]

Plain == [terms      |-> Question,
          conditions |-> <<Cond("c1", TRUE, "observed"), Cond("c2", FALSE, "missing")>>,
          edges      |-> {<<"c1", "c2">>},
          sets       |-> {},
          sources    |-> <<Source("s1", <<rec>>)>>,
          bindings   |-> <<>>,
          estimates  |-> <<[id |-> "e1", lower |-> 1, upper |-> 3]>>,
          factors    |-> <<[id |-> "f1", inputs |-> <<"c1", "c2">>]>>,
          interval   |-> Interval(1, 2, 4, NoBaseline),
          stable     |-> TRUE]

BadTerms == {[Question EXCEPT !.meaning = Blank], [Question EXCEPT !.horizon = FALSE],
             [Question EXCEPT !.semantics = "unknown"], [Question EXCEPT !.coverage = "outside"],
             [Question EXCEPT !.thresholds = <<4, 2>>], [Question EXCEPT !.width = "empty"]}

Questions == {[Plain EXCEPT !.terms = t] : t \in BadTerms} \cup {[Plain EXCEPT !.stable = FALSE]}

StatusPairs == {"observed", "missing", "contradicted"} \X {"observed", "missing", "contradicted"}

Conditions == {<<Cond("c1", TRUE, s[1]), Cond("c2", TRUE, s[2])>> : s \in StatusPairs}
              \cup {<<>>, <<Cond("c1", FALSE, "observed"), Cond("c2", FALSE, "observed")>>,
                    <<Cond("c1", TRUE, "observed"), Cond("c1", TRUE, "missing")>>}

GraphPayloads ==
    {[Plain EXCEPT !.conditions = c, !.sets = s] :
        c \in Conditions, s \in {{}, {{"c1"}, {"c2"}}, {{"c1"}, {"c1", "c2"}}, {{}}}}
    \cup {[Plain EXCEPT !.edges = e] : e \in {{<<"c1", "c2">>, <<"c2", "c1">>}, {<<"c1", "c3">>}}}

EvidencePayloads ==
    {[Plain EXCEPT !.sources =
        << [Source("s1", <<p>>) EXCEPT !.relevance = IF d = "relevant" THEN {"c1"} ELSE {},
                                        !.declared = d # "silent", !.speaker = speaks],
           Source(id, <<q>>) >>] :
        p \in Passages, q \in Passages, d \in {"relevant", "excluded", "silent"},
        speaks \in BOOLEAN, id \in {"s2"}}
    \cup {[Plain EXCEPT !.sources = s] :
        s \in { <<>>, <<Source("s1", <<>>)>>, <<Source("s1", <<seen, dated>>), Source("s2", <<rec>>)>>,
                <<[Source("s1", <<rec>>) EXCEPT !.titled = FALSE]>>,
                <<Source("s1", <<rec>>), Source("s1", <<rec>>)>>,
                <<[Source("s1", <<rec>>) EXCEPT !.relevance = {}], Source("s1", <<seen>>)>>}}

Facts == {Bind(s, p, k, v) : s \in {"s1"}, p \in {rec, plain, bare}, k \in {"k1", "k2"}, v \in {1, 2}}
         \cup {Bind("s2", seen, "k1", 1), Bind("s2", seen, "k1", 3)}

BindingPayloads ==
    {[Plain EXCEPT !.sources = <<Source("s1", <<rec, plain>>), Source("s2", <<seen>>)>>, !.bindings = b] :
        b \in {<<f, g>> : f \in Facts, g \in Facts}
              \cup {<<Bind("s1", rec, "k1", 1), Bind("s1", plain, "k1", 2), f>> : f \in Facts}}

Numbers ==
    {[Plain EXCEPT !.interval = Interval(l, u, s, b), !.terms.thresholds = t] :
        l \in {1, 3}, u \in {2, 4, 7}, s \in {0, 2, 4},
        b \in {NoBaseline, [lower |-> 0, upper |-> 5], [lower |-> 2, upper |-> 2]},
        t \in {<<>>, <<2>>, <<2, 4>>}}
    \cup {[Plain EXCEPT !.interval = NoInterval]}
    \cup {[Plain EXCEPT !.estimates = e] :
            e \in {<<>>, <<[id |-> "e1", lower |-> 2, upper |-> 2]>>, <<[id |-> "e1", lower |-> 3, upper |-> 1]>>,
                   <<[id |-> "e1", lower |-> 1, upper |-> 2], [id |-> "e1", lower |-> 1, upper |-> 3]>>}}
    \cup {[Plain EXCEPT !.factors = <<[id |-> "f1", inputs |-> i]>>] : i \in {<<>>, <<"c1">>, <<"c1", "c1">>}}

MCPayloads == {Plain} \cup Questions \cup GraphPayloads \cup EvidencePayloads \cup BindingPayloads \cup Numbers

\* Questions that are answerable in one of two ways, in one, or not.
MCStudies == {[Plain EXCEPT !.sources = <<>>, !.estimates = <<>>, !.factors = <<>>, !.interval = NoInterval,
                            !.conditions = c, !.sets = {{"c1"}, {"c2"}}] :
                c \in {<<Cond("c1", TRUE, "observed"), Cond("c2", TRUE, "missing")>>,
                       <<Cond("c1", TRUE, "missing"), Cond("c2", TRUE, "contradicted")>>}}

MCTerms == {Question, [Question EXCEPT !.meaning = other]}
=============================================================================
