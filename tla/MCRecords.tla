------------------------------- MODULE MCRecords -------------------------------
(* Records of a few works in each API's format, and some of no format.     *)
EXTENDS RecordFormats

Ada == <<"Ada", " ", "Lovelace">>
Plato == <<"Plato">>
Group == <<"The", " ", "Group">>

Work(title, authors, abstract, doi, date) ==
  [title |-> title, authors |-> authors, abstract |-> abstract, doi |-> doi, date |-> date,
   groups |-> {k \in DOMAIN authors : authors[k] = Group}]

Works ==
  { Work(<<"On", " ", "it">>, <<Ada, Group, Plato>>, <<"x", " ", "y", " ", "x">>, <<"10.1/a">>,
         [year |-> 2020, month |-> 2, day |-> 29]),
    Work(<<"Of", " ", "it">>, <<Plato>>, <<>>, None, [year |-> 2021, month |-> 12, day |-> None]),
    Work(<<"It">>, <<>>, <<"z">>, <<"10.1/b">>, [year |-> 2019, month |-> None, day |-> None]),
    Work(<<>>, <<Ada>>, <<>>, None, None) }

DateText(date, hour, offset) ==
  IF date = None THEN None ELSE
    [year |-> date.year, month |-> date.month, day |-> date.day, hour |-> hour, offset |-> offset]

WithPrefix(prefix, doi) == IF doi = None THEN None ELSE prefix \o doi

Index(text) ==
  IF text = <<>> THEN None ELSE
    [token \in ToSet(text) \ {" "} |->
       SetToSortSeq({(i - 1) \div 2 : i \in {j \in DOMAIN text : text[j] = token}},
                    LAMBDA i, j : i < j)]

InOpenAlex(w) ==
  { [title |-> OrNone(w.title), display_name |-> OrNone(w.title),
     authorships |-> [i \in DOMAIN w.authors |-> [author |-> [display_name |-> w.authors[i]]]],
     primary_location |-> location, id |-> <<"W">>, type |-> <<"article">>,
     open_access |-> [oa_status |-> <<"green">>],
     abstract_inverted_index |-> Index(w.abstract),
     doi |-> WithPrefix(<<"https://doi.org/">>, w.doi),
     publication_year |-> IF w.date = None THEN None ELSE w.date.year,
     publication_date |-> DateText(w.date, 0, None), cited_by_count |-> 3] :
      location \in {None, [source |-> None, landing_page_url |-> <<"u">>],
                    [source |-> [display_name |-> <<"v">>], landing_page_url |-> None]} }

InCrossref(w) ==
  LET parts == IF w.date = None THEN <<None>>
               ELSE SelectSeq(<<w.date.year, w.date.month, w.date.day>>, LAMBDA n : n # None)
      name(a) == IF a = Ada THEN [given |-> <<"Ada">>, family |-> <<"Lovelace">>]
                 ELSE IF a = Group THEN [name |-> a]
                 ELSE [family |-> a]
  IN  { ("DOI" :> w.doi) @@ ("issued" :> ("date-parts" :> <<parts>>))
        @@ ("title" :> IF w.title = <<>> THEN <<>> ELSE <<w.title>>)
        @@ ("author" :> [i \in DOMAIN w.authors |-> name(w.authors[i])])
        @@ ("abstract" :> IF w.abstract = <<>> THEN markup
                          ELSE <<"<p>", " ", "<i>", Head(w.abstract), "</i>">>
                               \o Tail(w.abstract) \o <<"</p>">>)
        @@ ("is-referenced-by-count" :> 3) @@ ("URL" :> <<"u">>) :
          markup \in {None, <<"<p>", " ", "</p>">>} }

TwoBlanks(text) ==
  FlattenSeq([i \in DOMAIN text |-> IF text[i] = " " THEN <<" ", " ">> ELSE <<text[i]>>])

InArxiv(w) ==
  IF w.date = None \/ w.date.day = None THEN {} ELSE
    { [title |-> <<" ">> \o w.title, summary |-> <<" ">> \o TwoBlanks(w.abstract) \o <<" ">>,
       authors |-> [i \in DOMAIN w.authors |-> [name |-> w.authors[i]]],
       published |-> DateText(w.date, 17, 0), id |-> <<"http://arxiv.org", "/abs/", "n">>,
       links |-> <<[rel |-> "related"], [rel |-> "alternate", href |-> <<"u">>]>>,
       categories |-> <<"cs">>, journal_ref |-> <<" ">>, doi |-> doi] :
         doi \in (IF w.doi = None THEN {<<" ">>, <<"doi:">>} ELSE {})
                 \cup {w.doi, WithPrefix(<<" ", "https://dx.doi.org/">>, w.doi),
                  WithPrefix(<<"DOI:">>, w.doi)} }

Dated(w) == w.date # None /\ w.date.day # None
ArxivWorks ==
  {w \in Works : Dated(w)}
  \cup {Work(<<"In", " ", "it">>, <<Ada>>, <<>>, None, [year |-> 2024, month |-> 7, day |-> 31])}

From(w, records) == {[work |-> w, record |-> r] : r \in records}
Unforeseen(records) == {[work |-> None, record |-> r] : r \in records}

Answered(p) ==
  CASE p = "openalex" ->
         UNION {From(w, InOpenAlex(w)) : w \in Works}
         \cup Unforeseen({[authorships |-> None], [open_access |-> None],
                          [publication_year |-> Huge, cited_by_count |-> Huge],
                          [abstract_inverted_index |-> Junk],
                          [title |-> Junk, authorships |-> <<[author |-> None]>>]})
    [] p = "crossref" ->
         UNION {From(w, InCrossref(w)) : w \in Works}
         \cup Unforeseen({[author |-> None], [issued |-> None, URL |-> Junk],
                          "issued" :> ("date-parts" :> <<<<Huge>>>>),
                          "issued" :> ("date-parts" :> <<<<2021, 2, 29>>>>),
                          "published-print" :> None})
    [] p = "arxiv" ->
         UNION {From(w, InArxiv(w)) : w \in ArxivWorks}
         \cup Unforeseen({[authors |-> <<>>, links |-> <<>>, published |-> Junk,
                           doi |-> <<"http://dx.doi.org/", "10.1/c">>],
                          [authors |-> <<>>, links |-> <<>>,
                           published |-> [year |-> 2020, month |-> 12, day |-> 31,
                                          hour |-> 23, offset |-> -5]]})

MCPages ==
  [p \in {"openalex", "crossref", "arxiv"} |->
     {<<>>} \cup {<<a>> : a \in Answered(p)} \cup {<<a, b>> : a, b \in Answered(p)}]

MCProjections == {Columns, {"title", "doi", "year"}, {"authors", "citations_count"}}
=============================================================================
