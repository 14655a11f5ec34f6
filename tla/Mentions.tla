------------------------------ MODULE Mentions ------------------------------
(***************************************************************************)
(* enrichment/tagging.py and the box texts of enrichment/insights.py: the  *)
(* tickers an article names, the columns they fill, and the notes that     *)
(* put a company beside its symbol in a stored insight box.                *)
(*                                                                         *)
(* A text is a sequence of tokens: a bare symbol, one after a dollar sign  *)
(* or an exchange, a company name, a parenthesis, another word.  Regular   *)
(* expressions are reduced to which tokens they match; matches do not      *)
(* overlap.  The one match that is left out is a symbol between an opening *)
(* parenthesis and a price: its note lands between the two, so that an     *)
(* ambiguous symbol is no mention any more when the text is read again.    *)
(***************************************************************************)
EXTENDS Question

(* public.ticker_data: the full name of each company and its segment, with *)
(* the length of the symbol.                                               *)
TickerData == [
  AI    |-> [name |-> "C3.ai", segment |-> "software", letters |-> 2],
  GOOG  |-> [name |-> "Alphabet", segment |-> "internet", letters |-> 4],
  GOOGL |-> [name |-> "Alphabet", segment |-> "internet", letters |-> 5],
  MRVL  |-> [name |-> "Marvell Technology", segment |-> "chips", letters |-> 4],
  XY    |-> [name |-> "", segment |-> "", letters |-> 2]]
InOrder == <<"AI", "GOOG", "GOOGL", "MRVL", "XY">>
Ambiguous == {"AI"}

(* The contexts in which every symbol counts.                              *)
Strong == [AI |-> {"$AI", "NASDAQ: AI"}, GOOG |-> {"$GOOG"}, GOOGL |-> {"$GOOGL"},
           MRVL |-> {"$MRVL"}, XY |-> {"$XY", "NYSE: XY"}]

(* The symbols that count when they stand by themselves, too.              *)
Safe == {tk \in DOMAIN TickerData : TickerData[tk].letters >= 3 /\ tk \notin Ambiguous}

(* The leading brand when only category words follow it.                   *)
ShortAlias(name) == IF name = "Marvell Technology" THEN {"Marvell"} ELSE {}

NameToTickers(u, token) ==
  {tk \in u : TickerData[tk].name # ""
              /\ token \in {TickerData[tk].name} \cup ShortAlias(TickerData[tk].name)}

SymbolAt(u, token) == {tk \in u : token \in Strong[tk] \/ (token = tk /\ tk \in Safe)}

TickersAt(u, token) == SymbolAt(u, token) \cup NameToTickers(u, token)

(* The tickers of one name come in no particular order (a Python set).     *)
Find(u, text) ==
  Dedup(FoldLeft(LAMBDA found, token : found \o SetToSeq(TickersAt(u, token)), <<>>, text))

-----------------------------------------------------------------------------
Segment(u, tk) == IF tk \in u THEN TickerData[tk].segment ELSE ""

(* The rest of the array first, then what only the text names.             *)
MoreTickers(q) ==
  Dedup(Filtered(Tail(q.array) \o Find(q.universe, q.text), LAMBDA tk : tk # Head(q.array)))

ComputeRow(q) ==
  IF q.array = <<>> THEN [primary |-> "", segment |-> "", more |-> <<>>, moreSegments |-> <<>>]
  ELSE LET own  == Segment(q.universe, Head(q.array))
           more == MoreTickers(q)
       IN [primary |-> Head(q.array), segment |-> own, more |-> more,
           moreSegments |-> Dedup(Filtered([i \in DOMAIN more |-> Segment(q.universe, more[i])],
                                           LAMBDA s : s \notin {"", own}))]

-----------------------------------------------------------------------------
(* What stands beside a mention: the company of a symbol, the tickers of a *)
(* name.                                                                   *)
Counterparts(u, token) ==
  IF SymbolAt(u, token) # {}
  THEN Filtered(<<TickerData[CHOOSE tk \in SymbolAt(u, token) : TRUE].name>>, LAMBDA n : n # "")
  ELSE Filtered(InOrder, LAMBDA tk : tk \in NameToTickers(u, token))

(* The tokens in whose lower-case letters those of a counterpart occur.    *)
Within == [AI |-> {"AI", "$AI", "NASDAQ: AI", "C3.ai", "said"},
           GOOG |-> {"GOOG", "$GOOG", "GOOGL", "$GOOGL"}, GOOGL |-> {"GOOGL", "$GOOGL"},
           MRVL |-> {"MRVL", "$MRVL"}, XY |-> {"XY", "$XY", "NYSE: XY"}]
Holds(token, counterparts) ==
  \E c \in ToSet(counterparts) : token = c \/ (c \in DOMAIN Within /\ token \in Within[c])

(* The next token opens a parenthesis that holds a counterpart.            *)
FollowedByCounterpart(u, text, i) ==
  \E close \in (i + 2)..Len(text) :
    /\ text[i + 1] = "(" /\ text[close] = ")"
    /\ \A j \in (i + 2)..(close - 1) : text[j] # ")"
    /\ \E j \in (i + 2)..(close - 1) : Holds(text[j], Counterparts(u, text[i]))

Note(u, token) ==
  IF Counterparts(u, token) = <<>> THEN <<>> ELSE <<"(">> \o Counterparts(u, token) \o <<")">>

(* Mutant of Annotated: every mention gets a note.                          *)
AnnotatedEach(u, text, acc, i) ==
  LET note == TickersAt(u, text[i]) # {} /\ ~FollowedByCounterpart(u, text, i)
  IN [out |-> Append(acc.out, text[i]) \o (IF note THEN Note(u, text[i]) ELSE <<>>),
      done |-> acc.done \cup {TickersAt(u, text[i])}]

(* The first mention of an entity - a ticker, or the tickers of a company  *)
(* that has several - gets its note, unless one is there.                  *)
Annotated(u, text, acc, i) ==
  LET entity == TickersAt(u, text[i])
      note   == entity # {} /\ entity \notin acc.done /\ ~FollowedByCounterpart(u, text, i)
  IN [out |-> Append(acc.out, text[i]) \o (IF note THEN Note(u, text[i]) ELSE <<>>),
      done |-> acc.done \cup {entity}]

Annotate(u, text) ==
  FoldLeft(LAMBDA acc, i : Annotated(u, text, acc, i), [out |-> <<>>, done |-> {}],
           [i \in DOMAIN text |-> i]).out

-----------------------------------------------------------------------------
Spans(article) ==
  UNION {{SubSeq(article, i, j) : j \in i..Len(article)} : i \in DOMAIN article}

(* difflib's ratio, by the tokens two texts share.                         *)
Similar(quote, span) ==
  2 * Cardinality(ToSet(quote) \cap ToSet(span)) * 4 >= 3 * (Len(quote) + Len(span))

(* The span of the article a quote stands for: itself, one similar enough, *)
(* or none.                                                                *)
FuzzyFind(quote, article) ==
  IF quote \in Spans(article) THEN {quote}
  ELSE LET close == {s \in Spans(article) : Similar(quote, s)}
       IN IF close = {} THEN {} ELSE {CHOOSE s \in close : TRUE}

VerbatimizeQuotes(quotes, article) ==
  Dedup(FoldLeft(LAMBDA kept, quote : kept \o SetToSeq(FuzzyFind(quote, article)), <<>>, quotes))

(* Headline, topic and insight are annotated, the quotes stay as they are. *)
AnnotateBox(u, box) == [box EXCEPT !.head = Annotate(u, @)]

StoreBox(q) ==
  [quotes |-> VerbatimizeQuotes(q.box.quotes, q.text), boxText |-> AnnotateBox(q.universe, q.box)]

(* fix_quotes: the quotes again, from the stored text of the box.          *)
FixQuotes(q, stored) ==
  [stored EXCEPT !.quotes = VerbatimizeQuotes(stored.boxText.quotes, q.text)]

-----------------------------------------------------------------------------
(* bounds *)
Chunks == {<<"MRVL">>, <<"Marvell">>, <<"Marvell Technology">>, <<"rose">>,
           <<"MRVL", "(", "Marvell Technology", ")">>, <<"Marvell", "(", "MRVL", ")">>,
           <<"MRVL", "(", "C3.ai", "Marvell Technology", ")">>, <<"C3.ai", "(", "rose", "AI", ")">>,
           <<"C3.ai", "(", "said", ")">>, <<"Alphabet", "(", "GOOGL", ")">>,
           <<"Alphabet">>, <<"GOOG">>, <<"AI">>, <<"$AI">>, <<"NASDAQ: AI">>,
           <<"C3.ai">>, <<"XY">>, <<"NYSE: XY">>}
Arrays == {<<>>, <<"GOOG", "GOOGL", "AI">>, <<"XY", "MRVL", "XY", "MRVL">>}

AskTags ==
  /\ Asked("nobody")
  /\ \E a, b, c \in Chunks, array \in Arrays,
        universe \in {DOMAIN TickerData, DOMAIN TickerData \ {"GOOGL"}} :
       question' = [of |-> "tags", text |-> a \o b \o c, array |-> array, universe |-> universe,
                    box |-> [head |-> a \o c,
                             quotes |-> <<b \o c, <<"never", "said">>, a \o <<"fell">>, b \o c>>]]

-----------------------------------------------------------------------------
OneTickerEach(u) == \A s, t \in u : TickerData[s].name = TickerData[t].name => s = t

(* compute_row loses no ticker and repeats none: the primary and the other *)
(* tickers together are those of the feed and those the text names, and    *)
(* their segments are all recorded, each once.                             *)
TagsCoverMentions(q) ==
  LET row == ComputeRow(q)
      all == ToSet(<<row.primary>> \o row.more)
  IN q.array # <<>> =>
       /\ all = ToSet(q.array) \cup ToSet(Find(q.universe, q.text))
       /\ Len(row.more) + 1 = Cardinality(all)
       /\ ToSet(<<row.segment>> \o row.moreSegments) \ {""}
            = {Segment(q.universe, tk) : tk \in all} \ {""}
       /\ IsInjective(row.moreSegments)

(* In no parenthesis behind a mention, another company is named up to the  *)
(* counterpart.                                                            *)
CounterpartsFirst(u, text) ==
  \A i \in DOMAIN text : FollowedByCounterpart(u, text, i) =>
    \E j \in (i + 2)..Len(text) :
      /\ Holds(text[j], Counterparts(u, text[i]))
      /\ \A k \in (i + 2)..j :
           text[k] # ")" /\ TickersAt(u, text[k]) \in {{}, TickersAt(u, text[i])}

(* The notes say nothing new: where each company has one ticker, an        *)
(* annotated text names the tickers it named before, and annotating it     *)
(* again changes nothing (build_annotator: "idempotent").  That is not so  *)
(* where another company comes before the counterpart: its note closes the *)
(* parenthesis, behind which the pattern does not look.                    *)
NotesSayNothingNew(q) ==
  LET noted == Annotate(q.universe, q.text)
  IN OneTickerEach(q.universe) =>
       /\ ToSet(Find(q.universe, noted)) = ToSet(Find(q.universe, q.text))
       /\ CounterpartsFirst(q.universe, q.text) => Annotate(q.universe, noted) = noted

(* What tagging and annotation make of the mentions of a text agrees with  *)
(* the text, and correcting the quotes of a box that was just stored       *)
(* changes nothing, because its stored text keeps the quotes untouched.    *)
MentionsAccountedFor ==
  Asked("tags") =>
    /\ TagsCoverMentions(question)
    /\ NotesSayNothingNew(question)
    /\ FixQuotes(question, StoreBox(question)) = StoreBox(question)

=============================================================================
