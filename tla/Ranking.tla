------------------------------- MODULE Ranking -------------------------------
(***************************************************************************)
(* Searches of the vendored tables by words: ui-ux-pro-max, which rewrites *)
(* queries, abstains below a threshold and suggests terms to retry with,   *)
(* and the three tools with the shorter copy of the search.  A document is *)
(* the words of a row.                                                     *)
(***************************************************************************)
EXTENDS Bm25

CONSTANTS
  Word,       \* words; a word stands for its lower-case form
  Long,       \* those of more than two characters
  Single,     \* those of one character
  Stopword,   \* _STOPWORDS
  Synonym,    \* Synonym[w]: the words _SYNONYMS puts for w, <<w>> for most
  Rewrite,    \* Rewrite[w]: what a routing keyword stands for in its domain, {} for none
  Similar,    \* pairs of words of a SequenceMatcher ratio of 0.72 and more
  Corpora,    \* bound: the tables the instances search
  Queries,    \* bound: the queries
  Thresholds  \* [score, num, den]: the least score, the least coverage num/den

ASSUME RankingAssumption ==
  /\ Stopword \subseteq Word /\ Long \subseteq Word /\ Single \subseteq Word \ Long
  \* what _SYNONYMS puts for a word is not replaced again
  /\ \A w \in Word : Synonym[w] \in Seq(Word) /\ \A v \in Range(Synonym[w]) : Synonym[v] = <<v>>
  /\ \A w \in Word : Rewrite[w] \subseteq Word
  /\ IsFiniteSet(UNION {Rewrite[w] : w \in Word})
  /\ Corpora \subseteq Seq(Seq(Word)) /\ Queries \subseteq Seq(Word)
  /\ \A c \in Corpora : Len(c) <= MaxRows
  /\ \A t \in Thresholds : t.score \in Nat /\ t.num \in Nat /\ t.den \in Nat \ {0}

-----------------------------------------------------------------------------
Normalize(text) == FlattenSeq([k \in DOMAIN text |-> Synonym[text[k]]])
Keep(text, words) == FlattenSeq([k \in DOMAIN text |-> IF text[k] \in words THEN <<text[k]>> ELSE <<>>])

UiTokens(text) == Keep(Normalize(text), Word \ (Single \cup Stopword))
LongTokens(text) == Keep(text, Long)
UiCorpus(documents) == [i \in DOMAIN documents |-> UiTokens(documents[i])]
LongCorpus(documents) == [i \in DOMAIN documents |-> LongTokens(documents[i])]

\* tokens of the query that the index knows / tokens of the query >= num / den
Covers(documents, query, num, den) ==
  LET tokens == Range(UiTokens(query))
  IN IF tokens = {} THEN num = 0
     ELSE den * Cardinality(tokens \cap Vocabulary(UiCorpus(documents))) >= num * Cardinality(tokens)

\* The best score exceeds the least.
PassesThreshold(documents, query, t) ==
  /\ \E i \in DOMAIN documents : Score(UiCorpus(documents), i, UiTokens(query)) > t.score
  /\ Covers(documents, query, t.num, t.den)

\* Routing keywords the index does not know bring what they stand for.
RewriteQuery(documents, query) ==
  LET unknown == {w \in Range(Normalize(query)) :
                    Range(UiTokens(<<w>>)) \cap Vocabulary(UiCorpus(documents)) = {}}
  IN query \o SetToSeq(UNION {Rewrite[w] : w \in unknown})

\* _search_csv_detailed
SearchUi(documents, query, t, limit) ==
  LET rewritten == RewriteQuery(documents, query)
  IN IF PassesThreshold(documents, rewritten, t)
     THEN FoundRows(UiCorpus(documents), UiTokens(rewritten), limit) ELSE {}

\* mutant: similar terms, whatever their score
Suggestions_Any(documents, query, t) ==
  {w \in Vocabulary(UiCorpus(documents)) \ Range(UiTokens(query)) :
     \E v \in Range(UiTokens(query)) : <<v, w>> \in Similar}
\* _suggest_terms
Suggestions(documents, query, t) ==
  {w \in Vocabulary(UiCorpus(documents)) \ Range(UiTokens(query)) :
     /\ \E v \in Range(UiTokens(query)) : <<v, w>> \in Similar
     /\ PassesThreshold(documents, <<w>>, t)}

-----------------------------------------------------------------------------
VARIABLES
  corpus,   \* the table that is searched
  ask,      \* the tool, the query, its threshold and limit
  hits,     \* the rows found
  advice,   \* the terms suggested
  rankStep  \* "idle", "search", "answered", "retried"

rankVars == <<corpus, ask, hits, advice, rankStep>>

Tool == {"ui", "slides", "cip", "logo"}
Limit == 1..3
RankInit ==
  /\ corpus = <<>> /\ hits = {} /\ advice = {} /\ rankStep = "idle"
  /\ ask = [tool |-> "ui", query |-> <<>>, threshold |-> CHOOSE t \in Thresholds : TRUE, limit |-> 1]

AskFor ==
  /\ rankStep = "idle"
  /\ corpus' \in Corpora
  /\ ask' \in [tool: Tool, query: Queries, threshold: Thresholds, limit: Limit]
  /\ rankStep' = "search" /\ UNCHANGED <<hits, advice>>

AnswerUi ==
  /\ rankStep = "search" /\ ask.tool = "ui"
  /\ hits' = SearchUi(corpus, ask.query, ask.threshold, ask.limit)
  /\ advice' = IF hits' = {} THEN Suggestions(corpus, ask.query, ask.threshold) ELSE {}
  /\ rankStep' = "answered" /\ UNCHANGED <<corpus, ask>>

\* The other three tools know no threshold and suggest nothing.
AnswerPlain(t) ==
  /\ rankStep = "search" /\ ask.tool = t
  /\ hits' = FoundRows(LongCorpus(corpus), LongTokens(ask.query), ask.limit)
  /\ rankStep' = "answered" /\ UNCHANGED <<corpus, ask, advice>>

AnswerSlides == AnswerPlain("slides")
AnswerCip == AnswerPlain("cip")
AnswerLogo == AnswerPlain("logo")

\* The caller tries a suggested term.
Retry ==
  /\ rankStep = "answered"
  /\ \E w \in advice : hits' = SearchUi(corpus, <<w>>, ask.threshold, ask.limit)
  /\ rankStep' = "retried" /\ UNCHANGED <<corpus, ask, advice>>

RankNext == AskFor \/ AnswerUi \/ AnswerSlides \/ AnswerCip \/ AnswerLogo \/ Retry
RankSpec == RankInit /\ [][RankNext]_rankVars

-----------------------------------------------------------------------------
(* Properties                                                              *)

\* A suggested term is worth the retry: searched for in the same domain it finds
\* rows, though it may be rewritten and must pass the threshold again ("so the
\* caller can retry instead of silently reporting nothing", _suggest_terms).
RetryAnswers == rankStep = "retried" => hits # {}

Tokens0(text) == IF ask.tool = "ui" THEN UiTokens(text) ELSE LongTokens(text)
Matching(query) == {i \in DOMAIN corpus : Range(Tokens0(query)) \cap Range(Tokens0(corpus[i])) # {}}

\* A search without a threshold finds the rows that share a token with the query,
\* all of them up to its limit, be the token in every row (score and idf of BM25).
FindsTheMatching ==
  rankStep = "answered" /\ (ask.tool # "ui" \/ (ask.threshold.score = 0 /\ ask.threshold.num = 0)) =>
    LET query == IF ask.tool = "ui" THEN RewriteQuery(corpus, ask.query) ELSE ask.query
        all == Cardinality(Matching(query))
    IN /\ hits \subseteq Matching(query)
       /\ Cardinality(hits) = IF all < ask.limit THEN all ELSE ask.limit

\* Of two rows of one length, the one that has every token of the query at least as
\* often never comes after the other unless they score the same (score of BM25).
MoreIsNoLess ==
  rankStep = "answered" /\ ask.tool = "ui" =>
    LET rows == UiCorpus(corpus)
        tokens == UiTokens(RewriteQuery(corpus, ask.query))
    IN \A i, j \in DOMAIN corpus :
         /\ Len(rows[i]) = Len(rows[j])
         /\ \A w \in Range(tokens) : TermFreq(rows[i], w) >= TermFreq(rows[j], w)
         => Score(rows, i, tokens) >= Score(rows, j, tokens)

\* A search finds what it should, and a suggestion leads on.
SearchSound == RetryAnswers /\ FindsTheMatching /\ MoreIsNoLess
=============================================================================
