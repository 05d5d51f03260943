-------------------------------- MODULE Bm25 --------------------------------
(***************************************************************************)
(* The BM25 class that four of the vendored tools carry a copy of, on rows *)
(* of tokens.  Scores are in thousandths, rounded up, so that whatever     *)
(* scores at all is positive; k1 = 1.5, b = 0.75.                          *)
(***************************************************************************)
EXTENDS Integers, FiniteSets, Sequences, SequencesExt

CONSTANTS
  MaxRows,   \* bound: the rows of a table
  Ln         \* Ln[<<a, b>>]: the logarithm of a/b in thousandths, rounded up

\* The logarithm of what is greater than 1 is positive.
ASSUME Bm25Assumption ==
  /\ MaxRows \in Nat
  /\ \A n \in 1..MaxRows : \A f \in 1..n : Ln[<<2 * n + 2, 2 * f + 1>>] \in Nat \ {0}

Vocabulary(corpus) == UNION {Range(corpus[i]) : i \in DOMAIN corpus}
DocFreq(corpus, w) == Cardinality({i \in DOMAIN corpus : w \in Range(corpus[i])})
TermFreq(tokens, w) == Cardinality({k \in DOMAIN tokens : tokens[k] = w})
TotalLength(corpus) == SumFunction([i \in DOMAIN corpus |-> Len(corpus[i])])

Idf_Classic(n, f) == Ln[<<2 * (n - f) + 1, 2 * f + 1>>]   \* mutant: ln((N - f + 0.5) / (f + 0.5))
\* ln((N - f + 0.5) / (f + 0.5) + 1)
Idf(n, f) == Ln[<<2 * n + 2, 2 * f + 1>>]

RoundedUp(a, b) == -((-a) \div b)

\* What an occurrence of a known token in the query adds to the score of a row.
Weight(corpus, i, w) ==
  LET tf == TermFreq(corpus[i], w)
      total == TotalLength(corpus)
  IN RoundedUp(Idf(Len(corpus), DocFreq(corpus, w)) * tf * 2500 * total,
               1000 * tf * total + 375 * total + 1125 * Len(corpus[i]) * Len(corpus))

Score(corpus, i, tokens) ==
  SumFunction([w \in Range(tokens) \cap Vocabulary(corpus) |-> TermFreq(tokens, w) * Weight(corpus, i, w)])

Positive_Zero(n) == n >= 0   \* mutant: score >= 0
Positive(n) == n > 0

\* sorted(..., reverse=True) keeps the order of equals.
Ahead(score, i, j) == score[i] > score[j] \/ (score[i] = score[j] /\ i < j)

\* The rows of a search: of the first limit of the ranking, those that score.
FoundRows(corpus, tokens, limit) ==
  LET score == [i \in DOMAIN corpus |-> Score(corpus, i, tokens)]
  IN {i \in DOMAIN corpus : /\ Positive(score[i])
                            /\ Cardinality({j \in DOMAIN corpus : Ahead(score, j, i)}) < limit}
=============================================================================
