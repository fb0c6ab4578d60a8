---------------------------- MODULE SearchQuery ----------------------------
(***************************************************************************)
(* rewriteQuery: what a MemorySearch query becomes before FTS5 parses it.  *)
(* Words are OR-joined and terms that are no barewords are quoted.         *)
(*                                                                         *)
(* A query is a sequence of symbols: "word" stands for letters, digits and *)
(* "_", "-" for any byte the other symbols do not name.                    *)
(***************************************************************************)
EXTENDS Naturals, Sequences, FiniteSets, SequencesExt, FiniteSetsExt

CONSTANT MaxSymbols   \* bound: symbols of a query

ASSUME SearchQueryAssumption == MaxSymbols \in Nat

VARIABLE query

Barewords == {"word", "OR"}
Opening == {"(", "NEAR("}
Symbols == Barewords \cup Opening \cup {"label:", "-", "*", ")", "quote", ",", "space"}

QueryInit == query = << >>

Type(symbol) == Len(query) < MaxSymbols /\ query' = Append(query, symbol)

QueryNext == \E symbol \in Symbols : Type(symbol)

QuerySpec == QueryInit /\ [][QueryNext]_query

-----------------------------------------------------------------------------
From(s, i) == SubSeq(s, i, Len(s))
Inside(s, n) == SubSeq(s, n + 1, Len(s) - 1)

\* strings.TrimSpace
TrimSpace(s) ==
    LET solid == {i \in DOMAIN s : s[i] # "space"}
    IN  IF solid = {} THEN << >> ELSE SubSeq(s, Min(solid), Max(solid))

\* Open parentheses after each symbol, the parentheses at the positions in "at" counted.
Depth(s, at) ==
    LET open[i \in 0..Len(s)] ==
            IF i = 0 THEN 0
            ELSE IF i \in at /\ s[i] \in Opening THEN open[i - 1] + 1
            ELSE IF i \in at /\ s[i] = ")" /\ open[i - 1] > 0 THEN open[i - 1] - 1
            ELSE open[i - 1]
    IN  open

QuotesBefore(s, i) == Cardinality({j \in 1..(i - 1) : s[j] = "quote"})
Unquoted(s) == {i \in DOMAIN s : QuotesBefore(s, i) % 2 = 0}

\* splitFTSQuery: a token is a quoted string or ends at a space outside parentheses.
TokenEnd(s) ==
    LET closing == {i \in 2..Len(s) : s[i] = "quote"}
        breaks == {i \in 2..Len(s) : s[i] = "space" /\ Depth(s, DOMAIN s)[i] = 0}
    IN  IF s[1] = "quote" THEN Min(closing \cup {Len(s)}) ELSE Min(breaks \cup {Len(s) + 1}) - 1

TokenStart(q, i) == Min({j \in i..Len(q) : q[j] # "space"} \cup {Len(q) + 1})

SplitFTSQuery(q) ==
    LET split[i \in 1..(Len(q) + 1)] ==
            LET start == TokenStart(q, i)
                end == start + TokenEnd(From(q, start))
            IN  IF start > Len(q) THEN << >>
                ELSE <<SubSeq(q, start, end - 1)>> \o split[end]
    IN  split[1]

\* strings.Join with a space
JoinTokens(tokens) ==
    FlattenSeq([i \in DOMAIN tokens |-> IF i = 1 THEN tokens[i] ELSE <<"space">> \o tokens[i]])

\* Faulty: only hyphens, dots and the like are quoted, parentheses are not.
NeedsFtsQuotingOfHyphens(s) == \E i \in DOMAIN s : s[i] = "-"

NeedsFtsQuoting(s) == \E i \in DOMAIN s : s[i] \notin Barewords

QuoteFTSToken(s) ==
    <<"quote">> \o FlattenSeq([i \in DOMAIN s |->
                       IF s[i] = "quote" THEN <<"quote", "quote">> ELSE <<s[i]>>]) \o <<"quote">>

\* Faulty: the star of a quoted prefix term is lost.
StarlessTerm(stem) == IF NeedsFtsQuoting(stem) THEN QuoteFTSToken(stem) ELSE stem \o <<"*">>

PrefixTerm(stem) == (IF NeedsFtsQuoting(stem) THEN QuoteFTSToken(stem) ELSE stem) \o <<"*">>

IsFTSOperator(s) == s = <<"OR">>

\* The place of the first comma outside strings and parentheses, 0 if there is none.
SplitTopLevelComma(s) ==
    LET commas == {i \in Unquoted(s) : s[i] = "," /\ Depth(s, Unquoted(s))[i] = 0}
    IN  IF commas = {} THEN 0 ELSE Min(commas)

\* The functions below call each other on ever shorter texts; "rewrite" is
\* rewriteFTSToken on those.
RewriteFTSExpressionTerms(rewrite, s) ==
    LET tokens == SplitFTSQuery(s)
    IN  JoinTokens([i \in DOMAIN tokens |->
            IF IsFTSOperator(tokens[i]) THEN tokens[i] ELSE rewrite[tokens[i]]])

RewriteNearExpression(rewrite, s) ==
    LET inner == TrimSpace(Inside(s, 1))
        comma == SplitTopLevelComma(inner)
    IN  IF inner = << >> THEN s
        ELSE IF comma = 0 THEN <<"NEAR(">> \o RewriteFTSExpressionTerms(rewrite, inner) \o <<")">>
        ELSE <<"NEAR(">>
             \o RewriteFTSExpressionTerms(rewrite, TrimSpace(SubSeq(inner, 1, comma - 1)))
             \o <<",", "space">> \o TrimSpace(From(inner, comma + 1)) \o <<")">>

RewriteParenthesizedExpression(rewrite, s) ==
    LET inner == TrimSpace(Inside(s, 1))
    IN  IF inner = << >> THEN s
        ELSE <<"(">> \o RewriteFTSExpressionTerms(rewrite, inner) \o <<")">>

\* The column branch is rewriteColumnExpression.
RewriteToken(rewrite, s) ==
    CASE s[1] = "quote" -> s
      [] s[1] = "NEAR(" /\ Last(s) = ")" -> RewriteNearExpression(rewrite, s)
      [] s[1] = "(" /\ Last(s) = ")" -> RewriteParenthesizedExpression(rewrite, s)
      [] s[1] = "label:" /\ Len(s) > 1 -> <<"label:">> \o rewrite[Tail(s)]
      [] OTHER -> IF Last(s) = "*" /\ Len(s) > 1 THEN PrefixTerm(Front(s))
                  ELSE IF NeedsFtsQuoting(s) THEN QuoteFTSToken(s)
                  ELSE s

Texts == {s \in Seq(Symbols) : Len(s) \in 1..MaxSymbols}

RewriteFTSToken[s \in Texts] == RewriteToken(RewriteFTSToken, s)

RewriteQuery(q) ==
    LET tokens == SplitFTSQuery(TrimSpace(q))
        joined(i) == i > 1 /\ ~IsFTSOperator(tokens[i]) /\ ~IsFTSOperator(tokens[i - 1])
    IN  JoinTokens([i \in DOMAIN tokens |->
            (IF joined(i) THEN <<"OR", "space">> ELSE << >>) \o RewriteFTSToken[tokens[i]]])

-----------------------------------------------------------------------------
\* Splitting, rewriting and joining lose no symbol of a query, repeat none and keep their
\* order: only spaces, quotes and OR come and go.
RewriteKeepsTheQuery ==
    LET Kernel(s) == FlattenSeq([i \in DOMAIN s |->
                         IF s[i] \in {"space", "quote", "OR"} THEN << >> ELSE <<s[i]>>])
    IN  Kernel(RewriteQuery(query)) = Kernel(query)

\* Every parenthesis outside strings is matched and every string is closed.
Balanced(s) ==
    LET open(i) == Cardinality({j \in Unquoted(s) : j <= i /\ s[j] \in Opening})
        closed(i) == Cardinality({j \in Unquoted(s) : j <= i /\ s[j] = ")"})
    IN  /\ \A i \in DOMAIN s : closed(i) <= open(i)
        /\ open(Len(s)) = closed(Len(s))
        /\ QuotesBefore(s, Len(s) + 1) % 2 = 0

Has(s, symbol) == \E i \in DOMAIN s : s[i] = symbol

\* rewriteQuery quotes what FTS5's bareword parser rejects: of a query typed without
\* quotes, only barewords, column filters, matched parentheses and stars that follow a
\* term are outside strings, and every string is closed.  A query with a NEAR and a comma
\* is excepted: what follows the comma is passed on as typed.  That FTS5 accepts the
\* result is not said: a dangling OR, "()" and "label:label:x" reach it as typed.
TermsAreShielded ==
    LET out == RewriteQuery(query)
    IN  /\ ~Has(query, "quote")
        /\ ~Has(query, ",") \/ ~Has(query, "NEAR(")
        => /\ Balanced(out)
           /\ \A i \in Unquoted(out) :
                  /\ out[i] \notin {"-", ","}
                  /\ out[i] = "*" => i > 1 /\ out[i - 1] \in Barewords \cup {"quote"}

=============================================================================
