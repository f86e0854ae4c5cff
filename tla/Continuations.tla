--------------------------- MODULE Continuations ---------------------------
(***************************************************************************)
(* mergeLineContinuations of internal/lexer/lexer.go: the pass over the    *)
(* scanned tokens that joins the lines of a pipe chain, by leaving out the *)
(* NEWLINE between them and the INDENTs that follow it, and as many        *)
(* DEDENTs later.                                                          *)
(*                                                                         *)
(* The result is kept as the positions of the tokens that are copied to    *)
(* it: a token that was left out can then be told from its twin.           *)
(***************************************************************************)
EXTENDS Integers, Sequences, FiniteSets, SequencesExt

VARIABLES
  toks,             (* the tokens to merge                                 *)
  pos,              (* i: the position of the next token                   *)
  result,           (* the positions copied so far                         *)
  absorbedIndents,
  inPipeChain

merge == <<pos, result, absorbedIndents, inPipeChain>>
mergeVars == <<toks, merge>>

MergeInit ==
  /\ pos = 1
  /\ result = <<>>
  /\ absorbedIndents = 0
  /\ inPipeChain = FALSE

(* The token at a position, "none" past the end of the list. *)
TokenAt(p) == IF p \in DOMAIN toks THEN toks[p] ELSE "none"

(* The first position from p on that does not hold a token of class t. *)
After(t, p) ==
  CHOOSE q \in p .. Len(toks) + 1 :
    TokenAt(q) # t /\ \A k \in p .. q - 1 : TokenAt(k) = t

Positions(p, q) == [k \in 1 .. q - p + 1 |-> p + k - 1]

Merging == pos <= Len(toks)

(* Mutant: the NEWLINE is counted as an INDENT. *)
AbsorbCountingNewline(p, q) ==
  /\ absorbedIndents' = absorbedIndents + (q - p) + 1
  /\ pos' = q

(* Mutant: the INDENTs left out are forgotten. *)
AbsorbUncounted(p, q) ==
  /\ UNCHANGED absorbedIndents
  /\ pos' = q

(* The INDENTs between p and q are absorbed with the NEWLINE in front. *)
Absorb(p, q) ==
  /\ absorbedIndents' = absorbedIndents + (q - p)
  /\ pos' = q

(* A DEDENT for an INDENT that was left out is left out too. *)
AbsorbDedent ==
  /\ Merging /\ TokenAt(pos) = "DEDENT" /\ absorbedIndents > 0
  /\ absorbedIndents' = absorbedIndents - 1
  /\ pos' = pos + 1
  /\ UNCHANGED <<toks, result, inPipeChain>>

(* A pipe, and the comments behind it.  At the end of its line the next    *)
(* line joins, unless that line closes a block or ends the file.           *)
TrailingPipe ==
  LET line == After("COMMENT", pos + 1)
      rest == After("INDENT", line + 1)
      joins == /\ TokenAt(line) = "NEWLINE"
               /\ TokenAt(rest) \notin {"DEDENT", "EOF", "none"}
  IN /\ Merging /\ TokenAt(pos) = "PIPE"
     /\ result' = result \o Positions(pos, line - 1)
     /\ inPipeChain' = TRUE
     /\ IF joins THEN Absorb(line + 1, rest)
        ELSE pos' = line /\ UNCHANGED absorbedIndents
     /\ UNCHANGED toks

(* A line that starts with a pipe, or with the onerr of a chain, continues *)
(* the line above.                                                         *)
StartsContinuation(p) ==
  TokenAt(p) = "PIPE" \/ (TokenAt(p) = "ONERR" /\ inPipeChain)

(* Mutant: the position does not move on. *)
LeadingContinuationInPlace ==
  /\ Merging /\ TokenAt(pos) = "NEWLINE" /\ StartsContinuation(After("INDENT", pos + 1))
  /\ UNCHANGED mergeVars

LeadingContinuation ==
  LET rest == After("INDENT", pos + 1)
  IN /\ Merging /\ TokenAt(pos) = "NEWLINE" /\ StartsContinuation(rest)
     /\ Absorb(pos + 1, rest)
     /\ UNCHANGED <<toks, result, inPipeChain>>

Copy ==
  /\ result' = Append(result, pos)
  /\ pos' = pos + 1
  /\ UNCHANGED <<toks, absorbedIndents>>

(* Any other NEWLINE is kept, and ends the chain. *)
EndOfLine ==
  /\ Merging /\ TokenAt(pos) = "NEWLINE"
  /\ ~StartsContinuation(After("INDENT", pos + 1))
  /\ inPipeChain' = FALSE
  /\ Copy

CopyToken ==
  /\ Merging /\ TokenAt(pos) \notin {"PIPE", "NEWLINE"}
  /\ TokenAt(pos) = "DEDENT" => absorbedIndents = 0
  /\ Copy
  /\ UNCHANGED inPipeChain

MergeNext ==
  AbsorbDedent \/ TrailingPipe \/ LeadingContinuation \/ EndOfLine \/ CopyToken

Merged == pos > Len(toks)

-----------------------------------------------------------------------------
(* Properties.                                                             *)

Holding(t, P) == {p \in P : TokenAt(p) = t}
Dropped == (1 .. pos - 1) \ Range(result)

MergeTypeOK ==
  /\ pos \in 1 .. Len(toks) + 1
  /\ result \in Seq(1 .. Len(toks))
  /\ absorbedIndents \in Nat
  /\ inPipeChain \in BOOLEAN

(* Nothing but line structure is left out, and no token is copied twice or *)
(* out of order: the parser sees the same program, with fewer line ends.   *)
OnlyLayoutDropped ==
  /\ \A p \in Dropped : TokenAt(p) \in {"NEWLINE", "INDENT", "DEDENT"}
  /\ \A j, k \in DOMAIN result : j < k => result[j] < result[k]

(* When the pass ends nothing is owed, and as many DEDENTs were left out   *)
(* as INDENTs ("For each INDENT absorbed, a corresponding DEDENT is also   *)
(* absorbed later", lexer.go:1202).                                        *)
DebtIsPaid ==
  Merged =>
    /\ absorbedIndents = 0
    /\ Cardinality(Holding("INDENT", Dropped)) = Cardinality(Holding("DEDENT", Dropped))

(* No prefix of the result closes more blocks than it opened: absorbing    *)
(* never makes the parser see a DEDENT without its INDENT.                 *)
ResultNeverUnderflows ==
  \A k \in DOMAIN result :
    LET seen == {result[j] : j \in 1 .. k}
    IN Cardinality(Holding("DEDENT", seen)) <= Cardinality(Holding("INDENT", seen))

(* The block that the INDENT at q opens is still open in front of p. *)
StillOpen(q, p) ==
  \A r \in q + 1 .. p - 1 :
    Cardinality(Holding("DEDENT", q + 1 .. r)) <= Cardinality(Holding("INDENT", q + 1 .. r))

(* In the result a token lies in the blocks the scanner put it in, but for *)
(* those whose INDENT was left out: the DEDENT left out for an INDENT is   *)
(* the corresponding one (lexer.go:1202), not one of a block inside it.    *)
TokensKeepTheirBlocks ==
  \A p \in {q \in Range(result) : TokenAt(q) \notin {"NEWLINE", "INDENT", "DEDENT", "EOF"}} :
    LET before == {q \in Range(result) : q < p}
    IN Cardinality(Holding("INDENT", before)) - Cardinality(Holding("DEDENT", before))
         = Cardinality({q \in Holding("INDENT", before) : StillOpen(q, p)})
=============================================================================
