-------------------------- MODULE TokenizerProofs --------------------------
(***************************************************************************)
(* Proofs about the scanner and the merging of pipe continuations that     *)
(* follows it, for every set of lexemes, every indentation and sources of  *)
(* every length.                                                           *)
(*                                                                         *)
(* The pass leaves out INDENTs and as many DEDENTs.  That the result opens *)
(* every block before it closes it, and that nothing is owed at the end,   *)
(* rests on what the scanner emits: a ghost function gives the depth of    *)
(* indentation behind every token, and the pass never owes more than the   *)
(* depth at its position.                                                  *)
(***************************************************************************)
EXTENDS Tokenizer, LexerProofs, TLAPS

(***************************************************************************)
(* Arithmetic and counting.                                                *)
(***************************************************************************)

(* The positions of P that hold t, and the INDENTs in excess of DEDENTs. *)
In(s, t, P) == {p \in P \cap DOMAIN s : s[p] = t}
Bal(s, P) == Cardinality(In(s, "INDENT", P)) - Cardinality(In(s, "DEDENT", P))

(* What the token at p adds to the balance. *)
Weight(t) == IF t = "INDENT" THEN 1 ELSE IF t = "DEDENT" THEN -1 ELSE 0

(* The places of a token list that satisfy something are finitely many. *)
LEMMA InIsFinite ==
  ASSUME NEW s \in Seq(TokenClass), NEW t, NEW P
  PROVE  IsFiniteSet(In(s, t, P)) /\ Cardinality(In(s, t, P)) \in Nat
<1>1. IsFiniteSet(1 .. Len(s)) /\ DOMAIN s = 1 .. Len(s)
  BY FS_Interval, LenProperties
<1>2. In(s, t, P) \subseteq 1 .. Len(s)
  BY <1>1 DEF In
<1> QED BY <1>1, <1>2, FS_Subset, FS_CardinalityType

(* The balance of a list at a set of places is an integer. *)
LEMMA BalIsInt ==
  ASSUME NEW s \in Seq(TokenClass), NEW P
  PROVE  Bal(s, P) \in Int
BY InIsFinite DEF Bal

(* Sets with the same INDENTs and DEDENTs. *)
LEMMA BalSame ==
  ASSUME NEW s \in Seq(TokenClass), NEW P, NEW Q,
         \A p \in DOMAIN s : s[p] \in {"INDENT", "DEDENT"} => (p \in P <=> p \in Q)
  PROVE  Bal(s, P) = Bal(s, Q)
<1>1. In(s, "INDENT", P) = In(s, "INDENT", Q)
  BY DEF In
<1>2. In(s, "DEDENT", P) = In(s, "DEDENT", Q)
  BY DEF In
<1> QED BY <1>1, <1>2 DEF Bal

(* One more position. *)
LEMMA BalAdd ==
  ASSUME NEW s \in Seq(TokenClass), NEW P, NEW q \in DOMAIN s, q \notin P
  PROVE  Bal(s, P \cup {q}) = Bal(s, P) + Weight(s[q])
<1>1. ASSUME NEW t
      PROVE  Cardinality(In(s, t, P \cup {q})) = Cardinality(In(s, t, P)) + (IF s[q] = t THEN 1 ELSE 0)
  <2>1. In(s, t, P \cup {q}) = IF s[q] = t THEN In(s, t, P) \cup {q} ELSE In(s, t, P)
    BY DEF In
  <2>2. q \notin In(s, t, P)
    BY DEF In
  <2>3. IsFiniteSet(In(s, t, P)) /\ Cardinality(In(s, t, P)) \in Nat
    BY InIsFinite
  <2>4. Cardinality(In(s, t, P) \cup {q}) = Cardinality(In(s, t, P)) + 1
    BY <2>2, <2>3, FS_AddElement
  <2> QED BY <2>1, <2>3, <2>4
<1>2. \A t : Cardinality(In(s, t, P)) \in Nat
  BY InIsFinite
<1>3. Cardinality(In(s, "INDENT", P \cup {q}))
        = Cardinality(In(s, "INDENT", P)) + (IF s[q] = "INDENT" THEN 1 ELSE 0)
  BY <1>1
<1>4. Cardinality(In(s, "DEDENT", P \cup {q}))
        = Cardinality(In(s, "DEDENT", P)) + (IF s[q] = "DEDENT" THEN 1 ELSE 0)
  BY <1>1
<1> QED BY <1>2, <1>3, <1>4 DEF Bal, Weight

(* The part of P that K leaves out. *)
LEMMA BalRest ==
  ASSUME NEW s \in Seq(TokenClass), NEW P, NEW K, K \subseteq P
  PROVE  Bal(s, P) = Bal(s, K) + Bal(s, P \ K)
<1>1. ASSUME NEW t
      PROVE  Cardinality(In(s, t, P)) = Cardinality(In(s, t, K)) + Cardinality(In(s, t, P \ K))
  <2>1. /\ In(s, t, P) = In(s, t, K) \cup In(s, t, P \ K)
        /\ In(s, t, K) \cap In(s, t, P \ K) = {}
    BY DEF In
  <2>2. /\ IsFiniteSet(In(s, t, K)) /\ IsFiniteSet(In(s, t, P \ K))
        /\ Cardinality(In(s, t, K)) \in Nat /\ Cardinality(In(s, t, P \ K)) \in Nat
    BY InIsFinite
  <2>3. Cardinality(In(s, t, P)) = Cardinality(In(s, t, K)) + Cardinality(In(s, t, P \ K))
                                     - Cardinality({})
    BY <2>1, <2>2, FS_Union
  <2> QED BY <2>2, <2>3, FS_EmptySet
<1>2. \A t, Q : Cardinality(In(s, t, Q)) \in Nat
  BY InIsFinite
<1>3. Cardinality(In(s, "INDENT", P))
        = Cardinality(In(s, "INDENT", K)) + Cardinality(In(s, "INDENT", P \ K))
  BY <1>1
<1>4. Cardinality(In(s, "DEDENT", P))
        = Cardinality(In(s, "DEDENT", K)) + Cardinality(In(s, "DEDENT", P \ K))
  BY <1>1
<1> QED BY <1>2, <1>3, <1>4 DEF Bal

(* One position further. *)
LEMMA BalNext ==
  ASSUME NEW s \in Seq(TokenClass), NEW p \in 1 .. Len(s)
  PROVE  Bal(s, 1 .. p) = Bal(s, 1 .. p - 1) + Weight(s[p])
<1>1. /\ 1 .. p = (1 .. p - 1) \cup {p} /\ p \notin 1 .. p - 1
      /\ p \in DOMAIN s
  BY LenProperties
<1> QED BY <1>1, BalAdd

(* A token that is appended leaves the prefixes alone. *)
LEMMA BalAppend ==
  ASSUME NEW s \in Seq(TokenClass), NEW t \in TokenClass, NEW k \in 0 .. Len(s)
  PROVE  Bal(Append(s, t), 1 .. k) = Bal(s, 1 .. k)
<1>1. /\ Len(s) \in Nat /\ DOMAIN s = 1 .. Len(s)
      /\ DOMAIN Append(s, t) = 1 .. Len(s) + 1
      /\ \A i \in 1 .. Len(s) : Append(s, t)[i] = s[i]
  BY LenProperties, AppendProperties
<1>2. \A c : In(Append(s, t), c, 1 .. k) = In(s, c, 1 .. k)
  BY <1>1 DEF In
<1> QED BY <1>2 DEF Bal

(* The whole list. *)
LEMMA BalWhole ==
  ASSUME NEW s \in Seq(TokenClass)
  PROVE  Bal(s, 1 .. Len(s)) = Count("INDENT", s) - Count("DEDENT", s)
<1>1. DOMAIN s = 1 .. Len(s)
  BY LenProperties
<1>2. \A c : In(s, c, 1 .. Len(s)) = {i \in DOMAIN s : s[i] = c}
  BY <1>1 DEF In
<1> QED BY <1>2 DEF Bal, Count

(***************************************************************************)
(* The depth of indentation.  depth[k] is the number of indented levels    *)
(* open behind the k-th token: block braces, which emit INDENT and DEDENT  *)
(* too, do not count, so that depth is at most the balance.                *)
(***************************************************************************)

(* How depth moves with one token. *)
Moves(s, depth, k) ==
  /\ s[k] = "INDENT" =>
       /\ depth[k - 1] <= depth[k]
       /\ k > 1 => s[k - 1] # "INDENT"
       /\ k > 1 /\ s[k - 1] = "NEWLINE" => depth[k] = depth[k - 1] + 1
  /\ s[k] = "DEDENT" => depth[k - 1] - 1 <= depth[k]
  /\ s[k] \notin {"INDENT", "DEDENT"} => depth[k] = depth[k - 1]

Depths(s, depth) ==
  /\ depth \in [0 .. Len(s) -> Nat]
  /\ \A k \in 0 .. Len(s) : depth[k] <= Bal(s, 1 .. k)
  /\ \A k \in 1 .. Len(s) : Moves(s, depth, k)

(* The scanner appends a token. *)
LEMMA DepthsAppend ==
  ASSUME NEW s \in Seq(TokenClass), NEW t \in TokenClass, NEW depth, Depths(s, depth),
         NEW n \in Nat, n <= Bal(Append(s, t), 1 .. Len(s) + 1),
         t = "INDENT" =>
           /\ depth[Len(s)] <= n
           /\ s # <<>> => Top(s) # "INDENT"
           /\ s # <<>> /\ Top(s) = "NEWLINE" => n = depth[Len(s)] + 1,
         t = "DEDENT" => depth[Len(s)] - 1 <= n,
         t \notin {"INDENT", "DEDENT"} => n = depth[Len(s)]
  PROVE  \E e : /\ Depths(Append(s, t), e)
                /\ e[Len(s) + 1] = n
                /\ \A k \in 0 .. Len(s) : e[k] = depth[k]
<1> DEFINE m == Len(s)
           e == [k \in 0 .. m + 1 |-> IF k = m + 1 THEN n ELSE depth[k]]
           r == Append(s, t)
<1>1. m \in Nat /\ Len(r) = m + 1 /\ r[m + 1] = t /\ \A i \in 1 .. m : r[i] = s[i]
  BY LenProperties, AppendProperties
<1>2. depth \in [0 .. m -> Nat]
  BY DEF Depths
<1>3. /\ e \in [0 .. m + 1 -> Nat] /\ e[m + 1] = n
      /\ \A k \in 0 .. m : e[k] = depth[k]
  BY <1>1, <1>2
<1>4. \A k \in 0 .. m + 1 : e[k] <= Bal(r, 1 .. k)
  <2>1. ASSUME NEW k \in 0 .. m
        PROVE  e[k] <= Bal(r, 1 .. k)
    <3>1. Bal(r, 1 .. k) = Bal(s, 1 .. k)
      BY BalAppend
    <3>2. depth[k] <= Bal(s, 1 .. k)
      BY DEF Depths
    <3> QED BY <1>3, <3>1, <3>2
  <2> QED BY <1>1, <1>3, <2>1
<1>5. \A k \in 1 .. m + 1 : Moves(r, e, k)
  <2>1. ASSUME NEW k \in 1 .. m
        PROVE  Moves(r, e, k)
    <3>1. Moves(s, depth, k)
      BY DEF Depths
    <3>2. /\ r[k] = s[k] /\ e[k] = depth[k] /\ e[k - 1] = depth[k - 1]
          /\ k > 1 => r[k - 1] = s[k - 1]
      BY <1>1, <1>3
    <3> QED BY <3>1, <3>2 DEF Moves
  <2>2. Moves(r, e, m + 1)
    <3>1. /\ m + 1 - 1 = m /\ e[m + 1] = n /\ e[m] = depth[m] /\ r[m + 1] = t
          /\ m \in Nat
      BY <1>1, <1>3
    <3>2. m + 1 > 1 => s # <<>> /\ r[m] = Top(s)
      BY <1>1, LenProperties DEF Top
    <3> HIDE DEF m, e, r
    <3>3. /\ t = "INDENT" =>
                /\ depth[m] <= n
                /\ s # <<>> => Top(s) # "INDENT"
                /\ s # <<>> /\ Top(s) = "NEWLINE" => n = depth[m] + 1
          /\ t = "DEDENT" => depth[m] - 1 <= n
          /\ t \notin {"INDENT", "DEDENT"} => n = depth[m]
      BY DEF m
    <3> QED BY <3>1, <3>2, <3>3 DEF Moves
  <2>3. \A k \in 1 .. m + 1 : k \in 1 .. m \/ k = m + 1
    BY <1>1
  <2> QED BY <2>1, <2>2, <2>3
<1>6. Depths(r, e)
  BY <1>1, <1>3, <1>4, <1>5 DEF Depths
<1> QED BY <1>1, <1>3, <1>6

(* A run of tokens that are neither INDENT nor DEDENT. *)
LEMMA QuietRun ==
  ASSUME NEW s \in Seq(TokenClass), NEW depth, Depths(s, depth),
         NEW p \in 0 .. Len(s), NEW q \in p .. Len(s),
         \A k \in p + 1 .. q : s[k] \notin {"INDENT", "DEDENT"}
  PROVE  depth[q] = depth[p] /\ Bal(s, 1 .. q) = Bal(s, 1 .. p)
<1>1. Len(s) \in Nat /\ DOMAIN s = 1 .. Len(s)
  BY LenProperties
<1>2. Bal(s, 1 .. q) = Bal(s, 1 .. p)
  <2>1. \A i \in DOMAIN s : s[i] \in {"INDENT", "DEDENT"} => (i \in 1 .. q <=> i \in 1 .. p)
    BY <1>1
  <2> QED BY <2>1, BalSame
<1>3. depth[q] = depth[p]
  <2> DEFINE T == {k \in p .. q : depth[k] # depth[p]}
  <2>1. SUFFICES ASSUME T # {} PROVE FALSE
    BY <1>1
  <2>2. T \in SUBSET Nat
    BY <1>1
  <2>3. PICK x \in T : \A y \in T : x <= y
    BY <2>1, <2>2, LeastElement
  <2>4. x \in p + 1 .. q /\ x - 1 \in p .. q
    BY <1>1, <2>3
  <2>5. depth[x - 1] = depth[p]
    BY <1>1, <2>3, <2>4
  <2>6. depth[x] = depth[x - 1]
    <3>1. x \in 1 .. Len(s) /\ s[x] \notin {"INDENT", "DEDENT"}
      BY <1>1, <2>4
    <3> QED BY <3>1 DEF Depths, Moves
  <2> QED BY <2>3, <2>5, <2>6
<1> QED BY <1>2, <1>3

(***************************************************************************)
(* What the scanner emits.                                                 *)
(***************************************************************************)

Deep == \E depth : Depths(tokens, depth) /\ depth[Len(tokens)] = Len(indentStack) - 1

(* A block keyword opens a brace on its own line only. *)
KeywordOnLine == blockKeywordSeen => tokens # <<>> /\ Top(tokens) \notin {"NEWLINE", "INDENT"}

(* Indentation is looked at behind a NEWLINE token, or where the file starts. *)
FreshLines ==
  /\ freshLine /\ ~continuationLine /\ next # "EOF" => tokens = <<>> \/ Top(tokens) = "NEWLINE"
  /\ mode = "dedent" => ~freshLine

Closed == mode = "done" => Len(indentStack) = 1

Layout == Deep /\ KeywordOnLine /\ FreshLines /\ Closed

(* The top of a stack is what was pushed last. *)
LEMMA TopAppend ==
  ASSUME NEW S, NEW s \in Seq(S), NEW e \in S
  PROVE  Append(s, e) # <<>> /\ Top(Append(s, e)) = e
<1>1. /\ Len(s) \in Nat /\ Len(Append(s, e)) = Len(s) + 1
      /\ Append(s, e)[Len(s) + 1] = e /\ Append(s, e) \in Seq(S)
  BY LenProperties, AppendProperties
<1>2. Append(s, e) # <<>>
  BY <1>1, EmptySeq
<1> QED BY <1>1, <1>2 DEF Top

(* A token that fits the depth of the levels open behind it. *)
LEMMA DeepEmit ==
  ASSUME TypeInv, TypeInv', Balanced', Deep, NEW t \in TokenClass, Emit(t),
         t = "INDENT" =>
           /\ Len(indentStack) <= Len(indentStack')
           /\ tokens # <<>> => Top(tokens) # "INDENT"
           /\ tokens # <<>> /\ Top(tokens) = "NEWLINE" => Len(indentStack') = Len(indentStack) + 1,
         t = "DEDENT" => Len(indentStack) - 1 <= Len(indentStack'),
         t \notin {"INDENT", "DEDENT"} => Len(indentStack') = Len(indentStack)
  PROVE  Deep'
<1>1. /\ tokens \in Seq(TokenClass) /\ tokens' \in Seq(TokenClass)
      /\ tokens' = Append(tokens, t)
  BY DEF TypeInv, TypeOK, Emit
<1>2. /\ Len(indentStack) \in Nat /\ Len(indentStack') \in Nat /\ Len(indentStack') > 0
      /\ braceBlockDepth' \in Nat
  BY LenProperties DEF TypeInv, TypeOK, Nesting
<1>3. Len(tokens') = Len(tokens) + 1 /\ Len(tokens) \in Nat
  BY <1>1, LenProperties, AppendProperties
<1> DEFINE n == Len(indentStack') - 1
<1>4. n \in Nat /\ n <= Bal(Append(tokens, t), 1 .. Len(tokens) + 1)
  <2>1. Bal(tokens', 1 .. Len(tokens')) = Count("INDENT", tokens') - Count("DEDENT", tokens')
    BY <1>1, BalWhole
  <2>2. Bal(tokens', 1 .. Len(tokens')) = n + braceBlockDepth'
    BY <2>1 DEF Balanced, Balance
  <2>3. Bal(Append(tokens, t), 1 .. Len(tokens) + 1) = n + braceBlockDepth'
    BY <1>1, <1>3, <2>2
  <2> QED BY <1>2, <2>3
<1>5. PICK depth : Depths(tokens, depth) /\ depth[Len(tokens)] = Len(indentStack) - 1
  BY DEF Deep
<1>6. \E e : /\ Depths(Append(tokens, t), e)
             /\ e[Len(tokens) + 1] = n
             /\ \A k \in 0 .. Len(tokens) : e[k] = depth[k]
  <2>1. /\ t = "INDENT" =>
             /\ depth[Len(tokens)] <= n
             /\ tokens # <<>> => Top(tokens) # "INDENT"
             /\ tokens # <<>> /\ Top(tokens) = "NEWLINE" => n = depth[Len(tokens)] + 1
        /\ t = "DEDENT" => depth[Len(tokens)] - 1 <= n
        /\ t \notin {"INDENT", "DEDENT"} => n = depth[Len(tokens)]
    BY <1>2, <1>5
  <2> HIDE DEF n
  <2> QED BY <1>1, <1>4, <1>5, <2>1, DepthsAppend
<1> QED BY <1>1, <1>3, <1>6 DEF Deep

(* A step that emits nothing. *)
LEMMA DeepQuiet ==
  ASSUME Deep, UNCHANGED <<tokens, indentStack>>
  PROVE  Deep'
BY DEF Deep

(* Emitting a token keeps a block keyword on its line. *)
LEMMA KeywordStep ==
  ASSUME TypeInv, KeywordOnLine,
         UNCHANGED <<tokens, blockKeywordSeen>> \/ \E t \in TokenClass : Emit(t)
  PROVE  KeywordOnLine'
<1>1. CASE UNCHANGED <<tokens, blockKeywordSeen>>
  BY <1>1 DEF KeywordOnLine
<1>2. CASE \E t \in TokenClass : Emit(t)
  <2>1. PICK t \in TokenClass : Emit(t)
    BY <1>2
  <2>2. tokens' # <<>> /\ Top(tokens') = t
    <3>1. tokens \in Seq(TokenClass) /\ tokens' = Append(tokens, t)
      BY <2>1 DEF Emit, TypeInv, TypeOK
    <3> QED BY <3>1, TopAppend
  <2>3. blockKeywordSeen' => t \notin {"NEWLINE", "INDENT"}
    BY <2>1 DEF Emit, BlockKeywords
  <2> QED BY <2>2, <2>3 DEF KeywordOnLine
<1> QED BY <1>1, <1>2

(* The switch of scanToken: no level of indentation is opened or closed,   *)
(* and an INDENT is that of a block brace.                                 *)
LEMMA ScanTokenEmits ==
  ASSUME ScanToken
  PROVE  /\ UNCHANGED indentStack /\ mode' = "scan"
         /\ \/ UNCHANGED <<tokens, blockKeywordSeen>>
            \/ \E t \in TokenClass \ {"INDENT", "DEDENT"} : Emit(t)
            \/ blockKeywordSeen /\ Emit("INDENT")
            \/ Emit("DEDENT")
<1>0. ASSUME NEW c, Scan(c)
      PROVE  UNCHANGED indentStack /\ mode' = "scan"
  BY <1>0 DEF Scan, indents, control
<1>1. CASE ScanPastEnd
  BY <1>1 DEF ScanPastEnd, indents, control, output
<1>2. CASE ~ScanPastEnd
  <2>1. \E c : Scan(c)
    BY <1>2 DEF ScanToken, ScanPlain, ScanFunc, ScanNewline, ScanOpenParen, ScanCloseParen,
       ScanOpenBracket, ScanCloseBracket, ScanOpenBlockBrace, ScanOpenLiteralBrace,
       ScanCloseBlockBrace, ScanCloseLiteralBrace, ScanInterpolatedString,
       ScanStringContinuation, ScanError, ScanMalformed
  <2>2. CASE ScanOpenBlockBrace \/ ScanCloseBlockBrace
    BY <1>0, <2>1, <2>2 DEF ScanOpenBlockBrace, ScanCloseBlockBrace
  <2>3. CASE ~ScanOpenBlockBrace /\ ~ScanCloseBlockBrace
    <3>1. \/ UNCHANGED <<tokens, blockKeywordSeen>>
          \/ \E t \in TokenClass \ {"INDENT", "DEDENT"} : Emit(t)
      BY <1>2, <2>3 DEF ScanToken, ScanPlain, ScanFunc, ScanNewline, ScanOpenParen,
         ScanCloseParen, ScanOpenBracket, ScanCloseBracket, ScanOpenLiteralBrace,
         ScanCloseLiteralBrace, ScanInterpolatedString, ScanStringContinuation, ScanError,
         ScanMalformed, TokenClass, Plain, Comments, output
    <3> QED BY <1>0, <2>1, <3>1
  <2> QED BY <2>2, <2>3
<1> QED BY <1>1, <1>2

(* After scanning a token the next line begins behind a NEWLINE token. *)
LEMMA ScanTokenFreshLines ==
  ASSUME TypeInv, ScanToken
  PROVE  FreshLines'
<1>1. CASE ScanNewline
  <2>1. mode' = "scan"
    BY <1>1 DEF ScanNewline, Scan, control
  <2>2. continuationLine' \/ Emit("NEWLINE")
    BY <1>1 DEF ScanNewline
  <2>3. Emit("NEWLINE") => Top(tokens') = "NEWLINE"
    BY TopAppend DEF Emit, TypeInv, TypeOK, TokenClass
  <2> QED BY <2>1, <2>2, <2>3 DEF FreshLines
<1>2. CASE ~ScanNewline
  <2>1. ASSUME NEW c, c # "NEWLINE", Scan(c) PROVE ~freshLine'
    BY <2>1 DEF Scan
  <2>2. ~freshLine'
    <3>1. CASE ScanPastEnd
      BY <3>1 DEF ScanPastEnd
    <3>2. CASE ~ScanPastEnd
      BY <1>2, <2>1, <3>2 DEF ScanToken, ScanPlain, Plain, Comments, ScanFunc, ScanOpenParen,
         ScanCloseParen, ScanOpenBracket, ScanCloseBracket, ScanOpenBlockBrace,
         ScanOpenLiteralBrace, ScanCloseBlockBrace, ScanCloseLiteralBrace,
         ScanInterpolatedString, ScanStringContinuation, ScanError, ScanMalformed
    <3> QED BY <3>1, <3>2
  <2> QED BY <2>2 DEF FreshLines
<1> QED BY <1>1, <1>2

(* Scanning on a line keeps what is known of the layout: no level changes but by braces. *)
LEMMA ScanTokenLayout ==
  ASSUME TypeInv, TypeInv', Balanced', Layout, ScanToken
  PROVE  Layout'
<1>1. /\ UNCHANGED indentStack /\ mode' = "scan"
      /\ \/ UNCHANGED <<tokens, blockKeywordSeen>>
         \/ \E t \in TokenClass \ {"INDENT", "DEDENT"} : Emit(t)
         \/ blockKeywordSeen /\ Emit("INDENT")
         \/ Emit("DEDENT")
  BY ScanTokenEmits
<1>2. {"INDENT", "DEDENT"} \subseteq TokenClass /\ Len(indentStack) \in Nat
  BY LenProperties DEF TokenClass, TypeInv, TypeOK
<1>3. KeywordOnLine'
  <2>1. UNCHANGED <<tokens, blockKeywordSeen>> \/ \E t \in TokenClass : Emit(t)
    BY <1>1, <1>2
  <2> QED BY <2>1, KeywordStep DEF Layout
<1>4. Deep'
  <2>1. CASE UNCHANGED <<tokens, blockKeywordSeen>>
    BY <1>1, <2>1, DeepQuiet DEF Layout
  <2>2. CASE \E t \in TokenClass \ {"INDENT", "DEDENT"} : Emit(t)
    BY <1>1, <2>2, DeepEmit DEF Layout
  <2>3. CASE blockKeywordSeen /\ Emit("INDENT")
    <3>1. tokens # <<>> => Top(tokens) \notin {"NEWLINE", "INDENT"}
      BY <2>3 DEF Layout, KeywordOnLine
    <3> QED BY <1>1, <1>2, <2>3, <3>1, DeepEmit DEF Layout
  <2>4. CASE Emit("DEDENT")
    BY <1>1, <1>2, <2>4, DeepEmit DEF Layout
  <2> QED BY <1>1, <2>1, <2>2, <2>3, <2>4
<1> QED BY <1>1, <1>3, <1>4, ScanTokenFreshLines DEF Layout, Closed

(* At the start of a line the depth behind the new token is that before it, one more or one less.
   *)
LEMMA HandleIndentationLayout ==
  ASSUME TypeInv, TypeInv', Balanced', Layout, HandleIndentation
  PROVE  Layout'
<1> USE DEF control, indents, output, source
<1>1. {"INDENT", "DEDENT"} \subseteq TokenClass /\ Len(indentStack) \in Nat
  BY LenProperties DEF TokenClass, TypeInv, TypeOK
<1>2. CASE IgnoreIndentation \/ RejectIndentation \/ KeepIndentation \/ StartDedent
  <2>1. /\ UNCHANGED <<indentStack, tokens, blockKeywordSeen>> /\ ~freshLine'
        /\ mode' # "done"
    BY <1>2 DEF IgnoreIndentation, RejectIndentation, KeepIndentation, StartDedent, AtIndentation
  <2> QED BY <2>1, DeepQuiet, KeywordStep DEF Layout, FreshLines, Closed
<1>3. CASE EndDedent
  <2>1. /\ UNCHANGED <<indentStack, tokens, blockKeywordSeen, freshLine, continuationLine, next>>
        /\ mode' = "scan"
    BY <1>3 DEF EndDedent
  <2>2. FreshLines'
    BY <2>1 DEF Layout, FreshLines
  <2> QED BY <2>1, <2>2, DeepQuiet, KeywordStep DEF Layout, Closed
<1>4. CASE Indent
  <2>1. /\ Emit("INDENT") /\ ~freshLine' /\ mode' = "scan"
        /\ indentStack' = Append(indentStack, lead.spaces)
        /\ next # "EOF" /\ freshLine /\ ~continuationLine
    BY <1>4 DEF Indent, AtIndentation, Significant, Blank, NeedsIndentation, SkipsIndentation
  <2>2. Len(indentStack') = Len(indentStack) + 1
    BY <2>1, LeadType, AppendProperties DEF TypeInv, TypeOK
  <2>3. tokens # <<>> => Top(tokens) = "NEWLINE"
    BY <2>1 DEF Layout, FreshLines
  <2>4. Deep'
    BY <1>1, <2>1, <2>2, <2>3, DeepEmit DEF Layout
  <2>5. KeywordOnLine'
    BY <1>1, <2>1, KeywordStep DEF Layout
  <2> QED BY <2>1, <2>4, <2>5 DEF Layout, FreshLines, Closed
<1>5. CASE Dedent
  <2>1. /\ Emit("DEDENT") /\ UNCHANGED <<freshLine, mode>> /\ mode = "dedent"
        /\ indentStack' = Pop(indentStack)
    BY <1>5 DEF Dedent
  <2>2. indentStack \in Seq(Nat) /\ indentStack # <<>>
    BY EmptySeq DEF TypeInv, TypeOK, Nesting
  <2>3. Len(indentStack') = Len(indentStack) - 1
    BY <2>1, <2>2, PopType
  <2>4. Deep'
    BY <1>1, <2>1, <2>3, DeepEmit DEF Layout
  <2>5. KeywordOnLine'
    BY <1>1, <2>1, KeywordStep DEF Layout
  <2> QED BY <2>1, <2>4, <2>5 DEF Layout, FreshLines, Closed
<1> QED BY <1>2, <1>3, <1>4, <1>5 DEF HandleIndentation

(* At the end of the file every level is closed, so that the depth behind the last token is zero.
   *)
LEMMA FinishLayout ==
  ASSUME TypeInv, TypeInv', Balanced', Layout, CloseLevel \/ FinishScan
  PROVE  Layout'
<1> USE DEF control, indents, output, source
<1>1. {"INDENT", "DEDENT", "EOF"} \subseteq TokenClass /\ Len(indentStack) \in Nat
  BY LenProperties DEF TokenClass, TypeInv, TypeOK
<1>2. CASE CloseLevel
  <2>1. /\ Emit("DEDENT") /\ mode' = "scan" /\ next' = "EOF"
        /\ indentStack' = Pop(indentStack)
    BY <1>2 DEF CloseLevel, AtEnd
  <2>2. indentStack \in Seq(Nat) /\ indentStack # <<>>
    BY EmptySeq DEF TypeInv, TypeOK, Nesting
  <2>3. Len(indentStack') = Len(indentStack) - 1
    BY <2>1, <2>2, PopType
  <2>4. Deep'
    BY <1>1, <2>1, <2>3, DeepEmit DEF Layout
  <2>5. KeywordOnLine'
    BY <1>1, <2>1, KeywordStep DEF Layout
  <2> QED BY <2>1, <2>4, <2>5 DEF Layout, FreshLines, Closed
<1>3. CASE FinishScan
  <2>1. /\ Emit("EOF") /\ mode' = "done" /\ next' = "EOF" /\ UNCHANGED indentStack
        /\ Len(indentStack) = 1
    BY <1>3 DEF FinishScan, AtEnd
  <2>2. Deep'
    BY <1>1, <2>1, DeepEmit DEF Layout
  <2>3. KeywordOnLine'
    BY <1>1, <2>1, KeywordStep DEF Layout
  <2> QED BY <2>1, <2>2, <2>3 DEF Layout, FreshLines, Closed
<1> QED BY <1>2, <1>3

(***************************************************************************)
(* The pass.  r holds the positions copied in front of p, and a is what it *)
(* owes: the INDENTs in excess of DEDENTs among the tokens left out.       *)
(***************************************************************************)

LeftOut(p, r) == (1 .. p - 1) \ Range(r)

Copied(s, p, r, a) ==
  /\ r \in Seq(Nat) /\ \A k \in DOMAIN r : r[k] \in 1 .. p - 1
  /\ \A j, k \in DOMAIN r : j < k => r[j] < r[k]
  /\ \A x \in LeftOut(p, r) : s[x] \in {"NEWLINE", "INDENT", "DEDENT"}
  /\ Bal(s, LeftOut(p, r)) = a
  /\ \A k \in DOMAIN r : Bal(s, {r[j] : j \in 1 .. k}) >= 0

(* Leaving a token out. *)
LEMMA CopiedDrop ==
  ASSUME NEW s \in Seq(TokenClass), NEW p \in 1 .. Len(s), NEW r, NEW a, Copied(s, p, r, a),
         s[p] \in {"NEWLINE", "INDENT", "DEDENT"}
  PROVE  Copied(s, p + 1, r, a + Weight(s[p]))
<1>1. p \in DOMAIN s /\ p \in Nat /\ p > 0
  BY LenProperties
<1>2. /\ r \in Seq(Nat) /\ \A k \in DOMAIN r : r[k] \in 1 .. p - 1
      /\ \A j, k \in DOMAIN r : j < k => r[j] < r[k]
      /\ \A k \in DOMAIN r : Bal(s, {r[j] : j \in 1 .. k}) >= 0
  BY DEF Copied
<1>3. p \notin Range(r)
  BY <1>1, <1>2 DEF Range
<1>4. LeftOut(p + 1, r) = LeftOut(p, r) \cup {p} /\ p \notin LeftOut(p, r)
  BY <1>1, <1>3 DEF LeftOut
<1>5. Bal(s, LeftOut(p + 1, r)) = a + Weight(s[p])
  BY <1>1, <1>4, BalAdd DEF Copied
<1>6. \A x \in LeftOut(p + 1, r) : s[x] \in {"NEWLINE", "INDENT", "DEDENT"}
  BY <1>4 DEF Copied
<1>7. \A k \in DOMAIN r : r[k] \in 1 .. p + 1 - 1
  BY <1>1, <1>2
<1> QED BY <1>2, <1>5, <1>6, <1>7 DEF Copied

(* Copying the tokens from p to q - 1. *)
LEMMA CopiedRun ==
  ASSUME NEW s \in Seq(TokenClass), NEW p \in 1 .. Len(s), NEW q \in p .. Len(s) + 1,
         NEW r, NEW a \in Nat, Copied(s, p, r, a),
         NEW w \in Seq(Nat), Len(w) = Len(r) + (q - p),
         \A i \in 1 .. Len(r) : w[i] = r[i],
         \A i \in 1 .. q - p : w[Len(r) + i] = p + i - 1,
         \A x \in p .. q - 1 : a <= Bal(s, 1 .. x)
  PROVE  Copied(s, q, w, a)
<1>1. /\ p \in Nat /\ p > 0 /\ q \in Nat /\ p <= q /\ q - p \in Nat
      /\ DOMAIN s = 1 .. Len(s) /\ Len(s) \in Nat
  BY LenProperties
<1>2. /\ r \in Seq(Nat) /\ \A k \in DOMAIN r : r[k] \in 1 .. p - 1
      /\ \A j, k \in DOMAIN r : j < k => r[j] < r[k]
      /\ \A x \in LeftOut(p, r) : s[x] \in {"NEWLINE", "INDENT", "DEDENT"}
      /\ \A k \in DOMAIN r : Bal(s, {r[j] : j \in 1 .. k}) >= 0
      /\ Bal(s, LeftOut(p, r)) = a
  BY DEF Copied
<1>3. PICK n \in Nat, d \in Nat :
        /\ n = Len(r) /\ DOMAIN r = 1 .. n
        /\ d = q - p /\ q = p + d /\ DOMAIN w = 1 .. n + d
        /\ \A i \in 1 .. n : w[i] = r[i]
        /\ \A i \in 1 .. d : w[n + i] = p + i - 1
  <2>1. Len(r) \in Nat /\ DOMAIN r = 1 .. Len(r) /\ DOMAIN w = 1 .. Len(w)
    BY <1>2, LenProperties
  <2>2. q - p \in Nat /\ q = p + (q - p) /\ DOMAIN w = 1 .. Len(r) + (q - p)
    BY <1>1, <2>1
  <2> QED BY <2>1, <2>2
<1>4. \A k \in DOMAIN w :
        /\ k \in Nat /\ k > 0
        /\ \/ k \in 1 .. n /\ w[k] = r[k] /\ k <= n
           \/ \E i \in 1 .. d : k = n + i /\ w[k] = p + i - 1
  <2> TAKE k \in DOMAIN w
  <2>0. k \in 1 .. n + d
    BY <1>3
  <2>1. k \in Nat /\ k > 0 /\ (k \in 1 .. n \/ k - n \in 1 .. d)
    <3>1. k \in Nat /\ k > 0 /\ k <= n + d
      BY <2>0
    <3>2. k > n => k - n \in 1 .. d
      BY <3>1
    <3> QED BY <3>1, <3>2
  <2>2. CASE k \in 1 .. n
    BY <1>3, <2>1, <2>2
  <2>3. CASE k - n \in 1 .. d
    <3>1. w[n + (k - n)] = p + (k - n) - 1
      BY <1>3, <2>3
    <3>2. n + (k - n) = k
      BY <2>1
    <3> QED BY <2>1, <2>3, <3>1, <3>2
  <2> QED BY <2>1, <2>2, <2>3
<1>5. \A k \in DOMAIN w : w[k] \in 1 .. q - 1
  <2> TAKE k \in DOMAIN w
  <2>1. CASE k \in 1 .. n /\ w[k] = r[k]
    <3>1. r[k] \in 1 .. p - 1
      BY <1>2, <1>3, <2>1
    <3> QED BY <1>1, <2>1, <3>1
  <2>2. CASE \E i \in 1 .. d : k = n + i /\ w[k] = p + i - 1
    BY <1>1, <1>3, <2>2
  <2> QED BY <1>4, <2>1, <2>2
<1>6. \A j, k \in DOMAIN w : j < k => w[j] < w[k]
  <2> TAKE j, k \in DOMAIN w
  <2> HAVE j < k
  <2>1. j \in Nat /\ k \in Nat /\ j > 0
    BY <1>4
  <2>2. CASE k \in 1 .. n /\ w[k] = r[k]
    <3>0. j \in 1 .. n
      BY <2>1, <2>2
    <3>1. w[j] = r[j]
      BY <1>3, <3>0
    <3> QED BY <1>2, <1>3, <2>2, <3>0, <3>1
  <2>3. CASE \E i \in 1 .. d : k = n + i /\ w[k] = p + i - 1
    <3>0. PICK i \in 1 .. d : k = n + i /\ w[k] = p + i - 1
      BY <2>3
    <3>1. CASE j \in 1 .. n /\ w[j] = r[j]
      <4>1. w[j] \in 1 .. p - 1
        BY <1>2, <1>3, <3>1
      <4> QED BY <1>1, <3>0, <4>1
    <3>2. CASE \E h \in 1 .. d : j = n + h /\ w[j] = p + h - 1
      BY <1>1, <1>3, <3>0, <3>2
    <3> QED BY <1>4, <3>1, <3>2
  <2> QED BY <1>4, <2>2, <2>3
<1>7. ASSUME NEW m \in 0 .. d, NEW Q,
             \A k : k \in Q <=> k \in DOMAIN w /\ k <= n + m
      PROVE  \A y : y \in {w[j] : j \in Q} <=> y \in Range(r) \/ y \in p .. p + m - 1
  <2>1. ASSUME NEW j \in Q
        PROVE  w[j] \in Range(r) \/ w[j] \in p .. p + m - 1
    <3>0. j \in DOMAIN w /\ j <= n + m
      BY <1>7
    <3>1. CASE j \in 1 .. n /\ w[j] = r[j]
      BY <1>3, <3>1 DEF Range
    <3>2. CASE \E i \in 1 .. d : j = n + i /\ w[j] = p + i - 1
      BY <1>1, <1>3, <3>0, <3>2
    <3> QED BY <1>4, <3>0, <3>1, <3>2
  <2>2. ASSUME NEW j \in DOMAIN r
        PROVE  r[j] \in {w[k] : k \in Q}
    <3>1. j \in DOMAIN w /\ j <= n + m /\ w[j] = r[j]
      BY <1>1, <1>3
    <3>2. j \in Q
      BY <1>7, <3>1
    <3> QED BY <3>1, <3>2
  <2>3. ASSUME NEW y \in p .. p + m - 1
        PROVE  y \in {w[k] : k \in Q}
    <3>1. PICK i \in 1 .. d : i <= m /\ y = p + i - 1
      <4>1. y - p + 1 \in 1 .. d /\ y - p + 1 <= m /\ y = p + (y - p + 1) - 1
        BY <1>1
      <4> QED BY <4>1
    <3>2. n + i \in DOMAIN w /\ n + i <= n + m /\ w[n + i] = y
      <4>1. w[n + i] = p + i - 1
        BY <1>3, <3>1
      <4> QED BY <1>3, <3>1, <4>1
    <3>3. n + i \in Q
      BY <1>7, <3>2
    <3> QED BY <3>2, <3>3
  <2> QED BY <2>1, <2>2, <2>3 DEF Range
<1>8. LeftOut(q, w) = LeftOut(p, r)
  <2>1. d \in 0 .. d /\ \A k : k \in DOMAIN w <=> k \in DOMAIN w /\ k <= n + d
    BY <1>1, <1>3
  <2>2. \A y : y \in {w[j] : j \in DOMAIN w} <=> y \in Range(r) \/ y \in p .. p + d - 1
    BY <1>7, <2>1
  <2>3. p + d - 1 = q - 1 /\ \A y : y \in 1 .. q - 1 <=> y \in 1 .. p - 1 \/ y \in p .. q - 1
    BY <1>1, <1>3
  <2>4. \A y : y \in Range(w) <=> y \in Range(r) \/ y \in p .. q - 1
    BY <2>2, <2>3 DEF Range
  <2>5. \A y \in 1 .. p - 1 : y \notin p .. q - 1
    BY <1>1, <1>3
  <2>6. \A y : y \in LeftOut(q, w) <=> y \in LeftOut(p, r)
    BY <2>3, <2>4, <2>5, Zenon DEF LeftOut
  <2> QED BY <2>6
<1>9. \A k \in DOMAIN w : Bal(s, {w[j] : j \in 1 .. k}) >= 0
  <2> TAKE k \in DOMAIN w
  <2>1. CASE k \in 1 .. n /\ k <= n
    <3>1. \A j \in 1 .. k : w[j] = r[j]
      BY <1>3, <2>1
    <3>2. {w[j] : j \in 1 .. k} = {r[j] : j \in 1 .. k}
      BY <3>1, Zenon
    <3> QED BY <1>2, <1>3, <2>1, <3>2
  <2>2. CASE \E i \in 1 .. d : k = n + i
    <3>1. PICK i \in 1 .. d : k = n + i
      BY <2>2
    <3>2. PICK x \in p .. q - 1 : x = p + i - 1
      <4>1. p + i - 1 \in p .. q - 1
        BY <1>1, <1>3, <3>1
      <4> QED BY <4>1
    <3>3. PICK seen : seen = {w[j] : j \in 1 .. k}
      OBVIOUS
    <3>4. \A y : y \in seen <=> y \in Range(r) \/ y \in p .. x
      <4>1. \A j : j \in 1 .. k <=> j \in DOMAIN w /\ j <= n + i
        BY <1>1, <1>3, <3>1
      <4>2. i \in 0 .. d
        BY <1>1, <3>1
      <4> QED BY <1>7, <3>2, <3>3, <4>1, <4>2
    <3>5. /\ \A y : y \in 1 .. x <=> y \in 1 .. p - 1 \/ y \in p .. x
          /\ \A y \in 1 .. p - 1 : y \notin p .. x
      BY <1>1, <3>2
    <3>6. \A y \in Range(r) : y \in 1 .. p - 1
      BY <1>2 DEF Range
    <3>7. seen \subseteq 1 .. x
      BY <3>4, <3>5, <3>6
    <3>8. (1 .. x) \ seen = LeftOut(p, r)
      <4>1. \A y : y \in (1 .. x) \ seen <=> y \in LeftOut(p, r)
        BY <3>4, <3>5, Zenon DEF LeftOut
      <4> QED BY <4>1
    <3>9. Bal(s, 1 .. x) = Bal(s, seen) + a
      <4>0. PICK all : all = 1 .. x
        OBVIOUS
      <4>1. seen \subseteq all /\ s \in Seq(TokenClass)
        BY <3>7, <4>0
      <4>2. Bal(s, all) = Bal(s, seen) + Bal(s, all \ seen)
        BY ONLY <4>1, BalRest
      <4> QED BY <1>2, <3>8, <4>0, <4>2
    <3>10. a <= Bal(s, 1 .. x) /\ Bal(s, seen) \in Int
      BY BalIsInt
    <3>11. Bal(s, seen) >= 0
      BY <3>9, <3>10
    <3> QED BY <3>3, <3>11
  <2> QED BY <1>4, <2>1, <2>2
<1> QED BY <1>2, <1>5, <1>6, <1>8, <1>9 DEF Copied

(* The pass at p: it owes no more than the levels open behind p - 1.       *)
Fits(s, depth, p, r, a) ==
  /\ p \in 1 .. Len(s) + 1 /\ a \in Nat /\ a <= depth[p - 1]
  /\ Copied(s, p, r, a)

(* Any token but a DEDENT that is owed may be copied. *)
LEMMA FitsCopy ==
  ASSUME NEW s \in Seq(TokenClass), NEW depth, Depths(s, depth),
         NEW p \in 1 .. Len(s), NEW r, NEW a, Fits(s, depth, p, r, a),
         s[p] = "DEDENT" => a = 0
  PROVE  Fits(s, depth, p + 1, Append(r, p), a)
<1>1. /\ a \in Nat /\ a <= depth[p - 1] /\ Copied(s, p, r, a) /\ r \in Seq(Nat)
      /\ p \in Nat /\ p > 0 /\ Len(s) \in Nat
  BY LenProperties DEF Fits, Copied
<1>2. /\ Moves(s, depth, p) /\ depth[p] <= Bal(s, 1 .. p)
      /\ depth[p] \in Nat /\ depth[p - 1] \in Nat
  <2>1. p \in 0 .. Len(s) /\ p - 1 \in 0 .. Len(s)
    BY <1>1
  <2> QED BY <2>1 DEF Depths
<1>3. a <= depth[p]
  BY <1>1, <1>2 DEF Moves
<1>4. a <= Bal(s, 1 .. p)
  BY <1>1, <1>2, <1>3, BalIsInt
<1>5. /\ Append(r, p) \in Seq(Nat) /\ Len(Append(r, p)) = Len(r) + 1 /\ Len(r) \in Nat
      /\ Append(r, p)[Len(r) + 1] = p
      /\ \A i \in 1 .. Len(r) : Append(r, p)[i] = r[i]
  BY <1>1, LenProperties, AppendProperties
<1>6. PICK q \in p .. Len(s) + 1 : q = p + 1
  BY <1>1
<1>7. Copied(s, q, Append(r, p), a)
  <2>1. Len(Append(r, p)) = Len(r) + (q - p)
    BY <1>1, <1>5, <1>6
  <2>2. \A i \in 1 .. q - p : Append(r, p)[Len(r) + i] = p + i - 1
    <3>1. \A i \in 1 .. q - p : i = 1
      BY <1>1, <1>6
    <3>2. Append(r, p)[Len(r) + 1] = p + 1 - 1
      BY <1>1, <1>5
    <3> QED BY <3>1, <3>2
  <2>3. \A x \in p .. q - 1 : a <= Bal(s, 1 .. x)
    <3>1. \A x \in p .. q - 1 : x = p
      BY <1>1, <1>6
    <3> QED BY <1>4, <3>1
  <2> QED BY <1>1, <1>5, <2>1, <2>2, <2>3, CopiedRun
<1> QED BY <1>1, <1>3, <1>6, <1>7 DEF Fits

(* So may a run of tokens that open and close nothing. *)
LEMMA FitsRun ==
  ASSUME NEW s \in Seq(TokenClass), NEW depth, Depths(s, depth),
         NEW p \in 1 .. Len(s), NEW r, NEW a, Fits(s, depth, p, r, a),
         NEW q \in p .. Len(s) + 1, \A x \in p .. q - 1 : s[x] \notin {"INDENT", "DEDENT"},
         NEW f \in Seq(Nat), Len(f) = q - p, \A i \in 1 .. q - p : f[i] = p + i - 1
  PROVE  Fits(s, depth, q, r \o f, a)
<1>1. /\ a \in Nat /\ a <= depth[p - 1] /\ Copied(s, p, r, a) /\ r \in Seq(Nat)
      /\ p \in Nat /\ p > 0 /\ q \in Nat /\ p <= q /\ q <= Len(s) + 1 /\ Len(s) \in Nat
  <2>1. a \in Nat /\ a <= depth[p - 1] /\ Copied(s, p, r, a)
    BY DEF Fits
  <2>2. r \in Seq(Nat)
    BY <2>1 DEF Copied
  <2>3. Len(s) \in Nat
    BY LenProperties
  <2>4. p \in Nat /\ p > 0 /\ q \in Nat /\ p <= q /\ q <= Len(s) + 1
    BY <2>3
  <2> QED BY <2>1, <2>2, <2>3, <2>4
<1>2. ASSUME NEW x \in p - 1 .. q - 1
      PROVE  depth[x] = depth[p - 1] /\ Bal(s, 1 .. x) = Bal(s, 1 .. p - 1)
  <2>1. /\ p - 1 \in 0 .. Len(s) /\ x \in p - 1 .. Len(s)
        /\ \A k \in (p - 1) + 1 .. x : k \in p .. q - 1
    BY <1>1
  <2> QED BY <2>1, QuietRun
<1>3. depth[p - 1] <= Bal(s, 1 .. p - 1) /\ depth[p - 1] \in Nat
  <2>1. p - 1 \in 0 .. Len(s)
    BY <1>1
  <2> QED BY <2>1 DEF Depths
<1>4. a <= Bal(s, 1 .. p - 1) /\ Bal(s, 1 .. p - 1) \in Int
  BY <1>1, <1>3, BalIsInt
<1>5. \A x \in p .. q - 1 : a <= Bal(s, 1 .. x)
  <2> TAKE x \in p .. q - 1
  <2>1. x \in p - 1 .. q - 1
    BY <1>1
  <2> QED BY <1>2, <1>4, <2>1
<1>6. /\ r \o f \in Seq(Nat) /\ Len(r \o f) = Len(r) + (q - p)
      /\ \A i \in 1 .. Len(r) : (r \o f)[i] = r[i]
      /\ \A i \in 1 .. q - p : (r \o f)[Len(r) + i] = f[i]
  <2>1. Len(r) \in Nat /\ q - p \in Nat
    BY <1>1, LenProperties
  <2>2. /\ r \o f \in Seq(Nat) /\ Len(r \o f) = Len(r) + Len(f)
        /\ \A i \in 1 .. Len(r) + Len(f) :
             (r \o f)[i] = IF i <= Len(r) THEN r[i] ELSE f[i - Len(r)]
    BY <1>1, ConcatProperties
  <2>3. ASSUME NEW i \in 1 .. q - p
        PROVE  (r \o f)[Len(r) + i] = f[i]
    <3>1. /\ Len(r) + i \in 1 .. Len(r) + Len(f) /\ ~(Len(r) + i <= Len(r))
          /\ Len(r) + i - Len(r) = i
      BY <2>1
    <3> QED BY <2>2, <3>1
  <2>4. \A i \in 1 .. Len(r) : i \in 1 .. Len(r) + Len(f) /\ i <= Len(r)
    BY <2>1
  <2> QED BY <2>2, <2>3, <2>4
<1>7. Copied(s, q, r \o f, a)
  <2>1. \A i \in 1 .. q - p : (r \o f)[Len(r) + i] = p + i - 1
    BY <1>6
  <2> QED BY <1>1, <1>5, <1>6, <2>1, CopiedRun
<1>8. q \in 1 .. Len(s) + 1 /\ q - 1 \in p - 1 .. q - 1
  BY <1>1
<1> QED BY <1>1, <1>2, <1>7, <1>8 DEF Fits

(* A DEDENT that is owed is left out. *)
LEMMA FitsDedent ==
  ASSUME NEW s \in Seq(TokenClass), NEW depth, Depths(s, depth),
         NEW p \in 1 .. Len(s), NEW r, NEW a, Fits(s, depth, p, r, a),
         s[p] = "DEDENT", a > 0
  PROVE  Fits(s, depth, p + 1, r, a - 1)
<1>1. /\ a \in Nat /\ a <= depth[p - 1] /\ Copied(s, p, r, a)
      /\ p \in Nat /\ p > 0 /\ Len(s) \in Nat
  BY LenProperties DEF Fits
<1>2. Moves(s, depth, p) /\ depth[p] \in Nat /\ depth[p - 1] \in Nat
  BY <1>1 DEF Depths
<1>3. a - 1 \in Nat /\ a - 1 <= depth[p]
  BY <1>1, <1>2 DEF Moves
<1>4. Copied(s, p + 1, r, a + Weight(s[p]))
  BY <1>1, CopiedDrop
<1>5. Weight(s[p]) = -1 /\ a + (-1) = a - 1
  BY <1>1 DEF Weight
<1>6. p + 1 \in 1 .. Len(s) + 1 /\ p + 1 - 1 = p
  BY <1>1
<1> QED BY <1>3, <1>4, <1>5, <1>6 DEF Fits

(* A NEWLINE is left out with the INDENTs behind it: there is at most one, *)
(* and it opens a level.                                                   *)
LEMMA FitsAbsorb ==
  ASSUME NEW s \in Seq(TokenClass), NEW depth, Depths(s, depth),
         NEW p \in 1 .. Len(s), NEW r, NEW a, Fits(s, depth, p, r, a),
         s[p] = "NEWLINE",
         NEW q \in p + 1 .. Len(s) + 1, \A k \in p + 1 .. q - 1 : s[k] = "INDENT"
  PROVE  Fits(s, depth, q, r, a + (q - (p + 1)))
<1>1. /\ a \in Nat /\ a <= depth[p - 1] /\ Copied(s, p, r, a)
      /\ p \in Nat /\ p > 0 /\ Len(s) \in Nat /\ q \in Nat /\ p + 1 <= q /\ q <= Len(s) + 1
  BY LenProperties DEF Fits
<1>2. Moves(s, depth, p) /\ depth[p] \in Nat /\ depth[p - 1] \in Nat
  BY <1>1 DEF Depths
<1>3. depth[p] = depth[p - 1]
  BY <1>2 DEF Moves
<1>4. Copied(s, p + 1, r, a)
  <2>1. Copied(s, p + 1, r, a + Weight(s[p]))
    BY <1>1, CopiedDrop
  <2>2. Weight(s[p]) = 0 /\ a + 0 = a
    BY <1>1 DEF Weight
  <2> QED BY <2>1, <2>2
<1>5. q = p + 1 \/ q = p + 2
  <2> SUFFICES ASSUME q > p + 2 PROVE FALSE
    BY <1>1
  <2>1. p + 1 \in p + 1 .. q - 1 /\ p + 2 \in p + 1 .. q - 1 /\ p + 2 \in 1 .. Len(s)
    BY <1>1
  <2>2. s[p + 1] = "INDENT" /\ s[p + 2] = "INDENT" /\ Moves(s, depth, p + 2)
    BY <2>1 DEF Depths
  <2>3. (p + 2) - 1 = p + 1 /\ p + 2 > 1
    BY <1>1
  <2> QED BY <2>2, <2>3 DEF Moves
<1>6. CASE q = p + 1
  <2>1. a + (q - (p + 1)) = a /\ q \in 1 .. Len(s) + 1 /\ q - 1 = p
    BY <1>1, <1>6
  <2> QED BY <1>1, <1>3, <1>4, <1>6, <2>1 DEF Fits
<1>7. CASE q = p + 2
  <2>1. PICK i \in 1 .. Len(s) : i = p + 1 /\ i > 1 /\ i - 1 = p /\ i + 1 = q /\ s[i] = "INDENT"
    <3>1. p + 1 \in p + 1 .. q - 1
      BY <1>1, <1>7
    <3>2. s[p + 1] = "INDENT" /\ p + 1 \in 1 .. Len(s) /\ p + 1 > 1 /\ p + 1 - 1 = p /\ p + 1 + 1 = q
      BY <1>1, <1>7, <3>1
    <3> QED BY <3>2
  <2>2. depth[i] = depth[p] + 1
    BY <2>1 DEF Depths, Moves
  <2>3. Copied(s, q, r, a + Weight(s[i]))
    BY <1>4, <2>1, CopiedDrop
  <2>4. Weight(s[i]) = 1 /\ a + (q - (p + 1)) = a + 1
    BY <1>1, <1>7, <2>1 DEF Weight
  <2>5. a + 1 \in Nat /\ q \in 1 .. Len(s) + 1 /\ q - 1 = i
    BY <1>1, <1>7, <2>1
  <2>6. a + 1 <= depth[q - 1]
    BY <1>1, <1>2, <1>3, <2>2, <2>5
  <2> QED BY <2>3, <2>4, <2>5, <2>6 DEF Fits
<1> QED BY <1>5, <1>6, <1>7

(***************************************************************************)
(* The steps of the pass.                                                  *)
(***************************************************************************)

(* The positions of a run of tokens of one class. *)
LEMMA AfterRun ==
  ASSUME tokens \in Seq(TokenClass), NEW t, t # "none", NEW p \in 1 .. Len(tokens) + 1
  PROVE  /\ Pass!After(t, p) \in p .. Len(tokens) + 1
         /\ Pass!TokenAt(Pass!After(t, p)) # t
         /\ \A k \in p .. Pass!After(t, p) - 1 : k \in DOMAIN tokens /\ tokens[k] = t
<1>1. Len(tokens) \in Nat /\ DOMAIN tokens = 1 .. Len(tokens)
  BY LenProperties
<1> DEFINE T == {q \in p .. Len(tokens) + 1 : Pass!TokenAt(q) # t}
<1>2. T \in SUBSET Nat /\ T # {}
  <2>1. Len(tokens) + 1 \in p .. Len(tokens) + 1 /\ Len(tokens) + 1 \notin DOMAIN tokens
    BY <1>1
  <2>2. Len(tokens) + 1 \in T
    BY <2>1 DEF Pass!TokenAt
  <2> QED BY <1>1, <2>2
<1>3. PICK x \in T : \A y \in T : x <= y
  BY <1>2, LeastElement
<1>4. /\ x \in p .. Len(tokens) + 1 /\ Pass!TokenAt(x) # t
      /\ \A k \in p .. x - 1 : Pass!TokenAt(k) = t
  <2>1. ASSUME NEW k \in p .. x - 1
        PROVE  Pass!TokenAt(k) = t
    <3>1. k \in p .. Len(tokens) + 1 /\ ~(x <= k)
      BY <1>1, <1>3
    <3> QED BY <1>3, <3>1
  <2> QED BY <1>3, <2>1
<1>5. \E q \in p .. Len(tokens) + 1 :
        Pass!TokenAt(q) # t /\ \A k \in p .. q - 1 : Pass!TokenAt(k) = t
  BY <1>4
<1> DEFINE q == Pass!After(t, p)
<1>6. /\ q \in p .. Len(tokens) + 1 /\ Pass!TokenAt(q) # t
      /\ \A k \in p .. q - 1 : Pass!TokenAt(k) = t
  BY <1>5 DEF Pass!After
<1>7. \A k : Pass!TokenAt(k) = t => k \in DOMAIN tokens /\ tokens[k] = t
  BY DEF Pass!TokenAt
<1> QED BY <1>6, <1>7

Owing ==
  \E depth :
    /\ Depths(tokens, depth) /\ depth[Len(tokens)] = Len(indentStack) - 1
    /\ Fits(tokens, depth, pos, result, absorbedIndents)

(* A NEWLINE and the INDENTs behind it. *)
LEMMA AbsorbFits ==
  ASSUME tokens \in Seq(TokenClass), NEW depth, Depths(tokens, depth),
         NEW p \in 1 .. Len(tokens), NEW r, NEW a, Fits(tokens, depth, p, r, a),
         tokens[p] = "NEWLINE"
  PROVE  LET q == Pass!After("INDENT", p + 1)
         IN  Fits(tokens, depth, q, r, a + (q - (p + 1)))
<1>1. p + 1 \in 1 .. Len(tokens) + 1
  BY LenProperties
<1>2. PICK q : q = Pass!After("INDENT", p + 1)
  OBVIOUS
<1>3. /\ q \in p + 1 .. Len(tokens) + 1
      /\ \A k \in p + 1 .. q - 1 : tokens[k] = "INDENT"
  BY <1>1, <1>2, AfterRun
<1>4. Fits(tokens, depth, q, r, a + (q - (p + 1)))
  BY <1>3, FitsAbsorb
<1> QED BY <1>2, <1>4

(* A pipe and the comments behind it. *)
LEMMA PipeFits ==
  ASSUME tokens \in Seq(TokenClass), NEW depth, Depths(tokens, depth),
         NEW p \in 1 .. Len(tokens), NEW r, NEW a, Fits(tokens, depth, p, r, a),
         tokens[p] = "PIPE"
  PROVE  LET q == Pass!After("COMMENT", p + 1)
         IN  /\ q \in p + 1 .. Len(tokens) + 1
             /\ Fits(tokens, depth, q, r \o Pass!Positions(p, q - 1), a)
<1>1. p + 1 \in 1 .. Len(tokens) + 1 /\ p \in Nat /\ p > 0 /\ Len(tokens) \in Nat
  BY LenProperties
<1>2. PICK q : q = Pass!After("COMMENT", p + 1)
  OBVIOUS
<1>3. /\ q \in p + 1 .. Len(tokens) + 1
      /\ \A k \in p + 1 .. q - 1 : tokens[k] = "COMMENT"
  BY <1>1, <1>2, AfterRun
<1>4. q \in p .. Len(tokens) + 1 /\ q - p \in Nat /\ q - 1 - p + 1 = q - p
  BY <1>1, <1>3
<1>5. \A x \in p .. q - 1 : tokens[x] \notin {"INDENT", "DEDENT"}
  <2>1. \A x \in p .. q - 1 : x = p \/ x \in p + 1 .. q - 1
    BY <1>1, <1>3
  <2> QED BY <1>3, <2>1
<1>6. PICK f : f = Pass!Positions(p, q - 1)
  OBVIOUS
<1>7. f \in Seq(Nat) /\ Len(f) = q - p /\ \A i \in 1 .. q - p : f[i] = p + i - 1
  <2>1. f = [i \in 1 .. q - p |-> p + i - 1]
    BY <1>4, <1>6 DEF Pass!Positions
  <2>2. \A i \in 1 .. q - p : p + i - 1 \in Nat
    BY <1>1, <1>4
  <2>3. f \in [1 .. q - p -> Nat]
    BY <2>1, <2>2
  <2> QED BY <1>4, <2>1, <2>3
<1>8. Fits(tokens, depth, q, r \o f, a)
  BY <1>4, <1>5, <1>7, FitsRun
<1> QED BY <1>2, <1>3, <1>6, <1>8

(* One turn of the loop of the merging pass keeps what is said of its debt, its result and its
   position. *)
LEMMA MergeStep ==
  ASSUME tokens \in Seq(TokenClass), Owing, Pass!MergeNext, UNCHANGED <<tokens, indentStack>>
  PROVE  Owing'
<1>1. PICK depth : /\ Depths(tokens, depth) /\ depth[Len(tokens)] = Len(indentStack) - 1
                   /\ Fits(tokens, depth, pos, result, absorbedIndents)
  BY DEF Owing
<1>2. SUFFICES Fits(tokens, depth, pos', result', absorbedIndents')
  BY <1>1 DEF Owing
<1>3. pos \in 1 .. Len(tokens)
  <2>1. pos <= Len(tokens)
    BY DEF Pass!MergeNext, Pass!AbsorbDedent, Pass!TrailingPipe, Pass!LeadingContinuation,
       Pass!EndOfLine, Pass!CopyToken, Pass!Merging
  <2> QED BY <1>1, <2>1, LenProperties DEF Fits
<1>4. Pass!TokenAt(pos) = tokens[pos]
  BY <1>3, LenProperties DEF Pass!TokenAt
<1>5. CASE Pass!AbsorbDedent
  <2>1. /\ tokens[pos] = "DEDENT" /\ absorbedIndents > 0 /\ absorbedIndents' = absorbedIndents - 1
        /\ pos' = pos + 1 /\ result' = result
    BY <1>4, <1>5 DEF Pass!AbsorbDedent
  <2>2. Fits(tokens, depth, pos + 1, result, absorbedIndents - 1)
    BY <1>1, <1>3, <2>1, FitsDedent
  <2> QED BY <2>1, <2>2
<1>6. CASE Pass!TrailingPipe
  <2>1. PICK line : line = Pass!After("COMMENT", pos + 1)
    OBVIOUS
  <2>2. PICK rest : rest = Pass!After("INDENT", line + 1)
    OBVIOUS
  <2>3. /\ tokens[pos] = "PIPE" /\ result' = result \o Pass!Positions(pos, line - 1)
        /\ \/ /\ Pass!TokenAt(line) = "NEWLINE"
              /\ absorbedIndents' = absorbedIndents + (rest - (line + 1)) /\ pos' = rest
           \/ pos' = line /\ absorbedIndents' = absorbedIndents
    BY <1>4, <1>6, <2>1, <2>2 DEF Pass!TrailingPipe, Pass!Absorb
  <2>4. Fits(tokens, depth, line, result', absorbedIndents) /\ line \in pos + 1 .. Len(tokens) + 1
    BY <1>1, <1>3, <2>1, <2>3, PipeFits
  <2>5. CASE pos' = line /\ absorbedIndents' = absorbedIndents
    BY <2>4, <2>5
  <2>6. CASE /\ Pass!TokenAt(line) = "NEWLINE"
             /\ absorbedIndents' = absorbedIndents + (rest - (line + 1)) /\ pos' = rest
    <3>1. line \in 1 .. Len(tokens) /\ tokens[line] = "NEWLINE"
      BY <2>6, LenProperties DEF Pass!TokenAt
    <3>2. Fits(tokens, depth, rest, result', absorbedIndents + (rest - (line + 1)))
      BY <1>1, <2>2, <2>4, <3>1, AbsorbFits
    <3> QED BY <2>6, <3>2
  <2> QED BY <2>3, <2>5, <2>6
<1>7. CASE Pass!LeadingContinuation
  <2>1. PICK rest : rest = Pass!After("INDENT", pos + 1)
    OBVIOUS
  <2>2. /\ tokens[pos] = "NEWLINE" /\ result' = result /\ pos' = rest
        /\ absorbedIndents' = absorbedIndents + (rest - (pos + 1))
    BY <1>4, <1>7, <2>1 DEF Pass!LeadingContinuation, Pass!Absorb
  <2>3. Fits(tokens, depth, rest, result, absorbedIndents + (rest - (pos + 1)))
    BY <1>1, <1>3, <2>1, <2>2, AbsorbFits
  <2> QED BY <2>2, <2>3
<1>8. CASE Pass!EndOfLine \/ Pass!CopyToken
  <2>1. /\ result' = Append(result, pos) /\ pos' = pos + 1 /\ absorbedIndents' = absorbedIndents
        /\ tokens[pos] = "DEDENT" => absorbedIndents = 0
    BY <1>4, <1>8 DEF Pass!EndOfLine, Pass!CopyToken, Pass!Copy
  <2>2. Fits(tokens, depth, pos + 1, Append(result, pos), absorbedIndents)
    BY <1>1, <1>3, <2>1, FitsCopy
  <2> QED BY <2>1, <2>2
<1> QED BY <1>5, <1>6, <1>7, <1>8 DEF Pass!MergeNext

(***************************************************************************)
(* The tokenizer.                                                          *)
(***************************************************************************)

(* The pass starts when the scanner is done. *)
NotStarted == mode # "done" => pos = 1 /\ result = <<>> /\ absorbedIndents = 0

TokenizerInv ==
  /\ TypeInv /\ Balanced /\ Layout
  /\ NotStarted /\ Owing /\ inPipeChain \in BOOLEAN

(* Nothing is owed before the first token. *)
LEMMA OwingAtStart ==
  ASSUME NEW s \in Seq(TokenClass), NEW depth, Depths(s, depth)
  PROVE  Fits(s, depth, 1, <<>>, 0)
<1>1. /\ <<>> \in Seq(Nat) /\ DOMAIN <<>> = {}
  BY EmptySeq, LenProperties
<1>2. LeftOut(1, <<>>) = {}
  BY DEF LeftOut
<1>3. Bal(s, {}) = 0
  <2>1. In(s, "INDENT", {}) = {} /\ In(s, "DEDENT", {}) = {}
    BY DEF In
  <2>2. Cardinality(In(s, "INDENT", {})) = 0 /\ Cardinality(In(s, "DEDENT", {})) = 0
    BY <2>1, FS_EmptySet, Zenon
  <2> QED BY <2>2 DEF Bal
<1>4. Copied(s, 1, <<>>, 0)
  BY <1>1, <1>2, <1>3 DEF Copied
<1>5. 1 \in 1 .. Len(s) + 1 /\ depth[0] \in Nat
  BY LenProperties DEF Depths
<1> QED BY <1>4, <1>5 DEF Fits

(* Scanner and pass start with nothing emitted, nothing read and nothing owed. *)
LEMMA TokenizerStarts == TokenizerInit => TokenizerInv
<1> SUFFICES ASSUME TokenizerInit PROVE TokenizerInv
  OBVIOUS
<1>1. Init /\ pos = 1 /\ result = <<>> /\ absorbedIndents = 0 /\ inPipeChain = FALSE
  BY DEF TokenizerInit, Pass!MergeInit
<1>2. TypeInv
  BY <1>1, InitTypeInv
<1>3. tokens = <<>> /\ Len(indentStack) = 1 /\ mode = "scan"
  BY <1>1 DEF Init
<1>4. Balance = 0
  <2>1. \A t : Count(t, tokens) = 0
    <3> TAKE t
    <3>1. {i \in DOMAIN tokens : tokens[i] = t} = {}
      BY <1>3, EmptySeq, LenProperties
    <3> QED BY <3>1, FS_EmptySet DEF Count
  <2> QED BY <2>1 DEF Balance
<1>5. Balanced
  BY <1>1, <1>3, <1>4 DEF Balanced, Init
<1>6. Deep
  <2> DEFINE depth == [k \in 0 .. 0 |-> 0]
  <2>1. Len(tokens) = 0 /\ tokens \in Seq(TokenClass)
    BY <1>3, EmptySeq
  <2>2. Bal(tokens, 1 .. 0) = 0
    BY <1>4, <2>1, BalWhole DEF Balance
  <2>3. depth \in [0 .. 0 -> Nat] /\ depth[0] = 0 /\ \A k \in 0 .. 0 : k = 0
    OBVIOUS
  <2>4. Depths(tokens, depth)
    BY <2>1, <2>2, <2>3 DEF Depths
  <2> QED BY <1>3, <2>1, <2>3, <2>4 DEF Deep
<1>7. Layout
  BY <1>1, <1>3, <1>6 DEF Layout, KeywordOnLine, FreshLines, Closed, Init
<1>8. Owing
  BY <1>1, <1>2, <1>6, OwingAtStart DEF TypeInv, TypeOK, Deep, Owing
<1> QED BY <1>1, <1>2, <1>5, <1>7, <1>8 DEF TokenizerInv, NotStarted

(* The scanner scans only until it has put EOF. *)
LEMMA ScanIsNotDone ==
  ASSUME ScanTokens
  PROVE  mode # "done"
<1>1. ASSUME NEW c, Scan(c) PROVE mode # "done"
  BY <1>1 DEF Scan
<1>2. CASE ScanToken
  BY <1>1, <1>2 DEF ScanToken, ScanPlain, ScanFunc, ScanNewline, ScanOpenParen, ScanCloseParen,
     ScanOpenBracket, ScanCloseBracket, ScanOpenBlockBrace, ScanOpenLiteralBrace,
     ScanCloseBlockBrace, ScanCloseLiteralBrace, ScanInterpolatedString,
     ScanStringContinuation, ScanError, ScanMalformed, ScanPastEnd
<1>3. CASE HandleIndentation
  BY <1>3 DEF HandleIndentation, IgnoreIndentation, RejectIndentation, KeepIndentation, Indent,
     StartDedent, AtIndentation, Dedent, EndDedent
<1>4. CASE CloseLevel \/ FinishScan
  BY <1>4 DEF CloseLevel, FinishScan, AtEnd
<1> QED BY <1>2, <1>3, <1>4 DEF ScanTokens

(* While the scanner works the pass has not begun. *)
LEMMA ScanPhaseInv ==
  ASSUME TokenizerInv, ScanPhase
  PROVE  TokenizerInv'
<1>1. ScanTokens /\ UNCHANGED <<pos, result, absorbedIndents, inPipeChain>> /\ mode # "done"
  BY ScanIsNotDone DEF ScanPhase, merge
<1>2. TypeInv /\ Balanced /\ Layout
  BY DEF TokenizerInv
<1>3. TypeInv'
  BY <1>1, <1>2, ScanTokenTypeInv, HandleIndentationTypeInv, FinishTypeInv DEF ScanTokens
<1>4. Balanced'
  BY <1>1, <1>2, <1>3, ScanTokenBalanced, HandleIndentationBalanced, FinishBalanced
     DEF ScanTokens
<1>5. Layout'
  BY <1>1, <1>2, <1>3, <1>4, ScanTokenLayout, HandleIndentationLayout, FinishLayout
     DEF ScanTokens
<1>6. pos' = 1 /\ result' = <<>> /\ absorbedIndents' = 0 /\ inPipeChain' \in BOOLEAN
  BY <1>1 DEF TokenizerInv, NotStarted
<1>7. Owing'
  <2>1. tokens' \in Seq(TokenClass) /\ Deep'
    BY <1>3, <1>5 DEF TypeInv, TypeOK, Layout
  <2> QED BY <1>6, <2>1, OwingAtStart DEF Deep, Owing
<1> QED BY <1>3, <1>4, <1>5, <1>6, <1>7 DEF TokenizerInv, NotStarted

(* While the pass works the token list is that of a finished scanner. *)
LEMMA MergePhaseInv ==
  ASSUME TokenizerInv, MergePhase
  PROVE  TokenizerInv'
<1>1. mode = "done" /\ Pass!MergeNext /\ UNCHANGED vars
  BY DEF MergePhase
<1>2. Owing'
  BY <1>1, MergeStep DEF TokenizerInv, TypeInv, TypeOK, vars, output, indents
<1>3. TypeInv'
  BY <1>1, StutterTypeInv DEF TokenizerInv
<1>4. Balanced' /\ Layout'
  BY <1>1 DEF TokenizerInv, Balanced, Balance, Layout, Deep, KeywordOnLine, FreshLines, Closed,
     vars, source, control, indents, brackets, output
<1>5. inPipeChain' \in BOOLEAN /\ mode' = "done"
  BY <1>1 DEF TokenizerInv, vars, control, Pass!MergeNext, Pass!AbsorbDedent, Pass!TrailingPipe,
     Pass!LeadingContinuation, Pass!EndOfLine, Pass!CopyToken
<1> QED BY <1>2, <1>3, <1>4, <1>5 DEF TokenizerInv, NotStarted

(* A step that changes nothing keeps the invariant. *)
LEMMA TokenizerStutter ==
  ASSUME TokenizerInv, UNCHANGED <<vars, merge>>
  PROVE  TokenizerInv'
<1>1. UNCHANGED vars /\ UNCHANGED <<pos, result, absorbedIndents, inPipeChain>>
  BY DEF merge
<1>2. TypeInv'
  BY <1>1, StutterTypeInv DEF TokenizerInv
<1>3. Balanced' /\ Layout'
  BY <1>1 DEF TokenizerInv, Balanced, Balance, Layout, Deep, KeywordOnLine, FreshLines, Closed,
     vars, source, control, indents, brackets, output
<1>4. Owing' /\ NotStarted' /\ inPipeChain' \in BOOLEAN
  BY <1>1 DEF TokenizerInv, Owing, NotStarted, vars, control, indents, output
<1> QED BY <1>2, <1>3, <1>4 DEF TokenizerInv

(* Of every file: the tokens are laid out with a depth behind each, and at no point does the pass
   of mergeLineContinuations (lexer.go) owe more DEDENTs than the depth at its position allows. *)
THEOREM TokenizerKeepsItsInvariant == TokenizerSpec => []TokenizerInv
<1>1. TokenizerInv /\ [TokenizerNext]_<<vars, merge>> => TokenizerInv'
  BY ScanPhaseInv, MergePhaseInv, TokenizerStutter DEF TokenizerNext
<1> QED BY TokenizerStarts, <1>1, PTL DEF TokenizerSpec

(* What the pass's own properties say, with the operators of this module. *)
LEMMA PassOperators ==
  ASSUME NEW S, NEW t, t # "none"
  PROVE  /\ Pass!Cardinality(S) = Cardinality(S)
         /\ Pass!Range(S) = Range(S)
         /\ Pass!Holding(t, S) = In(tokens, t, S)
<1>1. Pass!Cardinality(S) = Cardinality(S)
  BY DEF Pass!Cardinality, Cardinality
<1>2. Pass!Range(S) = Range(S)
  BY DEF Pass!Range, Range
<1>3. Pass!Holding(t, S) = In(tokens, t, S)
  BY DEF Pass!Holding, Pass!TokenAt, In
<1> QED BY <1>1, <1>2, <1>3

(* No prefix of the merged list closes a block that it has not opened.     *)
THEOREM ResultOpensFirst == TokenizerSpec => []ResultNeverUnderflows
<1>1. TokenizerInv => ResultNeverUnderflows
  <2> SUFFICES ASSUME TokenizerInv, NEW k \in DOMAIN result, NEW seen,
                      seen = {result[j] : j \in 1 .. k}
               PROVE  Pass!Cardinality(Pass!Holding("DEDENT", seen))
                        <= Pass!Cardinality(Pass!Holding("INDENT", seen))
    BY DEF ResultNeverUnderflows, Pass!ResultNeverUnderflows
  <2>1. Bal(tokens, seen) >= 0
    BY DEF TokenizerInv, Owing, Fits, Copied
  <2>2. \A t : Cardinality(In(tokens, t, seen)) \in Nat
    BY InIsFinite DEF TokenizerInv, TypeInv, TypeOK
  <2>3. Cardinality(In(tokens, "DEDENT", seen)) <= Cardinality(In(tokens, "INDENT", seen))
    BY <2>1, <2>2 DEF Bal
  <2> QED BY <2>3, PassOperators
<1> QED BY TokenizerKeepsItsInvariant, <1>1, PTL

(* At the end as many DEDENTs have been left out as INDENTs. *)
THEOREM NothingIsOwed == TokenizerSpec => []DebtIsPaid
<1>1. TokenizerInv => DebtIsPaid
  <2> SUFFICES ASSUME TokenizerInv, mode = "done", pos > Len(tokens)
               PROVE  /\ absorbedIndents = 0
                      /\ Pass!Cardinality(Pass!Holding("INDENT", Pass!Dropped))
                           = Pass!Cardinality(Pass!Holding("DEDENT", Pass!Dropped))
    BY DEF DebtIsPaid, Pass!DebtIsPaid, Pass!Merged
  <2>1. tokens \in Seq(TokenClass) /\ Len(tokens) \in Nat
    BY LenProperties DEF TokenizerInv, TypeInv, TypeOK
  <2>2. PICK depth : /\ depth[Len(tokens)] = Len(indentStack) - 1
                     /\ Fits(tokens, depth, pos, result, absorbedIndents)
    BY DEF TokenizerInv, Owing
  <2>3. pos - 1 = Len(tokens)
    BY <2>1, <2>2 DEF Fits
  <2>4. Len(indentStack) = 1
    BY DEF TokenizerInv, Layout, Closed
  <2>5. absorbedIndents = 0
    BY <2>2, <2>3, <2>4 DEF Fits
  <2>6. Pass!Dropped = LeftOut(pos, result)
    BY PassOperators DEF Pass!Dropped, LeftOut
  <2>7. Bal(tokens, LeftOut(pos, result)) = 0
    BY <2>2, <2>5 DEF Fits, Copied
  <2>8. \A t : Cardinality(In(tokens, t, LeftOut(pos, result))) \in Nat
    BY <2>1, InIsFinite
  <2>9. Cardinality(In(tokens, "INDENT", LeftOut(pos, result)))
          = Cardinality(In(tokens, "DEDENT", LeftOut(pos, result)))
    BY <2>7, <2>8 DEF Bal
  <2> QED BY <2>5, <2>6, <2>9, PassOperators
<1> QED BY TokenizerKeepsItsInvariant, <1>1, PTL

(* Only line structure is left out, and nothing is copied twice or out of  *)
(* order.                                                                  *)
THEOREM OnlyLayoutIsDropped == TokenizerSpec => []OnlyLayoutDropped
<1>1. TokenizerInv => OnlyLayoutDropped
  <2> SUFFICES ASSUME TokenizerInv PROVE OnlyLayoutDropped
    OBVIOUS
  <2>1. /\ pos \in 1 .. Len(tokens) + 1
        /\ \A x \in LeftOut(pos, result) : tokens[x] \in {"NEWLINE", "INDENT", "DEDENT"}
        /\ \A j, k \in DOMAIN result : j < k => result[j] < result[k]
    BY DEF TokenizerInv, Owing, Fits, Copied
  <2>2. Pass!Dropped = LeftOut(pos, result)
    BY PassOperators DEF Pass!Dropped, LeftOut
  <2>3. DOMAIN tokens = 1 .. Len(tokens) /\ Len(tokens) \in Nat
    BY LenProperties DEF TokenizerInv, TypeInv, TypeOK
  <2>4. \A x \in LeftOut(pos, result) : x \in DOMAIN tokens
    BY <2>1, <2>3 DEF LeftOut
  <2>5. \A x \in Pass!Dropped : Pass!TokenAt(x) \in {"NEWLINE", "INDENT", "DEDENT"}
    BY <2>1, <2>2, <2>4 DEF Pass!TokenAt
  <2> QED BY <2>1, <2>5 DEF OnlyLayoutDropped, Pass!OnlyLayoutDropped
<1> QED BY TokenizerKeepsItsInvariant, <1>1, PTL

(* The variables of the pass hold values of their types. *)
THEOREM PassTypes == TokenizerSpec => []MergeTypeOK
<1>1. TokenizerInv => MergeTypeOK
  <2> SUFFICES ASSUME TokenizerInv PROVE Pass!MergeTypeOK
    BY DEF MergeTypeOK
  <2>1. /\ pos \in 1 .. Len(tokens) + 1 /\ absorbedIndents \in Nat
        /\ result \in Seq(Nat) /\ \A k \in DOMAIN result : result[k] \in 1 .. pos - 1
    BY DEF TokenizerInv, Owing, Fits, Copied
  <2>2. Len(tokens) \in Nat /\ Len(result) \in Nat /\ DOMAIN result = 1 .. Len(result)
    BY <2>1, LenProperties DEF TokenizerInv, TypeInv, TypeOK
  <2>3. \A k \in 1 .. Len(result) : result[k] \in 1 .. Len(tokens)
    BY <2>1, <2>2
  <2>4. result \in Seq(1 .. Len(tokens))
    BY <2>1, <2>2, <2>3
  <2> QED BY <2>1, <2>4 DEF TokenizerInv, Pass!MergeTypeOK
<1> QED BY TokenizerKeepsItsInvariant, <1>1, PTL
=============================================================================
