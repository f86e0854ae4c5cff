---------------------------- MODULE LexerProofs ----------------------------
(***************************************************************************)
(* Proofs about the scanner, for every set of lexemes, every indentation   *)
(* and sources of every length.                                            *)
(***************************************************************************)
EXTENDS Lexer, FiniteSetTheorems, SequenceTheorems, WellFoundedInduction, TLAPS

(***************************************************************************)
(* What appending and popping do to a count.                               *)
(***************************************************************************)

(* The positions a count counts are finitely many. *)
LEMMA CountIsNat ==
  ASSUME NEW S, NEW s \in Seq(S), NEW t
  PROVE  /\ IsFiniteSet({i \in DOMAIN s : s[i] = t})
         /\ Count(t, s) \in Nat
<1>1. IsFiniteSet(1 .. Len(s))
  BY FS_Interval, LenProperties
<1>2. {i \in DOMAIN s : s[i] = t} \subseteq 1 .. Len(s)
  BY LenProperties
<1> QED BY <1>1, <1>2, FS_Subset, FS_CardinalityType DEF Count

(* Emitting a token changes the count of its class alone. *)
LEMMA CountAppend ==
  ASSUME NEW S, NEW s \in Seq(S), NEW e \in S, NEW t
  PROVE  Count(t, Append(s, e)) = Count(t, s) + (IF e = t THEN 1 ELSE 0)
<1> DEFINE P == {i \in DOMAIN s : s[i] = t}
           Q == {i \in DOMAIN Append(s, e) : Append(s, e)[i] = t}
<1>1. Len(s) \in Nat /\ DOMAIN s = 1 .. Len(s)
  BY LenProperties
<1>2. DOMAIN Append(s, e) = 1 .. Len(s) + 1
  BY AppendProperties
<1>3. Q = IF e = t THEN P \cup {Len(s) + 1} ELSE P
  BY <1>1, <1>2, AppendProperties
<1>4. Len(s) + 1 \notin P
  BY <1>1
<1>5. IsFiniteSet(P)
  BY CountIsNat
<1>6. Cardinality(P \cup {Len(s) + 1}) = Cardinality(P) + 1
  BY <1>4, <1>5, FS_AddElement
<1>7. Count(t, s) = Cardinality(P) /\ Count(t, Append(s, e)) = Cardinality(Q)
  BY DEF Count
<1>8. Count(t, s) \in Nat
  BY CountIsNat
<1> HIDE DEF P, Q
<1> QED BY <1>3, <1>6, <1>7, <1>8

(* Popping takes the last element out of the count. *)
LEMMA CountPop ==
  ASSUME NEW S, NEW s \in Seq(S), s # <<>>, NEW t
  PROVE  Count(t, Pop(s)) = Count(t, s) - (IF Top(s) = t THEN 1 ELSE 0)
<1>1. Len(s) \in Nat /\ Len(s) > 0 /\ Top(s) \in S
  BY EmptySeq, LenProperties, ElementOfSeq DEF Top
<1>2. Pop(s) \in Seq(S)
  BY <1>1 DEF Pop
<1>3. s = Append(Pop(s), Top(s))
  BY <1>1, <1>2 DEF Pop, Top
<1>4. Count(t, Append(Pop(s), Top(s))) = Count(t, Pop(s)) + (IF Top(s) = t THEN 1 ELSE 0)
  BY <1>1, <1>2, CountAppend
<1>5. Count(t, s) = Count(t, Append(Pop(s), Top(s)))
  BY <1>3
<1>6. Count(t, Pop(s)) \in Nat
  BY <1>2, CountIsNat
<1> QED BY <1>4, <1>5, <1>6

(***************************************************************************)
(* Types.  The stacks that are popped are not empty, which needs two facts *)
(* beyond TypeOK: the closure stacks have one length, and the block brace  *)
(* on top of braceStack is counted in braceBlockDepth.                     *)
(***************************************************************************)

Nesting ==
  /\ Len(indentStack) > 0
  /\ Len(closureIndentStack) = Len(closureParenDepthStack)
  /\ braceBlockDepth = Count("block", braceStack)

TypeInv == TypeOK /\ Nesting

(* What addTokenWithLexeme leaves behind. *)
LEMMA EmitType ==
  ASSUME TypeOK, NEW t \in TokenClass, Emit(t)
  PROVE  /\ tokens' \in Seq(TokenClass)
         /\ afterFatArrow' \in BOOLEAN /\ blockKeywordSeen' \in BOOLEAN
<1>1. tokens' \in Seq(TokenClass)
  BY AppendProperties DEF TypeOK, Emit
<1>2. afterFatArrow' \in BOOLEAN /\ blockKeywordSeen' \in BOOLEAN
  BY DEF Emit
<1> QED BY <1>1, <1>2

(* What consuming a lexeme leaves behind. *)
LEMMA ScanType ==
  ASSUME TypeOK, NEW c, Scan(c)
  PROVE  /\ lead' \in Leads \cup {NoLead} /\ freshLine' \in BOOLEAN
         /\ next' \in Lexemes \cup {"EOF"} /\ left' \in Nat
         /\ UNCHANGED <<control, indents>>
<1>1. left' \in Nat /\ next' \in Lexemes \cup {"EOF"}
  BY DEF TypeOK, Scan, ReadFrom
<1>2. lead' \in Leads \cup {NoLead} /\ freshLine' \in BOOLEAN /\ UNCHANGED <<control, indents>>
  BY DEF TypeOK, Scan
<1> QED BY <1>1, <1>2

(* The part of TypeInv that most lexemes leave as it is. *)
LEMMA ScanKeepsIndents ==
  ASSUME TypeInv, NEW c, Scan(c)
  PROVE  /\ mode' \in {"scan", "dedent", "done"} /\ target' \in Nat
         /\ indentStack' \in Seq(Nat) /\ Len(indentStack') > 0
         /\ closureIndentStack' \in Seq(Nat) /\ closureParenDepthStack' \in Seq(Nat)
         /\ Len(closureIndentStack') = Len(closureParenDepthStack')
BY ScanType DEF TypeInv, TypeOK, Nesting, control, indents

BracketType ==
  /\ parenDepth \in Nat /\ braceDepth \in Nat /\ braceBlockDepth \in Nat
  /\ braceStack \in Seq({"block", "literal"}) /\ interpStack \in Seq(Nat)
  /\ braceBlockDepth = Count("block", braceStack)

(* A lexeme preserves TypeInv when its own effects are typed. *)
LEMMA ScanInv ==
  ASSUME TypeInv, NEW c, Scan(c), BracketType',
         continuationLine' \in BOOLEAN, errors' \in BOOLEAN,
         inFunctionLiteral' \in BOOLEAN, pendingClosureBlock' \in BOOLEAN,
         afterFatArrow' \in BOOLEAN, blockKeywordSeen' \in BOOLEAN,
         tokens' \in Seq(TokenClass)
  PROVE  TypeInv'
BY ScanType, ScanKeepsIndents DEF TypeInv, TypeOK, Nesting, BracketType

(* Popping leaves a sequence of the same elements. *)
LEMMA PopType ==
  ASSUME NEW S, NEW s \in Seq(S), s # <<>>
  PROVE  /\ Pop(s) \in Seq(S) /\ Len(Pop(s)) = Len(s) - 1
         /\ Top(s) \in S /\ Len(s) \in Nat /\ Len(s) > 0
         /\ \A i \in 1 .. Len(s) - 1 : Pop(s)[i] = s[i]
<1>1. Len(s) \in Nat /\ Len(s) > 0
  BY EmptySeq, LenProperties
<1>2. Top(s) \in S
  BY <1>1, ElementOfSeq DEF Top
<1>3. Pop(s) \in Seq(S)
  BY <1>1 DEF Pop
<1>4. Len(Pop(s)) = Len(s) - 1
  <2>1. \A i \in 1 .. Len(s) - 1 : s[i] \in S
    BY <1>1, ElementOfSeq
  <2>2. PICK n \in Nat : n = Len(s) /\ n > 0
    BY <1>1
  <2>3. Len(Pop(s)) = IF 1 <= n - 1 THEN (n - 1) - 1 + 1 ELSE 0
    BY <2>1, <2>2, SubSeqProperties DEF Pop
  <2>4. (IF 1 <= n - 1 THEN (n - 1) - 1 + 1 ELSE 0) = n - 1
    BY <2>2
  <2> QED BY <2>2, <2>3, <2>4
<1>5. \A i \in 1 .. Len(s) - 1 : Pop(s)[i] = s[i]
  BY <1>1 DEF Pop
<1> QED BY <1>1, <1>2, <1>3, <1>4, <1>5

(* The interpolation counter stays a natural number when a brace opens, and *)
(* when one closes that does not end the interpolation.                    *)
LEMMA CountInterpolationType ==
  ASSUME TypeOK, NEW d \in {1, -1}, CountInterpolation(d), d = -1 => ~EndsInterpolation
  PROVE  interpStack' \in Seq(Nat)
<1>1. CASE interpStack = <<>>
  BY <1>1, EmptySeq DEF CountInterpolation
<1>2. CASE interpStack # <<>>
  <2>0. interpStack \in Seq(Nat)
    BY DEF TypeOK
  <2>1. Len(interpStack) \in 1 .. Len(interpStack) /\ Top(interpStack) \in Nat
    <3>1. Len(interpStack) \in Nat /\ Len(interpStack) > 0 /\ Top(interpStack) \in Nat
      BY <1>2, <2>0, PopType
    <3> QED BY <3>1
  <2>2. Top(interpStack) + d \in Nat
    <3>1. CASE d = 1
      BY <2>1, <3>1
    <3>2. CASE d = -1
      BY <1>2, <2>1, <3>2 DEF EndsInterpolation
    <3> QED BY <3>1, <3>2
  <2>3. interpStack' = [interpStack EXCEPT ![Len(interpStack)] = Top(interpStack) + d]
    BY <1>2 DEF CountInterpolation, Top
  <2> QED BY <2>0, <2>1, <2>2, <2>3, ExceptSeq
<1> QED BY <1>1, <1>2

(* The effect of a lexeme on the brackets is typed. *)
LEMMA BracketsInv ==
  ASSUME TypeInv, ScanToken
  PROVE  BracketType'
<1> USE DEF brackets
<1>0. BracketType
  BY DEF TypeInv, TypeOK, Nesting, BracketType
<1>1. CASE UNCHANGED brackets
  BY <1>0, <1>1 DEF BracketType
<1>2. CASE ScanOpenParen \/ ScanCloseParen \/ ScanOpenBracket \/ ScanCloseBracket
  BY <1>0, <1>2 DEF BracketType, ScanOpenParen, ScanCloseParen, ScanOpenBracket, ScanCloseBracket
<1>3. CASE ScanOpenBlockBrace
  <2>1. interpStack' \in Seq(Nat)
    BY <1>3, CountInterpolationType DEF TypeInv, ScanOpenBlockBrace
  <2>2. Count("block", braceStack') = Count("block", braceStack) + 1 /\ braceStack' \in Seq({"block", "literal"})
    BY <1>0, <1>3, CountAppend, AppendProperties DEF BracketType, ScanOpenBlockBrace
  <2> QED BY <1>0, <1>3, <2>1, <2>2 DEF BracketType, ScanOpenBlockBrace
<1>4. CASE ScanOpenLiteralBrace
  <2>1. interpStack' \in Seq(Nat)
    BY <1>4, CountInterpolationType DEF TypeInv, ScanOpenLiteralBrace
  <2>2. Count("block", braceStack') = Count("block", braceStack) + 0 /\ braceStack' \in Seq({"block", "literal"})
    BY <1>0, <1>4, CountAppend, AppendProperties DEF BracketType, ScanOpenLiteralBrace
  <2> QED BY <1>0, <1>4, <2>1, <2>2 DEF BracketType, ScanOpenLiteralBrace
<1>5. CASE ScanCloseBlockBrace
  <2>1. interpStack' \in Seq(Nat)
    BY <1>5, CountInterpolationType DEF TypeInv, ScanCloseBlockBrace
  <2>2. /\ Count("block", Pop(braceStack)) = Count("block", braceStack) - 1
        /\ Pop(braceStack) \in Seq({"block", "literal"})
    BY <1>0, <1>5, CountPop, PopType DEF BracketType, ScanCloseBlockBrace
  <2>3. Count("block", Pop(braceStack)) \in Nat
    BY <2>2, CountIsNat
  <2> QED BY <1>0, <1>5, <2>1, <2>2, <2>3 DEF BracketType, ScanCloseBlockBrace
<1>6. CASE ScanCloseLiteralBrace
  <2>1. interpStack' \in Seq(Nat)
    BY <1>6, CountInterpolationType DEF TypeInv, ScanCloseLiteralBrace
  <2>2. CASE braceStack = <<>>
    BY <1>0, <1>6, <2>1, <2>2 DEF BracketType, ScanCloseLiteralBrace
  <2>3. CASE braceStack # <<>>
    <3>1. /\ Count("block", Pop(braceStack)) = Count("block", braceStack) - 0
          /\ Pop(braceStack) \in Seq({"block", "literal"})
      BY <1>0, <1>6, <2>3, CountPop, PopType DEF BracketType, ScanCloseLiteralBrace
    <3> QED BY <1>0, <1>6, <2>1, <2>3, <3>1 DEF BracketType, ScanCloseLiteralBrace
  <2> QED BY <2>2, <2>3
<1>7. CASE ScanInterpolatedString
  BY <1>0, <1>7, AppendProperties DEF BracketType, ScanInterpolatedString
<1>8. CASE ScanStringContinuation
  <2>1. interpStack # <<>>
    BY <1>8 DEF ScanStringContinuation, EndsInterpolation
  <2>2. Pop(interpStack) \in Seq(Nat)
    BY <1>0, <2>1, PopType DEF BracketType
  <2> QED BY <1>0, <1>8, <2>2 DEF BracketType, ScanStringContinuation
<1> QED
  BY <1>1, <1>2, <1>3, <1>4, <1>5, <1>6, <1>7, <1>8
  DEF ScanToken, ScanPlain, ScanFunc, ScanNewline, ScanError, ScanMalformed, ScanPastEnd

(* Every case of scanToken's switch preserves TypeInv. *)
LEMMA ScanTokenTypeInv ==
  ASSUME TypeInv, ScanToken
  PROVE  TypeInv'
<1> USE DEF keyword, output
<1>0. TypeOK /\ BracketType'
  BY BracketsInv DEF TypeInv
<1>1. ASSUME LeaveLineStart PROVE continuationLine' \in BOOLEAN
  BY <1>1 DEF LeaveLineStart
<1>2. ASSUME UNCHANGED errors \/ Error PROVE errors' \in BOOLEAN
  BY <1>0, <1>2 DEF TypeOK, Error
<1>3. CASE ScanPlain
  <2>1. PICK c \in Plain \cup Comments \cup {"FAT_ARROW"} :
          /\ Scan(c) /\ Emit(c) /\ LeaveLineStart
          /\ UNCHANGED <<brackets, keyword, errors>>
    BY <1>3 DEF ScanPlain
  <2>2. c \in TokenClass
    BY DEF TokenClass, Plain, Comments
  <2> QED BY <1>0, <1>1, <1>2, <2>1, <2>2, EmitType, ScanInv DEF TypeOK
<1>4. CASE ScanFunc
  <2>1. "FUNC" \in TokenClass
    BY DEF TokenClass
  <2> QED BY <1>0, <1>1, <1>2, <1>4, <2>1, EmitType, ScanInv DEF ScanFunc, TypeOK
<1>5. CASE ScanNewline
  <2>1. "NEWLINE" \in TokenClass
    BY DEF TokenClass
  <2>2. /\ tokens' \in Seq(TokenClass)
        /\ afterFatArrow' \in BOOLEAN /\ blockKeywordSeen' \in BOOLEAN
    BY <1>0, <1>5, <2>1, EmitType DEF ScanNewline, TypeOK
  <2>3. continuationLine' \in BOOLEAN /\ pendingClosureBlock' \in BOOLEAN
    BY <1>5 DEF ScanNewline
  <2> QED BY <1>0, <1>2, <1>5, <2>2, <2>3, ScanInv DEF ScanNewline
<1>6. CASE ScanOpenParen \/ ScanCloseParen \/ ScanOpenBracket \/ ScanCloseBracket
  <2>1. {"LPAREN", "RPAREN", "LBRACKET", "RBRACKET"} \subseteq TokenClass
    BY DEF TokenClass
  <2> QED BY <1>0, <1>1, <1>2, <1>6, <2>1, EmitType, ScanInv
          DEF ScanOpenParen, ScanCloseParen, ScanOpenBracket, ScanCloseBracket, TypeOK
<1>7. CASE ScanOpenBlockBrace \/ ScanOpenLiteralBrace \/ ScanCloseBlockBrace \/ ScanCloseLiteralBrace
  <2>1. {"INDENT", "LBRACE", "DEDENT", "RBRACE"} \subseteq TokenClass
    BY DEF TokenClass
  <2> QED BY <1>0, <1>1, <1>2, <1>7, <2>1, EmitType, ScanInv
          DEF ScanOpenBlockBrace, ScanOpenLiteralBrace, ScanCloseBlockBrace,
              ScanCloseLiteralBrace, TypeOK
<1>8. CASE ScanInterpolatedString \/ ScanStringContinuation
  <2>1. {"STRING_HEAD", "STRING_MID", "STRING_TAIL"} \subseteq TokenClass
    BY DEF TokenClass
  <2> QED BY <1>0, <1>1, <1>2, <1>8, <2>1, EmitType, ScanInv
          DEF ScanInterpolatedString, ScanStringContinuation, TypeOK
<1>9. CASE ScanError \/ ScanMalformed
  <2>1. "OTHER" \in TokenClass
    BY DEF TokenClass, Plain, Comments
  <2> QED BY <1>0, <1>1, <1>2, <1>9, <2>1, EmitType, ScanInv DEF ScanError, ScanMalformed, TypeOK
<1>10. CASE ScanPastEnd
  BY <1>0, <1>1, <1>2, <1>10 DEF ScanPastEnd, TypeInv, TypeOK, Nesting, BracketType,
     control, indents, brackets
<1> QED
  BY <1>3, <1>4, <1>5, <1>6, <1>7, <1>8, <1>9, <1>10 DEF ScanToken

(* The white space of a line is a number of spaces. *)
LEMMA LeadType ==
  ASSUME TypeOK
  PROVE  lead.spaces \in Nat
<1>1. CASE lead \in Leads
  BY <1>1, LexerAssumption
<1>2. CASE lead = NoLead
  BY <1>2 DEF NoLead
<1> QED BY <1>1, <1>2 DEF TypeOK

(* Every step of handleIndentation does. *)
LEMMA HandleIndentationTypeInv ==
  ASSUME TypeInv, HandleIndentation
  PROVE  TypeInv'
<1> USE DEF TypeInv, Nesting, control, indents, brackets, keyword, output, source
<1>1. lead.spaces \in Nat
  BY LeadType
<1>2. {"INDENT", "DEDENT"} \subseteq TokenClass
  BY DEF TokenClass
<1>3. CASE IgnoreIndentation \/ RejectIndentation \/ KeepIndentation
  <2>1. errors' \in BOOLEAN
    BY <1>3 DEF IgnoreIndentation, RejectIndentation, KeepIndentation, TypeOK, Error
  <2>2. AtIndentation /\ UNCHANGED <<control, indents, pendingClosureBlock, output>>
    BY <1>3 DEF IgnoreIndentation, RejectIndentation, KeepIndentation
  <2> QED BY <2>1, <2>2 DEF AtIndentation, TypeOK
<1>4. CASE Indent
  <2>1. /\ indentStack' \in Seq(Nat) /\ Len(indentStack') > 0
    BY <1>1, <1>4, AppendProperties DEF Indent, TypeOK
  <2>2. /\ closureIndentStack' \in Seq(Nat) /\ closureParenDepthStack' \in Seq(Nat)
        /\ Len(closureIndentStack') = Len(closureParenDepthStack')
    <3>1. CASE pendingClosureBlock
      <4>1. /\ closureIndentStack' = Append(closureIndentStack, lead.spaces)
            /\ closureParenDepthStack' = Append(closureParenDepthStack, parenDepth)
        BY <1>4, <3>1 DEF Indent
      <4>2. /\ closureIndentStack \in Seq(Nat) /\ closureParenDepthStack \in Seq(Nat)
            /\ parenDepth \in Nat
        BY DEF TypeOK
      <4>3. /\ closureIndentStack' \in Seq(Nat)
            /\ Len(closureIndentStack') = Len(closureIndentStack) + 1
        BY <1>1, <4>1, <4>2, AppendProperties
      <4>4. /\ closureParenDepthStack' \in Seq(Nat)
            /\ Len(closureParenDepthStack') = Len(closureParenDepthStack) + 1
        BY <4>1, <4>2, AppendProperties
      <4> QED BY <4>3, <4>4
    <3>2. CASE ~pendingClosureBlock
      BY <1>4, <3>2 DEF Indent, TypeOK
    <3> QED BY <3>1, <3>2
  <2>3. /\ tokens' \in Seq(TokenClass)
        /\ afterFatArrow' \in BOOLEAN /\ blockKeywordSeen' \in BOOLEAN
    BY <1>2, <1>4, EmitType DEF Indent
  <2> QED BY <1>4, <2>1, <2>2, <2>3 DEF Indent, AtIndentation, TypeOK
<1>5. CASE StartDedent
  BY <1>1, <1>5 DEF StartDedent, AtIndentation, TypeOK
<1>6. CASE Dedent
  <2>1. /\ indentStack' \in Seq(Nat) /\ Len(indentStack') > 0
    <3>1. indentStack \in Seq(Nat) /\ indentStack # <<>> /\ Len(indentStack) > 1
      BY <1>6, EmptySeq DEF Dedent, TypeOK
    <3> QED BY <1>6, <3>1, PopType DEF Dedent
  <2>2. /\ closureIndentStack' \in Seq(Nat) /\ closureParenDepthStack' \in Seq(Nat)
        /\ Len(closureIndentStack') = Len(closureParenDepthStack')
    <3>1. closureIndentStack # <<>> => closureParenDepthStack # <<>>
      BY EmptySeq DEF TypeOK
    <3>2. CASE UNCHANGED <<closureIndentStack, closureParenDepthStack>>
      BY <3>2 DEF TypeOK
    <3>3. CASE /\ closureIndentStack # <<>>
               /\ closureIndentStack' = Pop(closureIndentStack)
               /\ closureParenDepthStack' = Pop(closureParenDepthStack)
      BY <3>1, <3>3, PopType DEF TypeOK
    <3> QED BY <1>6, <3>2, <3>3 DEF Dedent
  <2> QED BY <1>2, <1>6, <2>1, <2>2, EmitType DEF Dedent, TypeOK
<1>7. CASE EndDedent
  BY <1>7 DEF EndDedent, TypeOK
<1> QED BY <1>3, <1>4, <1>5, <1>6, <1>7 DEF HandleIndentation

(* The steps of ScanTokens after the loop do. *)
LEMMA FinishTypeInv ==
  ASSUME TypeInv, CloseLevel \/ FinishScan
  PROVE  TypeInv'
<1> USE DEF TypeInv, Nesting, control, indents, brackets, keyword, source
<1>1. {"DEDENT", "EOF"} \subseteq TokenClass
  BY DEF TokenClass
<1>2. CASE CloseLevel
  <2>1. /\ indentStack' \in Seq(Nat) /\ Len(indentStack') > 0
    <3>1. indentStack \in Seq(Nat) /\ indentStack # <<>> /\ Len(indentStack) > 1
      BY <1>2, EmptySeq DEF CloseLevel, TypeOK
    <3> QED BY <1>2, <3>1, PopType DEF CloseLevel
  <2>2. /\ tokens' \in Seq(TokenClass)
        /\ afterFatArrow' \in BOOLEAN /\ blockKeywordSeen' \in BOOLEAN
    BY <1>1, <1>2, EmitType DEF CloseLevel
  <2> QED BY <1>2, <2>1, <2>2 DEF CloseLevel, TypeOK
<1>3. CASE FinishScan
  <2>1. /\ tokens' \in Seq(TokenClass)
        /\ afterFatArrow' \in BOOLEAN /\ blockKeywordSeen' \in BOOLEAN
    BY <1>1, <1>3, EmitType DEF FinishScan
  <2> QED BY <1>3, <2>1 DEF FinishScan, TypeOK
<1> QED BY <1>2, <1>3

(* A step that changes nothing keeps the types. *)
LEMMA StutterTypeInv ==
  ASSUME TypeInv, UNCHANGED vars
  PROVE  TypeInv'
BY DEF TypeInv, TypeOK, Nesting, vars, source, control, indents, brackets, keyword, output

(* The scanner starts on the first character with the bottom level alone. *)
LEMMA InitTypeInv == Init => TypeInv
<1> SUFFICES ASSUME Init PROVE TypeInv
  OBVIOUS
<1>1. TypeOK
  <2>1. /\ indentStack \in Seq(Nat)
        /\ closureIndentStack \in Seq(Nat) /\ closureParenDepthStack \in Seq(Nat)
        /\ braceStack \in Seq({"block", "literal"}) /\ interpStack \in Seq(Nat)
        /\ tokens \in Seq(TokenClass)
    BY EmptySeq DEF Init
  <2>2. /\ lead \in Leads \cup {NoLead} /\ next \in Lexemes \cup {"EOF"}
        /\ left \in Nat
    BY LexerAssumption DEF Init
  <2> QED BY <2>1, <2>2 DEF Init, TypeOK
<1>2. Count("block", <<>>) = 0
  <2>1. DOMAIN <<>> = {}
    BY EmptySeq, LenProperties
  <2>2. {i \in DOMAIN <<>> : <<>>[i] = "block"} = {}
    BY <2>1
  <2> QED BY <2>2, FS_EmptySet DEF Count
<1>3. Nesting
  BY <1>2, EmptySeq DEF Init, Nesting
<1> QED BY <1>1, <1>3 DEF TypeInv

(* Every field keeps its type: no count goes below zero, and no stack is   *)
(* popped or read while it is empty.                                       *)
THEOREM TypeCorrect == Spec => []TypeInv
<1>1. TypeInv /\ [Next]_vars => TypeInv'
  BY ScanTokenTypeInv, HandleIndentationTypeInv, FinishTypeInv, StutterTypeInv
  DEF Next, ScanTokens, Returned
<1> QED BY InitTypeInv, <1>1, PTL DEF Spec

(* The fields of the scanner (Lexer in lexer.go) hold values of their types. *)
THEOREM TypesPreserved == Spec => []TypeOK
<1>1. TypeInv => TypeOK
  BY DEF TypeInv
<1> QED BY TypeCorrect, <1>1, PTL

(***************************************************************************)
(* INDENT and DEDENT.  Each step emits at most one of them, and opens or   *)
(* closes exactly the level it stands for.                                 *)
(***************************************************************************)

Balanced == Balance = Len(indentStack) - 1 + braceBlockDepth

(* The effect of one token on the balance. *)
LEMMA EmitBalance ==
  ASSUME TypeOK, NEW t \in TokenClass, Emit(t)
  PROVE  Balance' = Balance + (IF t = "INDENT" THEN 1 ELSE IF t = "DEDENT" THEN -1 ELSE 0)
<1>1. tokens \in Seq(TokenClass) /\ tokens' = Append(tokens, t)
  BY DEF TypeOK, Emit
<1>2. Count("INDENT", tokens') = Count("INDENT", tokens) + (IF t = "INDENT" THEN 1 ELSE 0)
  BY <1>1, CountAppend
<1>3. Count("DEDENT", tokens') = Count("DEDENT", tokens) + (IF t = "DEDENT" THEN 1 ELSE 0)
  BY <1>1, CountAppend
<1>4. Count("INDENT", tokens) \in Nat /\ Count("DEDENT", tokens) \in Nat
  BY <1>1, CountIsNat
<1>5. Balance' = Count("INDENT", tokens') - Count("DEDENT", tokens')
  BY DEF Balance
<1> QED BY <1>2, <1>3, <1>4, <1>5 DEF Balance

(* A step that emits nothing, or no structural token, and keeps the levels. *)
LEMMA QuietBalance ==
  ASSUME TypeInv, Balanced, UNCHANGED <<indentStack, braceBlockDepth>>,
         UNCHANGED tokens \/ \E t \in TokenClass \ {"INDENT", "DEDENT"} : Emit(t)
  PROVE  Balanced'
<1>1. CASE UNCHANGED tokens
  BY <1>1 DEF Balanced, Balance
<1>2. CASE \E t \in TokenClass \ {"INDENT", "DEDENT"} : Emit(t)
  <2>1. Balance' = Balance + 0
    BY <1>2, EmitBalance DEF TypeInv
  <2> QED BY <2>1 DEF Balanced, TypeInv, TypeOK
<1> QED BY <1>1, <1>2

(* A step that emits d \in {1, -1} and moves the open levels by d. *)
LEMMA LevelBalance ==
  ASSUME TypeInv, Balanced, NEW t \in {"INDENT", "DEDENT"}, Emit(t),
         Len(indentStack') + braceBlockDepth'
           = Len(indentStack) + braceBlockDepth + (IF t = "INDENT" THEN 1 ELSE -1),
         TypeInv'
  PROVE  Balanced'
<1>1. t \in TokenClass
  BY DEF TokenClass
<1>2. Balance' = Balance + (IF t = "INDENT" THEN 1 ELSE -1)
  BY <1>1, EmitBalance DEF TypeInv
<1>3. /\ Len(indentStack) \in Nat /\ Len(indentStack') \in Nat
      /\ braceBlockDepth \in Nat /\ braceBlockDepth' \in Nat
  BY LenProperties DEF TypeInv, TypeOK
<1> QED BY <1>2, <1>3 DEF Balanced

(* Scanning a token on a line: only braces open or close a block, and each moves both sides alike.
   *)
LEMMA ScanTokenBalanced ==
  ASSUME TypeInv, Balanced, ScanToken, TypeInv'
  PROVE  Balanced'
<1> USE DEF brackets
<1>0. ASSUME NEW c, Scan(c) PROVE UNCHANGED indentStack
  BY <1>0 DEF Scan, indents
<1>1. CASE ScanOpenBlockBrace
  <2>1. /\ Emit("INDENT") /\ UNCHANGED indentStack
        /\ braceBlockDepth' = braceBlockDepth + 1
    BY <1>0, <1>1 DEF ScanOpenBlockBrace
  <2>2. Len(indentStack) \in Nat /\ braceBlockDepth \in Nat
    BY LenProperties DEF TypeInv, TypeOK
  <2> QED BY <2>1, <2>2, LevelBalance
<1>2. CASE ScanCloseBlockBrace
  <2>1. /\ Emit("DEDENT") /\ UNCHANGED indentStack
        /\ braceBlockDepth' = braceBlockDepth - 1
    BY <1>0, <1>2 DEF ScanCloseBlockBrace
  <2>2. Len(indentStack) \in Nat /\ braceBlockDepth \in Nat
    BY LenProperties DEF TypeInv, TypeOK
  <2> QED BY <2>1, <2>2, LevelBalance
<1>3. CASE ~ScanOpenBlockBrace /\ ~ScanCloseBlockBrace
  <2>1. UNCHANGED braceBlockDepth
    BY <1>3 DEF ScanToken, ScanPlain, ScanFunc, ScanNewline, ScanOpenParen, ScanCloseParen,
       ScanOpenBracket, ScanCloseBracket, ScanOpenLiteralBrace, ScanCloseLiteralBrace,
       ScanInterpolatedString, ScanStringContinuation, ScanError, ScanMalformed, ScanPastEnd
  <2>2. UNCHANGED indentStack
    BY <1>0, <1>3 DEF ScanToken, ScanPlain, ScanFunc, ScanNewline, ScanOpenParen, ScanCloseParen,
       ScanOpenBracket, ScanCloseBracket, ScanOpenLiteralBrace, ScanCloseLiteralBrace,
       ScanInterpolatedString, ScanStringContinuation, ScanError, ScanMalformed, ScanPastEnd,
       indents
  <2>3. UNCHANGED tokens \/ \E t \in TokenClass \ {"INDENT", "DEDENT"} : Emit(t)
    BY <1>3 DEF ScanToken, ScanPlain, ScanFunc, ScanNewline, ScanOpenParen, ScanCloseParen,
       ScanOpenBracket, ScanCloseBracket, ScanOpenLiteralBrace, ScanCloseLiteralBrace,
       ScanInterpolatedString, ScanStringContinuation, ScanError, ScanMalformed, ScanPastEnd,
       TokenClass, Plain, Comments, output
  <2> QED BY <2>1, <2>2, <2>3, QuietBalance
<1> QED BY <1>1, <1>2, <1>3

(* The start of a line: every INDENT pushes a level, every DEDENT pops one. *)
LEMMA HandleIndentationBalanced ==
  ASSUME TypeInv, Balanced, HandleIndentation, TypeInv'
  PROVE  Balanced'
<1> USE DEF brackets, indents, output
<1>1. CASE IgnoreIndentation \/ RejectIndentation \/ KeepIndentation \/ StartDedent
  <2>1. UNCHANGED <<indentStack, braceBlockDepth, tokens>>
    BY <1>1 DEF IgnoreIndentation, RejectIndentation, KeepIndentation, StartDedent, AtIndentation
  <2> QED BY <2>1, QuietBalance
<1>2. CASE EndDedent
  <2>1. UNCHANGED <<indentStack, braceBlockDepth, tokens>>
    BY <1>2 DEF EndDedent
  <2> QED BY <2>1, QuietBalance
<1>3. CASE Indent
  <2>1. /\ Emit("INDENT") /\ UNCHANGED braceBlockDepth
        /\ indentStack' = Append(indentStack, lead.spaces)
    BY <1>3 DEF Indent, AtIndentation
  <2>2. Len(indentStack') = Len(indentStack) + 1
    BY <2>1, LeadType, AppendProperties DEF TypeInv, TypeOK
  <2>3. Len(indentStack) \in Nat /\ braceBlockDepth \in Nat
    BY LenProperties DEF TypeInv, TypeOK
  <2> QED BY <2>1, <2>2, <2>3, LevelBalance
<1>4. CASE Dedent
  <2>1. /\ Emit("DEDENT") /\ UNCHANGED braceBlockDepth
        /\ indentStack' = Pop(indentStack)
    BY <1>4 DEF Dedent
  <2>2. indentStack \in Seq(Nat) /\ indentStack # <<>>
    BY EmptySeq DEF TypeInv, TypeOK, Nesting
  <2>3. Len(indentStack') = Len(indentStack) - 1
    BY <2>1, <2>2, PopType
  <2>4. Len(indentStack) \in Nat /\ braceBlockDepth \in Nat
    BY LenProperties DEF TypeInv, TypeOK
  <2> QED BY <2>1, <2>3, <2>4, LevelBalance
<1> QED BY <1>1, <1>2, <1>3, <1>4 DEF HandleIndentation

(* The end of the file: levels left open are closed one DEDENT at a time, before EOF. *)
LEMMA FinishBalanced ==
  ASSUME TypeInv, Balanced, CloseLevel \/ FinishScan, TypeInv'
  PROVE  Balanced'
<1> USE DEF brackets, indents, output
<1>1. CASE CloseLevel
  <2>1. /\ Emit("DEDENT") /\ UNCHANGED braceBlockDepth
        /\ indentStack' = Pop(indentStack)
    BY <1>1 DEF CloseLevel
  <2>2. indentStack \in Seq(Nat) /\ indentStack # <<>>
    BY EmptySeq DEF TypeInv, TypeOK, Nesting
  <2>3. Len(indentStack') = Len(indentStack) - 1
    BY <2>1, <2>2, PopType
  <2>4. Len(indentStack) \in Nat /\ braceBlockDepth \in Nat
    BY LenProperties DEF TypeInv, TypeOK
  <2> QED BY <2>1, <2>3, <2>4, LevelBalance
<1>2. CASE FinishScan
  <2>1. Emit("EOF") /\ UNCHANGED <<indentStack, braceBlockDepth>>
    BY <1>2 DEF FinishScan
  <2>2. "EOF" \in TokenClass \ {"INDENT", "DEDENT"}
    BY DEF TokenClass
  <2> QED BY <2>1, <2>2, QuietBalance
<1> QED BY <1>1, <1>2

(* INDENT and DEDENT balance the open blocks in every state, so no prefix  *)
(* of the token list has a DEDENT too many.                                *)
THEOREM BlocksBalance == Spec => []BlockBalance
<1>1. Init => Balanced
  <2> SUFFICES ASSUME Init PROVE Balanced
    OBVIOUS
  <2>1. DOMAIN <<>> = {}
    BY EmptySeq, LenProperties
  <2>2. \A t : Count(t, tokens) = 0
    <3> TAKE t
    <3>1. {i \in DOMAIN tokens : tokens[i] = t} = {}
      BY <2>1 DEF Init
    <3> QED BY <3>1, FS_EmptySet DEF Count
  <2> QED BY <2>2 DEF Init, Balanced, Balance
<1>2. TypeInv /\ TypeInv' /\ Balanced /\ [Next]_vars => Balanced'
  <2> SUFFICES ASSUME TypeInv, TypeInv', Balanced, [Next]_vars PROVE Balanced'
    OBVIOUS
  <2>1. CASE UNCHANGED vars
    BY <2>1 DEF vars, output, indents, brackets, Balanced, Balance
  <2> QED BY <2>1, ScanTokenBalanced, HandleIndentationBalanced, FinishBalanced
          DEF Next, ScanTokens, Returned
<1>3. TypeInv /\ Balanced => BlockBalance
  BY DEF TypeInv, Nesting, Balanced, BlockBalance
<1> QED BY TypeCorrect, <1>1, <1>2, <1>3, PTL DEF Spec

(***************************************************************************)
(* Levels and closures.                                                    *)
(***************************************************************************)

(* The top of an increasing stack is its largest element, and no other equals it. *)
LEMMA IncreasingTop ==
  ASSUME NEW s \in Seq(Nat), s # <<>>, Increasing(s), NEW i \in DOMAIN s
  PROVE  s[i] <= Top(s) /\ (i < Len(s) => s[i] < Top(s))
<1>1. /\ Len(s) \in Nat /\ Len(s) > 0 /\ DOMAIN s = 1 .. Len(s)
      /\ Len(s) \in DOMAIN s /\ s[i] \in Nat /\ i \in Nat
  BY PopType, LenProperties, ElementOfSeq
<1>2. i = Len(s) \/ i < Len(s)
  BY <1>1
<1>3. i < Len(s) => s[i] < s[Len(s)]
  BY <1>1 DEF Increasing
<1>4. Top(s) = s[Len(s)] /\ Top(s) \in Nat
  BY PopType DEF Top
<1> QED BY <1>1, <1>2, <1>3, <1>4

(* Pushing a level above the top keeps a stack increasing and adds that level alone. *)
LEMMA AppendLevel ==
  ASSUME NEW s \in Seq(Nat), Increasing(s), NEW e \in Nat, s # <<>> => Top(s) < e
  PROVE  /\ Increasing(Append(s, e)) /\ Range(Append(s, e)) = Range(s) \cup {e}
         /\ Append(s, e) \in Seq(Nat)
<1>1. /\ Append(s, e) \in Seq(Nat) /\ Len(s) \in Nat /\ DOMAIN s = 1 .. Len(s)
      /\ DOMAIN Append(s, e) = 1 .. Len(s) + 1
      /\ \A i \in 1 .. Len(s) : Append(s, e)[i] = s[i]
      /\ Append(s, e)[Len(s) + 1] = e
  BY LenProperties, AppendProperties
<1>2. Range(Append(s, e)) = Range(s) \cup {e}
  BY <1>1 DEF Range
<1>3. ASSUME NEW i \in DOMAIN Append(s, e), NEW j \in DOMAIN Append(s, e), i < j
      PROVE  Append(s, e)[i] < Append(s, e)[j]
  <2>1. i \in DOMAIN s
    BY <1>1, <1>3
  <2>2. CASE j \in DOMAIN s
    BY <1>1, <1>3, <2>1, <2>2 DEF Increasing
  <2>3. CASE j = Len(s) + 1
    <3>1. s # <<>>
      BY <1>1, <2>1, EmptySeq
    <3>2. s[i] <= Top(s) /\ s[i] \in Nat /\ Top(s) \in Nat
      BY <1>1, <2>1, <3>1, IncreasingTop, PopType, ElementOfSeq
    <3>3. s[i] < e
      BY <3>1, <3>2
    <3> QED BY <1>1, <2>1, <2>3, <3>3
  <2> QED BY <1>1, <2>2, <2>3
<1> QED BY <1>1, <1>2, <1>3 DEF Increasing

(* Popping an increasing stack takes its top out of its levels, and nothing else. *)
LEMMA PopLevel ==
  ASSUME NEW s \in Seq(Nat), s # <<>>, Increasing(s)
  PROVE  /\ Increasing(Pop(s)) /\ Range(Pop(s)) = Range(s) \ {Top(s)}
         /\ Pop(s) \in Seq(Nat)
<1>1. /\ Pop(s) \in Seq(Nat) /\ Len(s) \in Nat /\ Len(s) > 0 /\ DOMAIN s = 1 .. Len(s)
      /\ Len(Pop(s)) = Len(s) - 1 /\ \A i \in 1 .. Len(s) - 1 : Pop(s)[i] = s[i]
  BY PopType, LenProperties
<1>2. DOMAIN Pop(s) = 1 .. Len(s) - 1
  <2>1. DOMAIN Pop(s) = 1 .. Len(Pop(s))
    BY <1>1, LenProperties
  <2> QED BY <1>1, <2>1
<1>3. Increasing(Pop(s))
  <2> SUFFICES ASSUME NEW i \in DOMAIN Pop(s), NEW j \in DOMAIN Pop(s), i < j
               PROVE  Pop(s)[i] < Pop(s)[j]
    BY DEF Increasing
  <2>1. /\ i \in 1 .. Len(s) - 1 /\ j \in 1 .. Len(s) - 1
        /\ i \in DOMAIN s /\ j \in DOMAIN s
    BY <1>1, <1>2
  <2>2. Pop(s)[i] = s[i] /\ Pop(s)[j] = s[j]
    BY <1>1, <2>1
  <2>3. s[i] < s[j]
    BY <2>1 DEF Increasing
  <2> QED BY <2>2, <2>3
<1>4. \A i \in 1 .. Len(s) - 1 : s[i] # Top(s)
  <2> TAKE i \in 1 .. Len(s) - 1
  <2>1. i \in DOMAIN s /\ i < Len(s)
    BY <1>1
  <2>2. s[i] < Top(s) /\ s[i] \in Nat
    BY <1>1, <2>1, IncreasingTop, ElementOfSeq
  <2> QED BY <2>2
<1>5. Range(Pop(s)) \subseteq Range(s) \ {Top(s)}
  <2> SUFFICES ASSUME NEW i \in 1 .. Len(s) - 1
               PROVE  Pop(s)[i] \in Range(s) \ {Top(s)}
    BY <1>2 DEF Range
  <2>1. Pop(s)[i] = s[i] /\ i \in DOMAIN s
    BY <1>1
  <2> QED BY <1>4, <2>1 DEF Range
<1>6. Range(s) \ {Top(s)} \subseteq Range(Pop(s))
  <2> SUFFICES ASSUME NEW i \in DOMAIN s, s[i] # Top(s)
               PROVE  s[i] \in Range(Pop(s))
    BY DEF Range
  <2>1. i \in 1 .. Len(s) - 1
    BY <1>1 DEF Top
  <2>2. s[i] = Pop(s)[i] /\ i \in DOMAIN Pop(s)
    BY <1>1, <1>2, <2>1
  <2> QED BY <2>2 DEF Range
<1> QED BY <1>1, <1>3, <1>5, <1>6

Levels == IndentLevels /\ ClosureStacks

(* Only indentation moves the levels, and a source never starts again. *)
LEMMA OtherStepsKeepLevels ==
  ASSUME Levels, UNCHANGED indents, next' # "EOF" => next # "EOF"
  PROVE  Levels'
BY DEF Levels, IndentLevels, ClosureStacks, indents

(* The top closure is an open level. *)
LEMMA ClosureBelowTop ==
  ASSUME TypeInv, Levels, next # "EOF", closureIndentStack # <<>>
  PROVE  /\ Top(closureIndentStack) \in Range(indentStack)
         /\ Top(closureIndentStack) <= Top(indentStack)
<1>1. /\ indentStack \in Seq(Nat) /\ indentStack # <<>> /\ closureIndentStack \in Seq(Nat)
  BY EmptySeq DEF TypeInv, TypeOK, Nesting
<1>2. Len(closureIndentStack) \in DOMAIN closureIndentStack
  BY <1>1, PopType, LenProperties
<1>3. Top(closureIndentStack) \in Range(indentStack)
  BY <1>2 DEF Range, Top, Levels, ClosureStacks
<1>4. PICK i \in DOMAIN indentStack : Top(closureIndentStack) = indentStack[i]
  BY <1>3 DEF Range
<1> QED BY <1>1, <1>3, <1>4, IncreasingTop DEF Levels, IndentLevels

(* INDENT pushes a column above the current one, and the body of a closure that waited for it. *)
LEMMA IndentKeepsLevels ==
  ASSUME TypeInv, Levels, Indent
  PROVE  Levels'
<1> DEFINE e == lead.spaces
<1>1. /\ indentStack \in Seq(Nat) /\ indentStack # <<>> /\ closureIndentStack \in Seq(Nat)
      /\ e \in Nat /\ Len(indentStack) \in Nat /\ Len(indentStack) > 0
  BY EmptySeq, LeadType, LenProperties DEF TypeInv, TypeOK, Nesting
<1>2. /\ indentStack' = Append(indentStack, e) /\ e > Top(indentStack) /\ e % 4 = 0
      /\ ~pendingClosureBlock => e = Top(indentStack) + 4
      /\ next # "EOF"
  BY DEF Indent, LegalIndent, Significant, Blank
<1>3. Top(indentStack) \in Nat
  BY <1>1, PopType
<1>4. /\ Increasing(indentStack') /\ Range(indentStack') = Range(indentStack) \cup {e}
      /\ DOMAIN indentStack' = 1 .. Len(indentStack) + 1
      /\ Len(indentStack') = Len(indentStack) + 1
      /\ \A i \in 1 .. Len(indentStack) : indentStack'[i] = indentStack[i]
      /\ indentStack'[Len(indentStack) + 1] = e
  BY <1>1, <1>2, <1>3, AppendLevel, AppendProperties, LenProperties DEF Levels, IndentLevels
<1>5. /\ Increasing(closureIndentStack')
      /\ Range(closureIndentStack') = Range(closureIndentStack)
                                        \cup (IF pendingClosureBlock THEN {e} ELSE {})
      /\ Len(closureIndentStack') = Len(closureParenDepthStack')
  <2>1. CASE pendingClosureBlock
    <3>1. closureIndentStack' = Append(closureIndentStack, e)
      BY <2>1 DEF Indent
    <3>2. closureIndentStack # <<>> => Top(closureIndentStack) < e
      <4> SUFFICES ASSUME closureIndentStack # <<>> PROVE Top(closureIndentStack) < e
        OBVIOUS
      <4>1. Top(closureIndentStack) <= Top(indentStack) /\ Top(closureIndentStack) \in Nat
        BY <1>1, <1>2, ClosureBelowTop, PopType
      <4> QED BY <1>1, <1>2, <1>3, <4>1
    <3>3. /\ Increasing(closureIndentStack')
          /\ Range(closureIndentStack') = Range(closureIndentStack) \cup {e}
      BY <1>1, <3>1, <3>2, AppendLevel DEF Levels, ClosureStacks
    <3>4. Len(closureIndentStack') = Len(closureParenDepthStack')
      <4>1. closureParenDepthStack' = Append(closureParenDepthStack, parenDepth)
        BY <2>1 DEF Indent
      <4>2. Len(closureIndentStack') = Len(closureIndentStack) + 1
        BY <1>1, <3>1, AppendProperties
      <4>3. Len(closureParenDepthStack') = Len(closureParenDepthStack) + 1
        BY <4>1, AppendProperties DEF TypeInv, TypeOK
      <4> QED BY <4>2, <4>3 DEF Levels, ClosureStacks
    <3> QED BY <2>1, <3>3, <3>4
  <2>2. CASE ~pendingClosureBlock
    <3>1. UNCHANGED <<closureIndentStack, closureParenDepthStack>>
      BY <2>2 DEF Indent
    <3> QED BY <2>2, <3>1 DEF Levels, ClosureStacks
  <2> QED BY <2>1, <2>2
<1>6. Range(closureIndentStack') \subseteq Range(indentStack') \ {0}
  <2>1. e # 0
    BY <1>1, <1>2, <1>3
  <2> QED BY <1>2, <1>4, <1>5, <2>1 DEF Levels, ClosureStacks
<1>7. \A i \in DOMAIN indentStack' : indentStack'[i] % 4 = 0
  <2>1. \A i \in 1 .. Len(indentStack) : indentStack[i] % 4 = 0
    BY <1>1, LenProperties DEF Levels, IndentLevels
  <2> HIDE DEF e
  <2> QED BY <1>1, <1>2, <1>4, <2>1
<1>8. ASSUME NEW i \in 2 .. Len(indentStack'), indentStack'[i] # indentStack'[i - 1] + 4
      PROVE  indentStack'[i] \in Range(closureIndentStack')
  <2>1. CASE i = Len(indentStack) + 1
    <3>1. indentStack'[i - 1] = Top(indentStack) /\ indentStack'[i] = e
      BY <1>1, <1>4, <2>1 DEF Top
    <3> QED BY <1>2, <1>5, <1>8, <3>1
  <2>2. CASE i # Len(indentStack) + 1
    <3>1. i \in 2 .. Len(indentStack) /\ i - 1 \in 1 .. Len(indentStack) /\ i \in 1 .. Len(indentStack)
      BY <1>1, <1>4, <2>2
    <3>2. indentStack'[i] = indentStack[i] /\ indentStack'[i - 1] = indentStack[i - 1]
      BY <1>4, <3>1
    <3> QED BY <1>2, <1>5, <1>8, <3>1, <3>2 DEF Levels, IndentLevels
  <2> QED BY <2>1, <2>2
<1>9. Len(indentStack') > 0 /\ indentStack'[1] = 0
  BY <1>1, <1>4 DEF Levels, IndentLevels
<1> QED BY <1>4, <1>5, <1>6, <1>7, <1>8, <1>9 DEF Levels, IndentLevels, ClosureStacks

(* Popping a level leaves what lies below it. *)
LEMMA PoppedLevels ==
  ASSUME TypeInv, Levels, Len(indentStack) > 1, indentStack' = Pop(indentStack)
  PROVE  /\ Increasing(indentStack') /\ Len(indentStack') = Len(indentStack) - 1
         /\ Len(indentStack) \in Nat /\ DOMAIN indentStack' = 1 .. Len(indentStack) - 1
         /\ \A i \in 1 .. Len(indentStack) - 1 : indentStack'[i] = indentStack[i]
         /\ Range(indentStack') = Range(indentStack) \ {Top(indentStack)}
         /\ indentStack'[1] = 0 /\ \A i \in DOMAIN indentStack' : indentStack'[i] % 4 = 0
<1>1. indentStack \in Seq(Nat) /\ indentStack # <<>> /\ Increasing(indentStack)
  BY EmptySeq DEF TypeInv, TypeOK, Nesting, Levels, IndentLevels
<1>2. /\ Increasing(indentStack') /\ Range(indentStack') = Range(indentStack) \ {Top(indentStack)}
      /\ indentStack' \in Seq(Nat)
  BY <1>1, PopLevel
<1>3. /\ Len(indentStack') = Len(indentStack) - 1 /\ Len(indentStack) \in Nat
      /\ \A i \in 1 .. Len(indentStack) - 1 : indentStack'[i] = indentStack[i]
  BY <1>1, PopType
<1>4. DOMAIN indentStack' = 1 .. Len(indentStack) - 1 /\ DOMAIN indentStack = 1 .. Len(indentStack)
  <2>1. DOMAIN indentStack' = 1 .. Len(indentStack')
    BY <1>2, LenProperties
  <2> QED BY <1>1, <1>3, <2>1, LenProperties
<1>5. indentStack'[1] = 0
  BY <1>3 DEF Levels, IndentLevels
<1>6. \A i \in DOMAIN indentStack' : indentStack'[i] % 4 = 0
  <2> TAKE i \in DOMAIN indentStack'
  <2>1. indentStack'[i] = indentStack[i] /\ i \in DOMAIN indentStack
    BY <1>3, <1>4
  <2>2. indentStack[i] % 4 = 0
    BY <2>1 DEF Levels, IndentLevels
  <2> QED BY <2>1, <2>2
<1> QED BY <1>2, <1>3, <1>4, <1>5, <1>6

(* The DEDENT loop leaves a level and pops a closure exactly when the level was its body's. *)
LEMMA DedentKeepsLevels ==
  ASSUME TypeInv, Levels, Dedent
  PROVE  Levels'
<1> DEFINE n == Len(indentStack)
           outer == indentStack[n - 1]
           closes == closureIndentStack # <<>> /\ outer < Top(closureIndentStack)
<1>1. /\ n > 1 /\ indentStack' = Pop(indentStack) /\ UNCHANGED next
      /\ closureIndentStack' = IF closes THEN Pop(closureIndentStack) ELSE closureIndentStack
      /\ closureParenDepthStack' =
           IF closes THEN Pop(closureParenDepthStack) ELSE closureParenDepthStack
  BY DEF Dedent, source
<1>2. /\ indentStack \in Seq(Nat) /\ indentStack # <<>> /\ Increasing(indentStack)
      /\ closureIndentStack \in Seq(Nat) /\ closureParenDepthStack \in Seq(Nat)
      /\ Increasing(closureIndentStack)
      /\ Len(closureIndentStack) = Len(closureParenDepthStack)
  BY EmptySeq DEF TypeInv, TypeOK, Nesting, Levels, IndentLevels, ClosureStacks
<1>3. /\ n \in Nat /\ n - 1 \in DOMAIN indentStack /\ outer \in Nat
      /\ outer < Top(indentStack) /\ Top(indentStack) \in Nat
  <2>1. n \in Nat /\ n - 1 \in DOMAIN indentStack /\ n - 1 < n
    BY <1>1, <1>2, LenProperties
  <2>2. outer \in Nat /\ Top(indentStack) \in Nat
    BY <1>2, <2>1, ElementOfSeq, LenProperties, PopType
  <2> QED BY <1>2, <2>1, <2>2, IncreasingTop
<1>4. \A v \in Range(indentStack) : v \in Nat /\ (v # Top(indentStack) => v <= outer)
  <2> SUFFICES ASSUME NEW i \in DOMAIN indentStack
               PROVE  /\ indentStack[i] \in Nat
                      /\ indentStack[i] # Top(indentStack) => indentStack[i] <= outer
    BY DEF Range
  <2>1. indentStack[i] \in Nat /\ i \in 1 .. n
    BY <1>2, ElementOfSeq, LenProperties
  <2>2. CASE i = n
    BY <2>1, <2>2 DEF Top
  <2>3. CASE i = n - 1
    BY <2>1, <2>3
  <2>4. CASE i < n - 1
    BY <1>2, <1>3, <2>1, <2>4 DEF Increasing
  <2> QED BY <1>3, <2>1, <2>2, <2>3, <2>4
<1>5. Increasing(closureIndentStack') /\ Len(closureIndentStack') = Len(closureParenDepthStack')
  <2>1. CASE closes
    <3>1. closureParenDepthStack # <<>>
      BY <1>2, <2>1, EmptySeq
    <3> QED BY <1>1, <1>2, <2>1, <3>1, PopLevel, PopType
  <2>2. CASE ~closes
    BY <1>1, <1>2, <2>2
  <2> QED BY <2>1, <2>2
<1>6. ASSUME next # "EOF"
      PROVE  Range(closureIndentStack') = Range(closureIndentStack) \ {Top(indentStack)}
  <2>1. CASE closes
    <3>1. Top(closureIndentStack) \in Range(indentStack) /\ Top(closureIndentStack) > outer
      BY <1>6, <2>1, ClosureBelowTop
    <3>2. Top(closureIndentStack) = Top(indentStack)
      BY <1>3, <1>4, <3>1
    <3> QED BY <1>1, <1>2, <2>1, <3>2, PopLevel
  <2>2. CASE ~closes
    <3>1. ASSUME NEW k \in DOMAIN closureIndentStack
          PROVE  closureIndentStack[k] # Top(indentStack)
      <4>1. closureIndentStack # <<>> /\ closureIndentStack[k] \in Nat
        BY <1>2, EmptySeq, LenProperties, ElementOfSeq
      <4>2. closureIndentStack[k] <= Top(closureIndentStack) /\ Top(closureIndentStack) \in Nat
        BY <1>2, <4>1, IncreasingTop, PopType
      <4> QED BY <1>3, <2>2, <4>1, <4>2
    <3> QED BY <1>1, <2>2, <3>1 DEF Range
  <2> QED BY <2>1, <2>2
<1>7. next # "EOF" => Range(closureIndentStack') \subseteq Range(indentStack') \ {0}
  BY <1>1, <1>6, PoppedLevels DEF Levels, ClosureStacks
<1>8. ASSUME next # "EOF", NEW i \in 2 .. Len(indentStack'),
             indentStack'[i] # indentStack'[i - 1] + 4
      PROVE  indentStack'[i] \in Range(closureIndentStack')
  <2>1. /\ i \in 2 .. n /\ i \in DOMAIN indentStack'
        /\ indentStack'[i] = indentStack[i] /\ indentStack'[i - 1] = indentStack[i - 1]
    BY <1>1, <1>8, PoppedLevels
  <2>2. indentStack[i] \in Range(closureIndentStack)
    BY <1>8, <2>1 DEF Levels, IndentLevels
  <2>3. indentStack'[i] # Top(indentStack)
    BY <1>1, <2>1, PoppedLevels DEF Range
  <2> QED BY <1>6, <1>8, <2>1, <2>2, <2>3
<1>9. Len(indentStack') > 0
  BY <1>1, <1>3, PoppedLevels
<1> QED BY <1>1, <1>5, <1>7, <1>8, <1>9, PoppedLevels DEF Levels, IndentLevels, ClosureStacks

(* At the end of the file, levels are left from the top down, and closures with them. *)
LEMMA CloseKeepsLevels ==
  ASSUME TypeInv, Levels, CloseLevel
  PROVE  Levels'
<1>1. /\ Len(indentStack) > 1 /\ indentStack' = Pop(indentStack) /\ next' = "EOF"
      /\ UNCHANGED <<closureIndentStack, closureParenDepthStack>>
  BY DEF CloseLevel, AtEnd, source
<1>2. Len(indentStack') > 0
  BY <1>1, PoppedLevels
<1> QED BY <1>1, <1>2, PoppedLevels DEF Levels, IndentLevels, ClosureStacks

(* The steps that are not Indent, Dedent or CloseLevel keep every level. *)
LEMMA ScanTokenKeepsIndents ==
  ASSUME ScanToken
  PROVE  UNCHANGED indents /\ (next' # "EOF" => next # "EOF")
<1>1. ASSUME NEW c, c # "EOF", Scan(c)
      PROVE  UNCHANGED indents /\ next # "EOF"
  BY <1>1 DEF Scan
<1>2. CASE ScanPastEnd
  BY <1>2 DEF ScanPastEnd
<1>3. CASE ~ScanPastEnd
  BY <1>1, <1>3 DEF ScanToken, ScanPlain, Plain, Comments, ScanFunc, ScanNewline, ScanOpenParen,
     ScanCloseParen, ScanOpenBracket, ScanCloseBracket, ScanOpenBlockBrace,
     ScanOpenLiteralBrace, ScanCloseBlockBrace, ScanCloseLiteralBrace,
     ScanInterpolatedString, ScanStringContinuation, ScanError, ScanMalformed
<1> QED BY <1>2, <1>3

(* The levels are legal, and each open closure is one of them, whatever    *)
(* the file and whatever lines were rejected.                              *)
THEOREM LevelsAreLegal == Spec => [](IndentLevels /\ ClosureStacks)
<1>1. Init => Levels
  BY EmptySeq DEF Init, Levels, IndentLevels, ClosureStacks, Increasing, Range
<1>2. TypeInv /\ Levels /\ [Next]_vars => Levels'
  <2> SUFFICES ASSUME TypeInv, Levels, [Next]_vars PROVE Levels'
    OBVIOUS
  <2>1. CASE UNCHANGED vars
    BY <2>1, OtherStepsKeepLevels DEF vars, source
  <2>2. CASE ScanToken
    BY <2>2, ScanTokenKeepsIndents, OtherStepsKeepLevels
  <2>3. CASE IgnoreIndentation \/ RejectIndentation \/ KeepIndentation \/ StartDedent \/ EndDedent
    <3>1. UNCHANGED indents /\ UNCHANGED next
      BY <2>3 DEF IgnoreIndentation, RejectIndentation, KeepIndentation, StartDedent,
         EndDedent, AtIndentation, source
    <3> QED BY <3>1, OtherStepsKeepLevels
  <2>4. CASE FinishScan
    BY <2>4, OtherStepsKeepLevels DEF FinishScan, source
  <2> QED BY <2>1, <2>2, <2>3, <2>4, IndentKeepsLevels, DedentKeepsLevels, CloseKeepsLevels
          DEF Next, ScanTokens, HandleIndentation, Returned
<1>3. Levels => IndentLevels /\ ClosureStacks
  BY DEF Levels
<1> QED BY TypeCorrect, <1>1, <1>2, <1>3, PTL DEF Spec

(* The closures that are open are those whose bodies are: the DEDENT loop  *)
(* of handleIndentation pops both stacks together, once for each body.     *)
THEOREM ClosuresFollowTheirLevels == Spec => []ClosureStacks
BY LevelsAreLegal, PTL

(***************************************************************************)
(* Where indentation counts.                                               *)
(***************************************************************************)

(* A line that starts inside brackets is a continuation, and the DEDENT    *)
(* loop runs outside brackets and braces.                                  *)
LineStart ==
  /\ freshLine /\ braceDepth > 0 => continuationLine
  /\ mode = "dedent" => braceDepth = 0 /\ braceBlockDepth = 0

(* handleIndentation is entered outside brackets and braces. *)
LEMMA AtStatementLevel ==
  ASSUME TypeInv, LineStart, AtIndentation
  PROVE  braceDepth = 0 /\ braceBlockDepth = 0
BY DEF TypeInv, TypeOK, LineStart, AtIndentation, NeedsIndentation, SkipsIndentation

(* A token inside brackets does not start a line: only a newline outside them does. *)
LEMMA ScanTokenLineStart ==
  ASSUME TypeInv, LineStart, ScanToken
  PROVE  LineStart'
<1>1. CASE ScanNewline
  <2>1. mode' = "scan" /\ UNCHANGED braceDepth
    BY <1>1 DEF ScanNewline, Scan, control, brackets
  <2>2. braceDepth > 0 => continuationLine'
    BY <1>1 DEF ScanNewline
  <2> QED BY <2>1, <2>2 DEF LineStart
<1>2. CASE ~ScanNewline
  <2>1. ASSUME NEW c, c # "NEWLINE", Scan(c) PROVE mode' = "scan" /\ ~freshLine'
    BY <2>1 DEF Scan, control
  <2>2. mode' = "scan" /\ ~freshLine'
    <3>1. CASE ScanPastEnd
      BY <3>1 DEF ScanPastEnd, control
    <3>2. CASE ~ScanPastEnd
      BY <1>2, <2>1, <3>2 DEF ScanToken, ScanPlain, Plain, Comments, ScanFunc, ScanOpenParen,
         ScanCloseParen, ScanOpenBracket, ScanCloseBracket, ScanOpenBlockBrace,
         ScanOpenLiteralBrace, ScanCloseBlockBrace, ScanCloseLiteralBrace,
         ScanInterpolatedString, ScanStringContinuation, ScanError, ScanMalformed
    <3> QED BY <3>1, <3>2
  <2> QED BY <2>2 DEF LineStart
<1> QED BY <1>1, <1>2

(* The other steps start no line, or happen outside brackets. *)
LEMMA OtherStepsLineStart ==
  ASSUME TypeInv, LineStart, HandleIndentation \/ CloseLevel \/ FinishScan \/ UNCHANGED vars
  PROVE  LineStart'
<1>1. CASE IgnoreIndentation \/ RejectIndentation \/ KeepIndentation \/ Indent \/ StartDedent
  <2>1. AtIndentation
    BY <1>1 DEF IgnoreIndentation, RejectIndentation, KeepIndentation, Indent, StartDedent
  <2>2. braceDepth' = 0 /\ braceBlockDepth' = 0
    BY <2>1, AtStatementLevel DEF AtIndentation, brackets
  <2> QED BY <2>2 DEF LineStart
<1>2. CASE Dedent
  BY <1>2 DEF Dedent, LineStart, control, brackets
<1>3. CASE EndDedent
  BY <1>3 DEF EndDedent, LineStart, brackets
<1>4. CASE CloseLevel \/ FinishScan
  BY <1>4 DEF CloseLevel, FinishScan, AtEnd, LineStart, control, brackets
<1>5. CASE UNCHANGED vars
  BY <1>5 DEF vars, control, brackets, LineStart
<1> QED BY <1>1, <1>2, <1>3, <1>4, <1>5 DEF HandleIndentation

(* Inside brackets, braces and calls indentation is decoration: no line    *)
(* there opens or closes a block.                                          *)
THEOREM IndentationIsForStatements == Spec => IndentOnlyAtStatementLevel
<1> DEFINE Step == indentStack' # indentStack /\ next # "EOF"
                     => /\ braceDepth = 0 /\ braceBlockDepth = 0
                        /\ Len(indentStack') > Len(indentStack)
                             => ~InParenContinuation \/ pendingClosureBlock
<1>1. Init => LineStart
  BY DEF Init, LineStart
<1>2. TypeInv /\ LineStart /\ [Next]_vars => LineStart'
  BY ScanTokenLineStart, OtherStepsLineStart DEF Next, ScanTokens, Returned
<1>3. TypeInv /\ LineStart /\ [Next]_vars => Step
  <2> SUFFICES ASSUME TypeInv, LineStart, [Next]_vars, indentStack' # indentStack, next # "EOF"
               PROVE  /\ braceDepth = 0 /\ braceBlockDepth = 0
                      /\ Len(indentStack') > Len(indentStack)
                           => ~InParenContinuation \/ pendingClosureBlock
    OBVIOUS
  <2>1. CASE Indent
    BY <2>1, AtStatementLevel DEF Indent, Significant
  <2>2. CASE Dedent
    <3>1. indentStack' = Pop(indentStack) /\ indentStack \in Seq(Nat) /\ indentStack # <<>>
      BY <2>2, EmptySeq DEF Dedent, TypeInv, TypeOK, Nesting
    <3>2. Len(indentStack') = Len(indentStack) - 1 /\ Len(indentStack) \in Nat
      BY <3>1, PopType
    <3> QED BY <2>2, <3>2 DEF Dedent, LineStart
  <2>3. CASE ~Indent /\ ~Dedent
    <3>1. ~CloseLevel
      BY DEF CloseLevel, AtEnd
    <3> QED BY <2>3, <3>1, ScanTokenKeepsIndents
            DEF Next, ScanTokens, Returned, HandleIndentation, IgnoreIndentation,
                RejectIndentation, KeepIndentation, StartDedent, EndDedent, FinishScan,
                vars, indents
  <2> QED BY <2>1, <2>2, <2>3
<1> QED BY TypeCorrect, <1>1, <1>2, <1>3, PTL DEF Spec, IndentOnlyAtStatementLevel

(***************************************************************************)
(* Sums.  The library defines them by a fold over subsets, in an order of  *)
(* its own; induction is by a smallest counterexample.                     *)
(***************************************************************************)

(* A set of naturals has a least element. *)
LEMMA LeastElement ==
  ASSUME NEW T \in SUBSET Nat, T # {}
  PROVE  \E x \in T : \A y \in T : x <= y
<1> DEFINE R == {ss \in Nat \X Nat : ss[1] < ss[2]}
<1>1. IsWellFoundedOn(R, Nat)
  BY NatLessThanWellFounded DEF OpToRel
<1>2. \E x \in T : \A y \in T : <<y, x>> \notin R
  BY <1>1, WFMin
<1>3. ASSUME NEW x \in T, NEW y \in T, <<y, x>> \notin R
      PROVE  x <= y
  <2>1. x \in Nat /\ y \in Nat
    OBVIOUS
  <2>2. <<y, x>> \in Nat \X Nat /\ <<y, x>>[1] = y /\ <<y, x>>[2] = x
    BY <2>1
  <2>3. ~(y < x)
    BY <1>3, <2>2
  <2> QED BY <2>1, <2>3
<1> QED BY <1>2, <1>3

(* The sum of a function as Folds computes it: one element after another.  *)
Chosen(T) == CHOOSE x \in T : TRUE

SumsOver(f, S) ==
  CHOOSE h : h = [T \in SUBSET S |-> IF T = {} THEN 0 ELSE f[Chosen(T)] + h[T \ {Chosen(T)}]]

(* The library's sum of a function is the fold named here, taken at the whole domain. *)
LEMMA SumIsFold ==
  ASSUME NEW f
  PROVE  SumFunction(f) = SumsOver(f, DOMAIN f)[DOMAIN f]
BY DEF SumFunction, SumFunctionOnSet, FoldFunctionOnSet, MapThenFoldSet, SumsOver, Chosen

(* The element the fold takes first from a set is in it. *)
LEMMA ChosenIsOne ==
  ASSUME NEW T, T # {}
  PROVE  Chosen(T) \in T
BY DEF Chosen

(* Taking one element out of a finite set makes it one smaller. *)
LEMMA OneLess ==
  ASSUME NEW T, IsFiniteSet(T), NEW x \in T
  PROVE  /\ IsFiniteSet(T \ {x}) /\ Cardinality(T \ {x}) \in Nat
         /\ Cardinality(T) = Cardinality(T \ {x}) + 1
<1>1. IsFiniteSet(T \ {x}) /\ Cardinality(T \ {x}) = Cardinality(T) - 1
  BY FS_RemoveElement
<1>2. Cardinality(T) \in Nat /\ Cardinality(T \ {x}) \in Nat
  BY <1>1, FS_CardinalityType
<1> QED BY <1>1, <1>2

(* Among some of the subsets of a finite set one has no element too many. *)
LEMMA SmallestSet ==
  ASSUME NEW S, IsFiniteSet(S), NEW B \in SUBSET (SUBSET S), B # {}
  PROVE  \E T \in B : \A x \in T : T \ {x} \notin B
<1> DEFINE N == {Cardinality(T) : T \in B}
<1>1. \A T \in B : IsFiniteSet(T) /\ Cardinality(T) \in Nat
  BY FS_Subset, FS_CardinalityType
<1>2. N \in SUBSET Nat /\ N # {}
  BY <1>1
<1> HIDE DEF N
<1>3. PICK n \in N : \A m \in N : n <= m
  BY <1>2, LeastElement
<1>4. PICK T \in B : n = Cardinality(T)
  BY <1>3 DEF N
<1>5. ASSUME NEW x \in T, T \ {x} \in B PROVE FALSE
  <2>1. Cardinality(T \ {x}) \in N
    BY <1>5 DEF N
  <2>2. Cardinality(T) = Cardinality(T \ {x}) + 1 /\ Cardinality(T \ {x}) \in Nat
    BY <1>1, OneLess
  <2>3. n <= Cardinality(T \ {x}) /\ n = Cardinality(T \ {x}) + 1
    BY <1>3, <1>4, <2>1, <2>2
  <2> QED BY <2>2, <2>3
<1> QED BY <1>5

(* The sums over the subsets with at most n elements. *)
SumsUpTo(f, S, n, h) ==
  h = [T \in {U \in SUBSET S : Cardinality(U) <= n} |->
         IF T = {} THEN 0 ELSE f[Chosen(T)] + h[T \ {Chosen(T)}]]

(* For every size there is a function with the fold's sums of all sets up to it (no smallest size
   without). *)
LEMMA SomeSums ==
  ASSUME NEW f, NEW S, IsFiniteSet(S), NEW n \in Nat
  PROVE  \E h : SumsUpTo(f, S, n, h)
<1> DEFINE B == {m \in Nat : ~\E h : SumsUpTo(f, S, m, h)}
<1>1. SUFFICES B = {}
  OBVIOUS
<1>2. SUFFICES ASSUME B # {} PROVE FALSE
  OBVIOUS
<1>3. PICK m \in B : \A k \in B : m <= k
  <2>1. B \in SUBSET Nat
    OBVIOUS
  <2> HIDE DEF B
  <2> QED BY <1>2, <2>1, LeastElement
<1>4. \A U \in SUBSET S : IsFiniteSet(U) /\ Cardinality(U) \in Nat
  BY FS_Subset, FS_CardinalityType
<1>5. CASE m = 0
  <2> DEFINE D == {U \in SUBSET S : Cardinality(U) <= m}
             h == [T \in D |-> 0]
  <2>1. \A T \in D : T = {}
    BY <1>4, <1>5, FS_EmptySet
  <2>2. h = [T \in D |-> IF T = {} THEN 0 ELSE f[Chosen(T)] + h[T \ {Chosen(T)}]]
    BY <2>1
  <2>3. SumsUpTo(f, S, m, h)
    BY <2>2 DEF SumsUpTo
  <2> QED BY <1>3, <2>3
<1>6. CASE m > 0
  <2>1. PICK k \in Nat : m = k + 1
    <3>1. m - 1 \in Nat /\ m = (m - 1) + 1
      BY <1>6
    <3> QED BY <3>1
  <2>2. k \notin B
    BY <1>3, <2>1
  <2>3. PICK g : SumsUpTo(f, S, k, g)
    BY <2>2
  <2> DEFINE D == {U \in SUBSET S : Cardinality(U) <= m}
             E == {U \in SUBSET S : Cardinality(U) <= k}
             h == [T \in D |-> IF T = {} THEN 0 ELSE f[Chosen(T)] + g[T \ {Chosen(T)}]]
  <2>4. \A T \in E : g[T] = IF T = {} THEN 0 ELSE f[Chosen(T)] + g[T \ {Chosen(T)}]
    BY <2>3 DEF SumsUpTo
  <2>5. \A T \in E : T \in D
    BY <1>4, <2>1
  <2>6. \A T \in E : h[T] = g[T]
    BY <2>4, <2>5
  <2>7. ASSUME NEW T \in D, T # {}
        PROVE  T \ {Chosen(T)} \in E
    <3>1. Chosen(T) \in T /\ IsFiniteSet(T)
      BY <1>4, <2>7, ChosenIsOne
    <3>2. Cardinality(T) = Cardinality(T \ {Chosen(T)}) + 1 /\ Cardinality(T \ {Chosen(T)}) \in Nat
      BY <3>1, OneLess
    <3> QED BY <2>1, <3>2
  <2>8. h = [T \in D |-> IF T = {} THEN 0 ELSE f[Chosen(T)] + h[T \ {Chosen(T)}]]
    <3>1. \A T \in D : T # {} => h[T \ {Chosen(T)}] = g[T \ {Chosen(T)}]
      BY <2>6, <2>7
    <3> QED BY <3>1
  <2>9. SumsUpTo(f, S, m, h)
    BY <2>8 DEF SumsUpTo
  <2> QED BY <1>3, <2>9
<1> QED BY <1>3, <1>5, <1>6

(* What the sums over the subsets are. *)
SumIs(f, h, T) == h[T] = IF T = {} THEN 0 ELSE f[Chosen(T)] + h[T \ {Chosen(T)}]
AreSums(f, h, S) == \A T \in SUBSET S : SumIs(f, h, T)
Summands(f, S) == \A x \in S : f[x] \in Nat
SameOn(S, f, g) == \A x \in S : f[x] = g[x]

(* So the fold's own definition holds of it: it is the function its equation describes. *)
LEMMA SumsStep ==
  ASSUME NEW f, NEW S, IsFiniteSet(S)
  PROVE  AreSums(f, SumsOver(f, S), S)
<1> PICK n \in Nat : n = Cardinality(S)
  BY FS_CardinalityType
<1>1. {U \in SUBSET S : Cardinality(U) <= n} = SUBSET S
  BY FS_Subset
<1>2. PICK h : SumsUpTo(f, S, n, h)
  BY SomeSums
<1>3. h = [T \in SUBSET S |-> IF T = {} THEN 0 ELSE f[Chosen(T)] + h[T \ {Chosen(T)}]]
  BY <1>1, <1>2 DEF SumsUpTo
<1>4. PICK g : g = SumsOver(f, S)
  OBVIOUS
<1>5. g = [T \in SUBSET S |-> IF T = {} THEN 0 ELSE f[Chosen(T)] + g[T \ {Chosen(T)}]]
  BY <1>3, <1>4 DEF SumsOver
<1>6. AreSums(f, g, S)
  BY <1>5 DEF AreSums, SumIs
<1> QED BY <1>4, <1>6

(* Sums of naturals are naturals. *)
LEMMA SumsAreNats ==
  ASSUME NEW f, NEW S, IsFiniteSet(S), Summands(f, S), NEW h, AreSums(f, h, S), NEW X \in SUBSET S
  PROVE  h[X] \in Nat
<1> DEFINE B == {T \in SUBSET S : h[T] \notin Nat}
<1> SUFFICES ASSUME B # {} PROVE FALSE
  OBVIOUS
<1>1. PICK T \in B : \A x \in T : T \ {x} \notin B
  <2>1. B \in SUBSET (SUBSET S)
    OBVIOUS
  <2> HIDE DEF B
  <2> QED BY <2>1, SmallestSet
<1>2. CASE T = {}
  <2>1. h[T] = 0
    BY <1>1, <1>2 DEF AreSums, SumIs
  <2> QED BY <1>1, <2>1
<1>3. CASE T # {}
  <2>1. Chosen(T) \in T /\ Chosen(T) \in S
    BY <1>1, <1>3, ChosenIsOne
  <2>2. h[T \ {Chosen(T)}] \in Nat
    BY <1>1, <2>1
  <2>3. h[T] = f[Chosen(T)] + h[T \ {Chosen(T)}]
    BY <1>1, <1>3 DEF AreSums, SumIs
  <2> QED BY <1>1, <2>1, <2>2, <2>3 DEF Summands
<1> QED BY <1>2, <1>3

(* A sum depends on its summands only. *)
LEMMA SumsAgree ==
  ASSUME NEW S, IsFiniteSet(S), NEW f, NEW g, SameOn(S, f, g),
         NEW h, NEW k, AreSums(f, h, S), AreSums(g, k, S)
  PROVE  h[S] = k[S]
<1> DEFINE B == {T \in SUBSET S : h[T] # k[T]}
<1> SUFFICES ASSUME B # {} PROVE FALSE
  OBVIOUS
<1>1. PICK T \in B : \A x \in T : T \ {x} \notin B
  <2>1. B \in SUBSET (SUBSET S)
    OBVIOUS
  <2> HIDE DEF B
  <2> QED BY <2>1, SmallestSet
<1>2. CASE T = {}
  BY <1>1, <1>2 DEF AreSums, SumIs
<1>3. CASE T # {}
  <2>1. Chosen(T) \in T /\ Chosen(T) \in S
    BY <1>1, <1>3, ChosenIsOne
  <2>2. h[T \ {Chosen(T)}] = k[T \ {Chosen(T)}]
    BY <1>1, <2>1
  <2>3. h[T] = f[Chosen(T)] + h[T \ {Chosen(T)}]
    BY <1>1, <1>3 DEF AreSums, SumIs
  <2>4. k[T] = g[Chosen(T)] + k[T \ {Chosen(T)}]
    BY <1>1, <1>3 DEF AreSums, SumIs
  <2> QED BY <1>1, <2>1, <2>2, <2>3, <2>4 DEF SameOn
<1> QED BY <1>2, <1>3

(* The order of the summands does not matter. *)
LEMMA SumsCommute ==
  ASSUME NEW f, NEW S, IsFiniteSet(S), Summands(f, S), NEW h, AreSums(f, h, S), NEW z \in S
  PROVE  h[S] = f[z] + h[S \ {z}]
<1> DEFINE B == {T \in SUBSET S : \E x \in T : h[T] # f[x] + h[T \ {x}]}
<1> SUFFICES ASSUME B # {} PROVE FALSE
  OBVIOUS
<1>1. PICK T \in B : \A x \in T : T \ {x} \notin B
  <2>1. B \in SUBSET (SUBSET S)
    OBVIOUS
  <2> HIDE DEF B
  <2> QED BY <2>1, SmallestSet
<1>2. PICK x \in T : h[T] # f[x] + h[T \ {x}]
  BY <1>1
<1> PICK y : y = Chosen(T)
  OBVIOUS
<1>3. y \in T
  BY <1>2, ChosenIsOne
<1>4. h[T] = f[y] + h[T \ {y}]
  BY <1>1, <1>2 DEF AreSums, SumIs
<1>5. x # y
  BY <1>2, <1>4
<1> PICK U : U = (T \ {x}) \ {y}
  OBVIOUS
<1>6. (T \ {y}) \ {x} = U /\ U \in SUBSET S
  BY <1>1
<1>7. h[T \ {x}] = f[y] + h[U]
  <2>1. T \ {x} \in SUBSET S /\ T \ {x} \notin B /\ y \in T \ {x}
    BY <1>1, <1>2, <1>3, <1>5
  <2> QED BY <2>1
<1>8. h[T \ {y}] = f[x] + h[U]
  <2>1. T \ {y} \in SUBSET S /\ T \ {y} \notin B /\ x \in T \ {y}
    BY <1>1, <1>2, <1>3, <1>5
  <2> QED BY <2>1, <1>6
<1>9. f[x] \in Nat /\ f[y] \in Nat
  BY <1>1, <1>2, <1>3 DEF Summands
<1>10. h[U] \in Nat
  BY <1>6, SumsAreNats
<1> QED BY <1>2, <1>4, <1>7, <1>8, <1>9, <1>10

(* The sum of a longer sequence. *)
LEMMA SumAppend ==
  ASSUME NEW s \in Seq(Nat), NEW e \in Nat
  PROVE  /\ SumFunction(s) \in Nat
         /\ SumFunction(Append(s, e)) = SumFunction(s) + e
<1> PICK n \in Nat : n = Len(s)
  BY LenProperties
<1> PICK t : t = Append(s, e)
  OBVIOUS
<1>1. DOMAIN s = 1 .. n /\ DOMAIN t = 1 .. n + 1 /\ t[n + 1] = e /\ t \in Seq(Nat)
      /\ \A x \in 1 .. n : t[x] = s[x]
  BY LenProperties, AppendProperties
<1> PICK P, Q, m : P = 1 .. n /\ Q = 1 .. n + 1 /\ m = n + 1
  OBVIOUS
<1>2. IsFiniteSet(P) /\ IsFiniteSet(Q)
  <2>1. 1 \in Int /\ n \in Int /\ n + 1 \in Int
    OBVIOUS
  <2> QED BY <2>1, FS_Interval
<1>3. P \in SUBSET Q /\ m \in Q /\ Q \ {m} = P
  OBVIOUS
<1> PICK h, k : h = SumsOver(s, P) /\ k = SumsOver(t, Q)
  OBVIOUS
<1>4. AreSums(s, h, P) /\ AreSums(t, k, Q)
  BY <1>2, SumsStep
<1>5. AreSums(t, k, P)
  BY <1>3, <1>4 DEF AreSums
<1>6. SameOn(P, s, t)
  BY <1>1 DEF SameOn
<1>7. Summands(s, P) /\ Summands(t, Q)
  BY <1>1, ElementOfSeq DEF Summands
<1>8. h[P] = k[P]
  BY <1>2, <1>4, <1>5, <1>6, SumsAgree
<1>9. k[Q] = t[m] + k[Q \ {m}]
  <2>1. m \in Q /\ IsFiniteSet(Q) /\ Summands(t, Q) /\ AreSums(t, k, Q)
    BY <1>2, <1>3, <1>4, <1>7
  <2> QED BY ONLY <2>1, SumsCommute
<1>10. h[P] \in Nat
  BY <1>2, <1>4, <1>7, SumsAreNats
<1>11. SumFunction(s) = h[P] /\ SumFunction(t) = k[Q]
  BY <1>1, SumIsFold
<1>12. SumFunction(t) = e + SumFunction(s) /\ SumFunction(s) \in Nat
  BY <1>1, <1>3, <1>8, <1>9, <1>10, <1>11
<1> QED BY <1>12

(* The sum over no interpolation is zero. *)
LEMMA SumEmpty == SumFunction(<<>>) = 0
<1>1. IsFiniteSet({}) /\ DOMAIN <<>> = {}
  BY FS_EmptySet
<1>2. AreSums(<<>>, SumsOver(<<>>, {}), {})
  BY <1>1, SumsStep
<1> QED BY <1>1, <1>2, SumIsFold DEF AreSums, SumIs

(* What popping, and counting at the top, do to a sum. *)
LEMMA SumTop ==
  ASSUME NEW s \in Seq(Nat), s # <<>>
  PROVE  /\ SumFunction(Pop(s)) \in Nat /\ Top(s) \in Nat
         /\ SumFunction(s) = SumFunction(Pop(s)) + Top(s)
<1>1. Len(s) \in Nat /\ Len(s) > 0 /\ Top(s) \in Nat
  BY EmptySeq, LenProperties, ElementOfSeq DEF Top
<1>2. Pop(s) \in Seq(Nat)
  BY <1>1 DEF Pop
<1>3. s = Append(Pop(s), Top(s))
  BY <1>1, <1>2 DEF Pop, Top
<1>4. SumFunction(Append(Pop(s), Top(s))) = SumFunction(Pop(s)) + Top(s)
      /\ SumFunction(Pop(s)) \in Nat
  BY <1>1, <1>2, SumAppend
<1>5. SumFunction(s) = SumFunction(Append(Pop(s), Top(s)))
  BY <1>3
<1> QED BY <1>1, <1>4, <1>5

(* Replacing the count of the innermost interpolation changes the sum by the difference. *)
LEMMA SumCounted ==
  ASSUME NEW s \in Seq(Nat), s # <<>>, NEW e \in Nat, NEW t, t = [s EXCEPT ![Len(s)] = e]
  PROVE  /\ SumFunction(s) \in Nat
         /\ SumFunction(t) = SumFunction(s) + e - Top(s)
<1>1. Len(s) \in Nat /\ Len(s) > 0
  BY EmptySeq, LenProperties
<1>2. Len(s) \in 1 .. Len(s)
  BY <1>1
<1>3. t \in Seq(Nat) /\ Len(t) = Len(s) /\ \A x \in 1 .. Len(s) : t[x] = IF x = Len(s) THEN e ELSE s[x]
  BY <1>2, ExceptSeq
<1>4. t # <<>> /\ Top(t) = e
  BY <1>1, <1>2, <1>3, EmptySeq DEF Top
<1>5. Pop(t) = Pop(s)
  <2>1. Pop(t) \in Seq(Nat) /\ Pop(s) \in Seq(Nat) /\ Len(Pop(t)) = Len(s) - 1 /\ Len(Pop(s)) = Len(s) - 1
    BY <1>3, <1>4, PopType
  <2>2. \A x \in 1 .. Len(s) - 1 : Pop(t)[x] = t[x]
    BY <1>3, <1>4, PopType
  <2>3. \A x \in 1 .. Len(s) - 1 : Pop(s)[x] = s[x]
    BY PopType
  <2>4. \A x \in 1 .. Len(s) - 1 : t[x] = s[x]
    <3>1. \A x \in 1 .. Len(s) - 1 : x \in 1 .. Len(s) /\ x # Len(s)
      BY <1>1
    <3> QED BY <1>3, <3>1
  <2>5. \A x \in 1 .. Len(Pop(t)) : Pop(t)[x] = Pop(s)[x]
    BY <2>1, <2>2, <2>3, <2>4
  <2> QED BY <2>1, <2>5, SeqEqual
<1>6. SumFunction(s) = SumFunction(Pop(s)) + Top(s) /\ SumFunction(Pop(s)) \in Nat /\ Top(s) \in Nat
  BY SumTop
<1>7. SumFunction(t) = SumFunction(Pop(t)) + Top(t)
  BY <1>3, <1>4, SumTop
<1> QED BY <1>4, <1>5, <1>6, <1>7

(***************************************************************************)
(* Interpolations.                                                         *)
(***************************************************************************)

(* Counting a brace changes the sum by it, unless no interpolation is open. *)
LEMMA CountedSum ==
  ASSUME TypeOK, NEW d \in {1, -1}, CountInterpolation(d), d = -1 => ~EndsInterpolation
  PROVE  /\ SumFunction(interpStack) \in Nat /\ SumFunction(interpStack') \in Nat
         /\ SumFunction(interpStack') \in {0, SumFunction(interpStack) + d}
<1>0. interpStack \in Seq(Nat)
  BY DEF TypeOK
<1>1. CASE interpStack = <<>>
  <2>1. interpStack' = <<>>
    BY <1>1 DEF CountInterpolation
  <2> QED BY <1>1, <2>1, SumEmpty
<1>2. CASE interpStack # <<>>
  <2>1. Top(interpStack) \in Nat /\ SumFunction(interpStack) = SumFunction(Pop(interpStack)) + Top(interpStack)
        /\ SumFunction(Pop(interpStack)) \in Nat
    BY <1>0, <1>2, SumTop
  <2>2. PICK e \in Nat : e = Top(interpStack) + d
    <3>1. CASE d = 1
      BY <2>1, <3>1
    <3>2. CASE d = -1
      BY <1>2, <2>1, <3>2 DEF EndsInterpolation
    <3> QED BY <3>1, <3>2
  <2>3. interpStack' = [interpStack EXCEPT ![Len(interpStack)] = e]
    BY <1>2, <2>2 DEF CountInterpolation, Top
  <2>4. SumFunction(interpStack') = SumFunction(interpStack) + e - Top(interpStack)
    BY <1>0, <1>2, <2>3, SumCounted
  <2>5. SumFunction(interpStack') = SumFunction(interpStack) + d
    BY <2>1, <2>2, <2>4
  <2>6. SumFunction(interpStack') = SumFunction(Pop(interpStack)) + e
    BY <2>1, <2>2, <2>5
  <2> QED BY <2>1, <2>2, <2>5, <2>6
<1> QED BY <1>1, <1>2

(* A closing brace that does not end an interpolation finds one to pop.    *)
LEMMA ScanTokenOwnsBraces ==
  ASSUME TypeInv, InterpolationOwnsBraces, ScanToken
  PROVE  InterpolationOwnsBraces'
<1> USE DEF brackets
<1>0. interpStack \in Seq(Nat) /\ Len(braceStack) \in Nat /\ braceStack \in Seq({"block", "literal"})
  BY LenProperties DEF TypeInv, TypeOK
<1>1. CASE UNCHANGED <<braceStack, interpStack>>
  BY <1>1 DEF InterpolationOwnsBraces
<1>2. CASE ScanOpenBlockBrace \/ ScanOpenLiteralBrace
  <2>1. Len(braceStack') = Len(braceStack) + 1
    BY <1>0, <1>2, AppendProperties DEF ScanOpenBlockBrace, ScanOpenLiteralBrace
  <2>2. /\ SumFunction(interpStack) \in Nat
        /\ SumFunction(interpStack') \in {0, SumFunction(interpStack) + 1}
    BY <1>2, CountedSum DEF TypeInv, ScanOpenBlockBrace, ScanOpenLiteralBrace
  <2> QED BY <1>0, <2>1, <2>2 DEF InterpolationOwnsBraces
<1>3. CASE ScanCloseBlockBrace \/ ScanCloseLiteralBrace
  <2>1. /\ SumFunction(interpStack) \in Nat /\ SumFunction(interpStack') \in Nat
        /\ SumFunction(interpStack') \in {0, SumFunction(interpStack) + -1}
    BY <1>3, CountedSum DEF TypeInv, ScanCloseBlockBrace, ScanCloseLiteralBrace
  <2>2. CASE braceStack = <<>>
    <3>1. SumFunction(interpStack) = 0
      BY <2>1, <2>2 DEF InterpolationOwnsBraces
    <3>2. braceStack' = <<>>
      BY <1>3, <2>2 DEF ScanCloseBlockBrace, ScanCloseLiteralBrace
    <3> QED BY <2>1, <3>1, <3>2 DEF InterpolationOwnsBraces
  <2>3. CASE braceStack # <<>>
    <3>1. braceStack' = Pop(braceStack)
      BY <1>3, <2>3 DEF ScanCloseBlockBrace, ScanCloseLiteralBrace
    <3>2. Len(braceStack') = Len(braceStack) - 1 /\ Len(braceStack) > 0
      BY <1>0, <2>3, <3>1, PopType
    <3> QED BY <1>0, <2>1, <3>2 DEF InterpolationOwnsBraces
  <2> QED BY <2>2, <2>3
<1>4. CASE ScanInterpolatedString
  <2>1. interpStack' = Append(interpStack, 0) /\ braceStack' = braceStack
    BY <1>4 DEF ScanInterpolatedString
  <2>2. SumFunction(interpStack') = SumFunction(interpStack) + 0 /\ SumFunction(interpStack) \in Nat
    BY <1>0, <2>1, SumAppend
  <2> QED BY <2>1, <2>2 DEF InterpolationOwnsBraces
<1>5. CASE ScanStringContinuation
  <2>1. interpStack # <<>> /\ Top(interpStack) = 0 /\ braceStack' = braceStack
        /\ interpStack' \in {interpStack, Pop(interpStack)}
    BY <1>5 DEF ScanStringContinuation, EndsInterpolation
  <2>2. SumFunction(interpStack) = SumFunction(Pop(interpStack)) + 0 /\ SumFunction(Pop(interpStack)) \in Nat
    BY <1>0, <2>1, SumTop
  <2> QED BY <2>1, <2>2 DEF InterpolationOwnsBraces
<1> QED
  BY <1>1, <1>2, <1>3, <1>4, <1>5
  DEF ScanToken, ScanPlain, ScanFunc, ScanNewline, ScanOpenParen, ScanCloseParen, ScanOpenBracket,
      ScanCloseBracket, ScanError, ScanMalformed, ScanPastEnd

(* The braces that an interpolation has counted are open: the "}" that     *)
(* ends it (scanToken, lexer.go:281) closes no brace of its expression.    *)
THEOREM InterpolationsOwnTheirBraces == Spec => []InterpolationOwnsBraces
<1>1. Init => InterpolationOwnsBraces
  BY SumEmpty, EmptySeq DEF Init, InterpolationOwnsBraces
<1>2. TypeInv /\ InterpolationOwnsBraces /\ [Next]_vars => InterpolationOwnsBraces'
  <2> SUFFICES ASSUME TypeInv, InterpolationOwnsBraces, [Next]_vars PROVE InterpolationOwnsBraces'
    OBVIOUS
  <2>1. CASE ScanToken
    BY <2>1, ScanTokenOwnsBraces
  <2>2. CASE UNCHANGED <<interpStack, braceStack>>
    BY <2>2 DEF InterpolationOwnsBraces
  <2> QED
    BY <2>1, <2>2
    DEF Next, ScanTokens, Returned, HandleIndentation, IgnoreIndentation, RejectIndentation,
        KeepIndentation, Indent, StartDedent, Dedent, EndDedent, AtIndentation, CloseLevel,
        FinishScan, vars, brackets
<1> QED BY TypeCorrect, <1>1, <1>2, PTL DEF Spec
=============================================================================
