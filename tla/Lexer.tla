------------------------------- MODULE Lexer -------------------------------
(***************************************************************************)
(* The scanner of internal/lexer/lexer.go: how the layout of a source file *)
(* (leading spaces, parentheses, brackets, literal and block braces, fat   *)
(* arrows, string interpolation) becomes NEWLINE, INDENT and DEDENT tokens.*)
(*                                                                         *)
(* The source is a stream of lexemes that is chosen as it is read: `next`  *)
(* is the lexeme ahead of the scanner, `lead` the white space in front of  *)
(* it when it starts a line.  A lexeme is a class; identifiers, literals   *)
(* and operators whose scanning touches nothing but the token list are all *)
(* "OTHER".  One step is one call of scanToken, or one iteration of a      *)
(* DEDENT loop.                                                            *)
(***************************************************************************)
EXTENDS Integers, Sequences, FiniteSets, Functions

CONSTANTS
  Lexemes,     (* the lexeme classes the source is made of                 *)
  Leads,       (* the leading white space a line may have                  *)
  MaxLexemes   (* bound: the number of lexemes after the first             *)

BlockKeywords == {"KEYWORD", "FUNC"}  (* "KEYWORD": if for switch else select go defer *)

Plain == {"OTHER", "OF", "KEYWORD", "PIPE", "ONERR"}

Comments == {"COMMENT", "DIRECTIVE"}  (* "DIRECTIVE": a comment that starts with kuki: *)

LexemeClass == Plain \cup Comments \cup {"FUNC", "FAT_ARROW", "NEWLINE", "LPAREN",
  "RPAREN", "LBRACKET", "RBRACKET", "LBRACE", "RBRACE", "INTERPOLATED",
  "UNTERMINATED", "MALFORMED", "BAD"}

TokenClass == Plain \cup Comments \cup {"FUNC", "FAT_ARROW", "NEWLINE", "LPAREN",
  "RPAREN", "LBRACKET", "RBRACKET", "LBRACE", "RBRACE", "STRING_HEAD",
  "STRING_MID", "STRING_TAIL", "INDENT", "DEDENT", "EOF"}

ASSUME LexerAssumption ==
  /\ Lexemes \subseteq LexemeClass
  /\ Leads \subseteq [spaces : Nat, tabs : BOOLEAN]
  /\ MaxLexemes \in Nat

VARIABLES
  (* the source that is still unread *)
  lead,                    (* white space between `current` and the next lexeme *)
  next,                    (* the next lexeme, "EOF" at the end                 *)
  left,                    (* how many lexemes may still follow `next`          *)
  (* the fields of the Lexer struct *)
  mode,                    (* "scan", "dedent" in handleIndentation's loop, "done" *)
  target,                  (* the indentation that loop dedents to              *)
  freshLine,               (* atLineStart && !indentationHandled                *)
  indentStack,
  continuationLine,
  braceDepth,
  parenDepth,
  inFunctionLiteral,
  closureIndentStack,
  closureParenDepthStack,
  afterFatArrow,
  pendingClosureBlock,
  blockKeywordSeen,
  braceStack,              (* "block" or "literal" for each open "{"            *)
  braceBlockDepth,
  interpStack,             (* the braceDepth of each open interpolation         *)
  tokens,
  errors                   (* len(l.errors) > 0                                 *)

source   == <<lead, next, left>>
control  == <<mode, target>>
indents  == <<indentStack, closureIndentStack, closureParenDepthStack>>
brackets == <<parenDepth, braceDepth, braceStack, braceBlockDepth, interpStack>>
keyword  == <<inFunctionLiteral, pendingClosureBlock>>
output   == <<tokens, afterFatArrow, blockKeywordSeen>>
vars     == <<source, control, freshLine, continuationLine, indents, brackets,
              keyword, output, errors>>

NoLead == [spaces |-> 0, tabs |-> FALSE]
Blank == {"NEWLINE", "EOF"} \cup Comments   (* what may follow the white space of a line without code *)

Top(s) == s[Len(s)]
Pop(s) == SubSeq(s, 1, Len(s) - 1)

Init ==
  /\ lead \in Leads
  /\ \/ next \in Lexemes /\ left = MaxLexemes
     \/ next = "EOF" /\ left = 0
  /\ mode = "scan" /\ target = 0
  /\ freshLine = TRUE
  /\ indentStack = <<0>>
  /\ closureIndentStack = <<>> /\ closureParenDepthStack = <<>>
  /\ continuationLine = FALSE
  /\ braceDepth = 0 /\ parenDepth = 0
  /\ braceStack = <<>> /\ braceBlockDepth = 0 /\ interpStack = <<>>
  /\ inFunctionLiteral = FALSE /\ pendingClosureBlock = FALSE
  /\ afterFatArrow = FALSE /\ blockKeywordSeen = FALSE
  /\ tokens = <<>>
  /\ errors = FALSE

-----------------------------------------------------------------------------
(* Helpers of the scanner.                                                 *)

(* inParenContinuation: newlines are continuations inside an open "(" that *)
(* is not the scope of a block-bodied closure.                             *)
InParenContinuation ==
  /\ parenDepth > 0
  /\ closureParenDepthStack # <<>> => parenDepth > Top(closureParenDepthStack)

(* addTokenWithLexeme: append a token and maintain the two flags that      *)
(* remember the last significant token and the last block keyword.         *)
Emit(t) ==
  /\ tokens' = Append(tokens, t)
  /\ afterFatArrow' = (t = "FAT_ARROW" \/ (afterFatArrow /\ t \in Comments))
  /\ blockKeywordSeen' =
       (t \in BlockKeywords \/ (blockKeywordSeen /\ t \notin {"NEWLINE", "INDENT", "OF"}))

(* error: the message is recorded and scanning goes on. *)
Error == errors' = TRUE

(* The lexeme has been read; what follows it is chosen from S. *)
ReadFrom(S) ==
  \/ next' = "EOF" /\ left' = 0
  \/ left > 0 /\ next' \in S /\ left' = left - 1

(* Mutant: the white space inside a block brace is taken for indentation. *)
SkipsOnlyContinuations == freshLine /\ continuationLine

(* The two paths of scanToken that skip the indentation of a line: inside a *)
(* continuation, and inside a brace block.                                  *)
SkipsIndentation == freshLine /\ (continuationLine \/ braceBlockDepth > 0)

(* The path of scanToken that calls handleIndentation and returns. *)
NeedsIndentation ==
  /\ freshLine /\ ~SkipsIndentation
  /\ \/ lead # NoLead
     \/ next \notin Blank /\ Len(indentStack) > 1

(* scanToken reaches its switch with lexeme c: the start of the line has   *)
(* been dealt with, and c is consumed.                                     *)
Scan(c) ==
  /\ mode = "scan" /\ ~NeedsIndentation /\ next = c
  /\ freshLine' = (c = "NEWLINE")
  /\ IF c = "NEWLINE" THEN lead' \in Leads ELSE lead' = NoLead
  /\ ReadFrom(IF c \in Comments \cup {"UNTERMINATED"} THEN Lexemes \cap {"NEWLINE"} ELSE Lexemes)
  /\ UNCHANGED <<control, indents>>

(* Leaving the line start resets continuationLine. *)
LeaveLineStart == continuationLine' = (continuationLine /\ ~freshLine)

-----------------------------------------------------------------------------
(* The cases of scanToken's switch.                                        *)

(* Tokens that change no layout state. *)
ScanPlain ==
  \E c \in Plain \cup Comments \cup {"FAT_ARROW"} :
    /\ Scan(c) /\ Emit(c) /\ LeaveLineStart
    /\ UNCHANGED <<brackets, keyword, errors>>

(* scanIdentifier on the keyword func. *)
ScanFunc ==
  /\ Scan("FUNC") /\ Emit("FUNC") /\ LeaveLineStart
  /\ inFunctionLiteral' = TRUE
  /\ UNCHANGED <<brackets, pendingClosureBlock, errors>>

(* A newline ends a statement, except inside brackets and literal braces   *)
(* and inside a call's parentheses.  There, a fat arrow or a func signature *)
(* whose next line is indented deeper than the current block opens a body. *)
ScanNewline ==
  LET opensBody == /\ afterFatArrow \/ inFunctionLiteral
                   /\ lead'.spaces > Top(indentStack)
      joins == braceDepth > 0 \/ (InParenContinuation /\ ~opensBody)
  IN /\ Scan("NEWLINE")
     /\ continuationLine' = (joins \/ (continuationLine /\ ~freshLine))
     /\ pendingClosureBlock' =
          (pendingClosureBlock \/ (braceDepth = 0 /\ InParenContinuation /\ opensBody))
     /\ IF joins
        THEN afterFatArrow' = FALSE /\ UNCHANGED <<tokens, blockKeywordSeen>>
        ELSE Emit("NEWLINE")
     /\ inFunctionLiteral' = FALSE
     /\ UNCHANGED <<brackets, errors>>

ScanOpenParen ==
  /\ Scan("LPAREN") /\ Emit("LPAREN") /\ LeaveLineStart
  /\ parenDepth' = parenDepth + 1
  /\ UNCHANGED <<braceDepth, braceStack, braceBlockDepth, interpStack, keyword, errors>>

ScanCloseParen ==
  /\ Scan("RPAREN") /\ Emit("RPAREN") /\ LeaveLineStart
  /\ parenDepth' = IF parenDepth > 0 THEN parenDepth - 1 ELSE 0
  /\ UNCHANGED <<braceDepth, braceStack, braceBlockDepth, interpStack, keyword, errors>>

ScanOpenBracket ==
  /\ Scan("LBRACKET") /\ Emit("LBRACKET") /\ LeaveLineStart
  /\ braceDepth' = braceDepth + 1
  /\ UNCHANGED <<parenDepth, braceStack, braceBlockDepth, interpStack, keyword, errors>>

ScanCloseBracket ==
  /\ Scan("RBRACKET") /\ Emit("RBRACKET") /\ LeaveLineStart
  /\ braceDepth' = IF braceDepth > 0 THEN braceDepth - 1 ELSE 0
  /\ UNCHANGED <<parenDepth, braceStack, braceBlockDepth, interpStack, keyword, errors>>

(* Mutant: closing braces are not counted. *)
CountOpeningOnly(d) ==
  interpStack' = IF interpStack = <<>> \/ d < 0 THEN interpStack
                 ELSE [interpStack EXCEPT ![Len(interpStack)] = @ + d]

(* An opening brace counts in the innermost interpolation too. *)
CountInterpolation(d) ==
  interpStack' = IF interpStack = <<>> THEN <<>>
                 ELSE [interpStack EXCEPT ![Len(interpStack)] = @ + d]

(* Mutant: the block brace is recorded as a literal one. *)
ScanOpenBlockBraceAsLiteral ==
  /\ Scan("LBRACE") /\ blockKeywordSeen
  /\ Emit("INDENT") /\ LeaveLineStart
  /\ braceStack' = Append(braceStack, "literal")
  /\ braceBlockDepth' = braceBlockDepth + 1
  /\ CountInterpolation(1)
  /\ UNCHANGED <<parenDepth, braceDepth, keyword, errors>>

(* "{" after a block keyword of the same statement opens a block: INDENT. *)
ScanOpenBlockBrace ==
  /\ Scan("LBRACE") /\ blockKeywordSeen
  /\ Emit("INDENT") /\ LeaveLineStart
  /\ braceStack' = Append(braceStack, "block")
  /\ braceBlockDepth' = braceBlockDepth + 1
  /\ CountInterpolation(1)
  /\ UNCHANGED <<parenDepth, braceDepth, keyword, errors>>

(* Any other "{" opens a literal. *)
ScanOpenLiteralBrace ==
  /\ Scan("LBRACE") /\ ~blockKeywordSeen
  /\ Emit("LBRACE") /\ LeaveLineStart
  /\ braceStack' = Append(braceStack, "literal")
  /\ braceDepth' = braceDepth + 1
  /\ CountInterpolation(1)
  /\ UNCHANGED <<parenDepth, braceBlockDepth, keyword, errors>>

EndsInterpolation == interpStack # <<>> /\ Top(interpStack) = 0

ScanCloseBlockBrace ==
  /\ Scan("RBRACE") /\ ~EndsInterpolation
  /\ braceStack # <<>> /\ Top(braceStack) = "block"
  /\ Emit("DEDENT") /\ LeaveLineStart
  /\ braceStack' = Pop(braceStack)
  /\ braceBlockDepth' = braceBlockDepth - 1
  /\ CountInterpolation(-1)
  /\ UNCHANGED <<parenDepth, braceDepth, keyword, errors>>

(* A literal brace, or a brace nothing opened. *)
ScanCloseLiteralBrace ==
  /\ Scan("RBRACE") /\ ~EndsInterpolation
  /\ braceStack # <<>> => Top(braceStack) = "literal"
  /\ Emit("RBRACE") /\ LeaveLineStart
  /\ braceStack' = IF braceStack = <<>> THEN <<>> ELSE Pop(braceStack)
  /\ braceDepth' = IF braceDepth > 0 THEN braceDepth - 1 ELSE 0
  /\ CountInterpolation(-1)
  /\ UNCHANGED <<parenDepth, braceBlockDepth, keyword, errors>>

(* A string literal up to its first interpolation: STRING_HEAD. *)
ScanInterpolatedString ==
  /\ Scan("INTERPOLATED") /\ Emit("STRING_HEAD") /\ LeaveLineStart
  /\ interpStack' = Append(interpStack, 0)
  /\ UNCHANGED <<parenDepth, braceDepth, braceStack, braceBlockDepth, keyword, errors>>

(* The "}" of an interpolation resumes the string: another interpolation   *)
(* follows, the string ends, or it is not terminated.                      *)
ScanStringContinuation ==
  /\ Scan("RBRACE") /\ EndsInterpolation /\ LeaveLineStart
  /\ \/ /\ Emit("STRING_MID")
        /\ UNCHANGED <<interpStack, errors>>
     \/ /\ Emit("STRING_TAIL")
        /\ interpStack' = Pop(interpStack)
        /\ UNCHANGED errors
     \/ /\ Error
        /\ interpStack' = Pop(interpStack)
        /\ UNCHANGED output
  /\ UNCHANGED <<parenDepth, braceDepth, braceStack, braceBlockDepth, keyword>>

(* A string without its closing quote, or an unexpected character: an      *)
(* error and no token.                                                     *)
ScanError ==
  /\ Scan("UNTERMINATED") \/ Scan("BAD")
  /\ Error /\ LeaveLineStart
  /\ UNCHANGED <<brackets, keyword, output>>

(* A digitless hex number, a bad escape: an error, and the token all the same. *)
ScanMalformed ==
  /\ Scan("MALFORMED") /\ Emit("OTHER") /\ Error /\ LeaveLineStart
  /\ UNCHANGED <<brackets, keyword>>

(* The white space of a line whose indentation is skipped, at the end of   *)
(* the source: advance returns NUL, an unexpected character.               *)
ScanPastEnd ==
  /\ mode = "scan" /\ SkipsIndentation /\ next = "EOF" /\ lead # NoLead
  /\ lead' = NoLead /\ freshLine' = FALSE
  /\ Error /\ LeaveLineStart
  /\ UNCHANGED <<next, left, control, indents, brackets, keyword, output>>

ScanToken ==
  \/ ScanPlain \/ ScanFunc \/ ScanNewline
  \/ ScanOpenParen \/ ScanCloseParen \/ ScanOpenBracket \/ ScanCloseBracket
  \/ ScanOpenBlockBrace \/ ScanOpenLiteralBrace
  \/ ScanCloseBlockBrace \/ ScanCloseLiteralBrace
  \/ ScanInterpolatedString \/ ScanStringContinuation
  \/ ScanError \/ ScanMalformed \/ ScanPastEnd

-----------------------------------------------------------------------------
(* handleIndentation.                                                      *)

(* Every path through it consumes the white space and is taken once a line. *)
AtIndentation ==
  /\ mode = "scan" /\ NeedsIndentation
  /\ lead' = NoLead /\ freshLine' = FALSE
  /\ UNCHANGED <<next, left, continuationLine, brackets, inFunctionLiteral>>

(* The line's indentation is significant: it holds code, and it is not the *)
(* continuation line of a call.                                            *)
Significant ==
  /\ ~lead.tabs /\ next \notin Blank
  /\ ~InParenContinuation \/ pendingClosureBlock

(* Blank lines, comment lines and the continuation lines of a call. *)
IgnoreIndentation ==
  /\ AtIndentation /\ ~lead.tabs /\ ~Significant
  /\ UNCHANGED <<control, indents, pendingClosureBlock, output, errors>>

(* Mutant: any deeper indentation opens a level. *)
LegalAnyJump == lead.spaces % 4 = 0

(* Indentation inside a block opens a deeper one only by 4, except for the *)
(* body of a closure, whose own line was indented decoratively.            *)
LegalIndent ==
  /\ lead.spaces % 4 = 0
  /\ lead.spaces > Top(indentStack) /\ ~pendingClosureBlock
       => lead.spaces = Top(indentStack) + 4

(* Tabs, an indentation that is not a multiple of 4, a jump by more than 4. *)
RejectIndentation ==
  /\ AtIndentation
  /\ lead.tabs \/ (Significant /\ ~LegalIndent)
  /\ Error
  /\ UNCHANGED <<control, indents, pendingClosureBlock, output>>

KeepIndentation ==
  /\ AtIndentation /\ Significant /\ LegalIndent
  /\ lead.spaces = Top(indentStack)
  /\ UNCHANGED <<control, indents, pendingClosureBlock, output, errors>>

(* Mutant: the closure body is not recorded. *)
IndentForgettingClosure ==
  /\ AtIndentation /\ Significant /\ LegalIndent
  /\ lead.spaces > Top(indentStack)
  /\ indentStack' = Append(indentStack, lead.spaces)
  /\ Emit("INDENT")
  /\ pendingClosureBlock' = FALSE
  /\ UNCHANGED <<control, errors, closureIndentStack, closureParenDepthStack>>

Indent ==
  /\ AtIndentation /\ Significant /\ LegalIndent
  /\ lead.spaces > Top(indentStack)
  /\ indentStack' = Append(indentStack, lead.spaces)
  /\ Emit("INDENT")
  /\ IF pendingClosureBlock
     THEN /\ closureIndentStack' = Append(closureIndentStack, lead.spaces)
          /\ closureParenDepthStack' = Append(closureParenDepthStack, parenDepth)
     ELSE UNCHANGED <<closureIndentStack, closureParenDepthStack>>
  /\ pendingClosureBlock' = FALSE
  /\ UNCHANGED <<control, errors>>

(* A shallower line enters the loop that pops the levels it leaves. *)
StartDedent ==
  /\ AtIndentation /\ Significant /\ LegalIndent
  /\ lead.spaces < Top(indentStack)
  /\ mode' = "dedent" /\ target' = lead.spaces
  /\ UNCHANGED <<indents, pendingClosureBlock, output, errors>>

(* Mutant: the closure test looks at the level before it is popped. *)
DedentTestingTooEarly ==
  LET closes == closureIndentStack # <<>> /\ Top(indentStack) < Top(closureIndentStack)
  IN /\ mode = "dedent"
     /\ Len(indentStack) > 1 /\ Top(indentStack) > target
     /\ Emit("DEDENT")
     /\ indentStack' = Pop(indentStack)
     /\ closureIndentStack' = IF closes THEN Pop(closureIndentStack) ELSE closureIndentStack
     /\ closureParenDepthStack' =
          IF closes THEN Pop(closureParenDepthStack) ELSE closureParenDepthStack
     /\ UNCHANGED <<source, control, freshLine, continuationLine, brackets, keyword, errors>>

(* One iteration: a DEDENT, and the closure whose body this level was. *)
Dedent ==
  LET outer == indentStack[Len(indentStack) - 1]
      closes == closureIndentStack # <<>> /\ outer < Top(closureIndentStack)
  IN /\ mode = "dedent"
     /\ Len(indentStack) > 1 /\ Top(indentStack) > target
     /\ Emit("DEDENT")
     /\ indentStack' = Pop(indentStack)
     /\ closureIndentStack' = IF closes THEN Pop(closureIndentStack) ELSE closureIndentStack
     /\ closureParenDepthStack' =
          IF closes THEN Pop(closureParenDepthStack) ELSE closureParenDepthStack
     /\ UNCHANGED <<source, control, freshLine, continuationLine, brackets, keyword, errors>>

(* The loop ends: back inside a call the alignment is free, elsewhere the  *)
(* line must have landed on an open level.                                 *)
EndDedent ==
  /\ mode = "dedent"
  /\ Len(indentStack) = 1 \/ Top(indentStack) <= target
  /\ mode' = "scan" /\ target' = 0
  /\ errors' = (errors \/ (~InParenContinuation /\ Top(indentStack) # target))
  /\ UNCHANGED <<source, freshLine, continuationLine, indents, brackets, keyword, output>>

HandleIndentation ==
  \/ IgnoreIndentation \/ RejectIndentation \/ KeepIndentation \/ Indent
  \/ StartDedent \/ Dedent \/ EndDedent

-----------------------------------------------------------------------------
(* ScanTokens: the loop ends with the source; the open levels are closed,  *)
(* then EOF.  With errors it returns no tokens.                            *)

AtEnd == mode = "scan" /\ next = "EOF" /\ lead = NoLead

CloseLevel ==
  /\ AtEnd /\ Len(indentStack) > 1
  /\ Emit("DEDENT")
  /\ indentStack' = Pop(indentStack)
  /\ UNCHANGED <<source, control, freshLine, continuationLine, closureIndentStack,
                 closureParenDepthStack, brackets, keyword, errors>>

FinishScan ==
  /\ AtEnd /\ Len(indentStack) = 1
  /\ Emit("EOF")
  /\ mode' = "done"
  /\ UNCHANGED <<source, target, freshLine, continuationLine, indents, brackets,
                 keyword, errors>>

ScanTokens == ScanToken \/ HandleIndentation \/ CloseLevel \/ FinishScan

(* The list ScanTokens has returned stays as it is. *)
Returned == mode = "done" /\ UNCHANGED vars

Next == ScanTokens \/ Returned

(* The lexer is sequential code that never blocks: it takes its next step. *)
Spec == Init /\ [][Next]_vars /\ WF_vars(ScanTokens)

-----------------------------------------------------------------------------
(* Properties.                                                             *)

Count(t, s) == Cardinality({i \in DOMAIN s : s[i] = t})
Balance == Count("INDENT", tokens) - Count("DEDENT", tokens)
Increasing(s) == \A i, j \in DOMAIN s : i < j => s[i] < s[j]

(* Every variable holds a value of its Go field's type. *)
TypeOK ==
  /\ lead \in Leads \cup {NoLead}
  /\ next \in Lexemes \cup {"EOF"} /\ left \in Nat
  /\ mode \in {"scan", "dedent", "done"} /\ target \in Nat
  /\ freshLine \in BOOLEAN /\ continuationLine \in BOOLEAN /\ errors \in BOOLEAN
  /\ inFunctionLiteral \in BOOLEAN /\ pendingClosureBlock \in BOOLEAN
  /\ afterFatArrow \in BOOLEAN /\ blockKeywordSeen \in BOOLEAN
  /\ indentStack \in Seq(Nat)
  /\ closureIndentStack \in Seq(Nat) /\ closureParenDepthStack \in Seq(Nat)
  /\ parenDepth \in Nat /\ braceDepth \in Nat /\ braceBlockDepth \in Nat
  /\ braceStack \in Seq({"block", "literal"}) /\ interpStack \in Seq(Nat)
  /\ tokens \in Seq(TokenClass)

(* The INDENTs and DEDENTs emitted so far are those of the levels that are *)
(* open now, by indentation (handleIndentation, ScanTokens' closing loop)  *)
(* or by a block brace, however the two are mixed and whatever errors were *)
(* met: the parser, which recurses on INDENT, never sees a DEDENT too many.*)
BlockBalance ==
  /\ Balance = Len(indentStack) - 1 + braceBlockDepth
  /\ braceBlockDepth = Count("block", braceStack)

(* Every open level is a multiple of 4, deeper than the one around it, and *)
(* by exactly 4 unless it is the body of a closure: a rejected line never  *)
(* leaves a level behind (handleIndentation).                              *)
IndentLevels ==
  /\ Len(indentStack) > 0 /\ indentStack[1] = 0
  /\ Increasing(indentStack)
  /\ \A i \in DOMAIN indentStack : indentStack[i] % 4 = 0
  /\ next # "EOF" =>
       \A i \in 2 .. Len(indentStack) :
         indentStack[i] # indentStack[i - 1] + 4
           => indentStack[i] \in Range(closureIndentStack)

(* The two closure stacks move together, and a closure is open exactly as  *)
(* long as the level of its body: the test in handleIndentation's DEDENT   *)
(* loop pops one closure for each body it leaves, never two, never none.   *)
ClosureStacks ==
  /\ Len(closureIndentStack) = Len(closureParenDepthStack)
  /\ Increasing(closureIndentStack)
  /\ next # "EOF" => Range(closureIndentStack) \subseteq Range(indentStack) \ {0}

(* Indentation opens and closes blocks only between statements: inside     *)
(* brackets, literal braces and block braces, and on the continuation      *)
(* lines of a call, it is decoration (scanToken's two skips,               *)
(* handleIndentation's paren continuation).                                *)
IndentOnlyAtStatementLevel ==
  [][indentStack' # indentStack /\ next # "EOF"
       => /\ braceDepth = 0 /\ braceBlockDepth = 0
          /\ Len(indentStack') > Len(indentStack)
               => ~InParenContinuation \/ pendingClosureBlock]_vars

(* The braces an open interpolation has counted are among the open braces: *)
(* the "}" that scanToken takes for the end of an interpolation cannot be  *)
(* one that closes a brace of the expression, and a brace opened in an     *)
(* interpolation is popped from braceStack before the string resumes.      *)
InterpolationOwnsBraces ==
  SumFunction(interpStack) <= Len(braceStack)

(* Once a "=>" has announced an indented body, the first line of code at   *)
(* the body's indentation opens it, a comment above that line or not:      *)
(* "when => is followed by an indented block, normal INDENT/DEDENT         *)
(* processing resumes for that closure's body" (lexer.go:46-48), and       *)
(* comment-only lines are skipped (lexer.go:399).                          *)
PendingClosureOpens ==
  [][/\ pendingClosureBlock /\ freshLine /\ next \notin Blank
     /\ lead = [spaces |-> Top(indentStack) + 4, tabs |-> FALSE]
     /\ tokens[Len(tokens)] = "COMMENT"
   => indentStack' = Append(indentStack, lead.spaces)]_vars
=============================================================================
