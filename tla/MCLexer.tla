------------------------------ MODULE MCLexer ------------------------------
(***************************************************************************)
(* Lexer for TLC.  Files are written in one of a few profiles, each with   *)
(* the lexemes and the white space that matter to one kind of layout, so   *)
(* that a file can be long enough for the case to come up.                 *)
(***************************************************************************)
EXTENDS Lexer

Spaces(n) == [spaces |-> n, tabs |-> FALSE]
Tab == [spaces |-> 0, tabs |-> TRUE]

Profile(lexemes, leads, length) == [lexemes |-> lexemes, leads |-> leads, length |-> length]

(* Aligned, misaligned, jumping and tabbed lines of code and comments. *)
Indentation ==
  Profile({"OTHER", "NEWLINE", "COMMENT"}, {Spaces(0), Spaces(4), Spaces(6), Spaces(8), Tab}, 7)

(* Block braces and literal braces, one inside the other. *)
Braces ==
  Profile({"OTHER", "NEWLINE", "FUNC", "LBRACE", "RBRACE"}, {Spaces(0), Spaces(4)}, 6)

(* Lists, literals and calls over several lines. *)
Lists ==
  Profile({"OTHER", "NEWLINE", "LBRACKET", "RBRACKET", "LPAREN", "RPAREN", "LBRACE", "RBRACE"},
          {Spaces(0), Spaces(4)}, 5)

(* Closures inside calls, nested, closed on their last line or left open. *)
Closures ==
  Profile({"OTHER", "NEWLINE", "LPAREN", "RPAREN", "FAT_ARROW"},
          {Spaces(0), Spaces(4), Spaces(8)}, 7)

(* Interpolated and broken strings. *)
Strings ==
  Profile({"INTERPOLATED", "LBRACE", "RBRACE", "UNTERMINATED", "MALFORMED", "BAD", "NEWLINE",
           "KEYWORD", "OF", "DIRECTIVE"},
          {Spaces(0), Spaces(4)}, 5)

(* A closure whose body may have a comment above it. *)
CommentedClosures ==
  Profile({"OTHER", "NEWLINE", "LPAREN", "FAT_ARROW", "COMMENT"}, {Spaces(0), Spaces(4)}, 7)

Layouts == {Indentation, Braces, Lists, Closures, Strings}
LayoutLexemes == UNION {p.lexemes : p \in Layouts}
LayoutLeads == UNION {p.leads : p \in Layouts}

Commented == {CommentedClosures}

CONSTANT Profiles    (* bound: the profiles to try *)

VARIABLE profile

Written(p) ==
  /\ next \in p.lexemes \cup {"EOF"}
  /\ lead \in p.leads \cup {NoLead}
  /\ next # "EOF" => left > MaxLexemes - p.length

MCInit == Init /\ profile \in Profiles /\ Written(profile)
MCNext == Next /\ UNCHANGED profile /\ Written(profile)'
MCSpec == MCInit /\ [][MCNext]_<<vars, profile>>
=============================================================================
