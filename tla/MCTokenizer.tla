---------------------------- MODULE MCTokenizer ----------------------------
(* Tokenizer for TLC, with files of a few profiles as in MCLexer. *)
EXTENDS Tokenizer

Spaces(n) == [spaces |-> n, tabs |-> FALSE]
ThreeLeads == {Spaces(0), Spaces(4), Spaces(8)}

(* Chains with leading or trailing pipes, onerr lines and comments. *)
Pipes == {"OTHER", "NEWLINE", "PIPE", "ONERR", "COMMENT"}

(* Chains next to indentation blocks and brace blocks. *)
Blocks == {"NEWLINE", "PIPE", "KEYWORD", "LBRACE", "RBRACE"}

(* The shortest chain that has a block in it. *)
Nested == {"OTHER", "NEWLINE", "PIPE"}

CONSTANT Profiles    (* bound: the profiles to try *)

Chains == {Pipes, Blocks}
NestedOnly == {Nested}

VARIABLE profile

Written(p) == next \in p \cup {"EOF"}

MCInit == TokenizerInit /\ profile \in Profiles /\ Written(profile)
MCNext == TokenizerNext /\ UNCHANGED profile /\ Written(profile)'
MCSpec ==
  /\ MCInit /\ [][MCNext]_<<vars, merge, profile>>
  /\ WF_<<vars, merge, profile>>(ScanPhase /\ UNCHANGED profile /\ Written(profile)')
  /\ WF_<<vars, merge, profile>>(MergePhase /\ UNCHANGED profile)
=============================================================================
