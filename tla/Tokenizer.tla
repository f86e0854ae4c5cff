----------------------------- MODULE Tokenizer -----------------------------
(***************************************************************************)
(* Lexer.ScanTokens as its callers see it: the scanner, then, if it met no *)
(* error, the merging of pipe continuations over the tokens it emitted.    *)
(***************************************************************************)
EXTENDS Lexer

VARIABLES pos, result, absorbedIndents, inPipeChain

merge == <<pos, result, absorbedIndents, inPipeChain>>

Pass == INSTANCE Continuations WITH toks <- tokens

TokenizerInit == Init /\ Pass!MergeInit

ScanPhase == ScanTokens /\ UNCHANGED merge

(* if len(l.errors) > 0 { return nil, ... }: the pass is not run. *)
MergePhase ==
  /\ mode = "done" /\ ~errors
  /\ Pass!MergeNext
  /\ UNCHANGED vars

Tokenized == mode = "done" /\ (errors \/ Pass!Merged)

TokenizerNext ==
  \/ ScanPhase
  \/ MergePhase
  \/ Tokenized /\ UNCHANGED <<vars, merge>>

TokenizerSpec ==
  /\ TokenizerInit /\ [][TokenizerNext]_<<vars, merge>>
  /\ WF_<<vars, merge>>(ScanPhase) /\ WF_<<vars, merge>>(MergePhase)

-----------------------------------------------------------------------------
(* The properties of the pass, on what the scanner really emits.           *)
MergeTypeOK == mode = "done" => Pass!MergeTypeOK
OnlyLayoutDropped == Pass!OnlyLayoutDropped
ResultNeverUnderflows == Pass!ResultNeverUnderflows

(* Every INDENT left out is made up for by the end of a file the scanner   *)
(* accepted, whatever blocks are open around the chain.                    *)
DebtIsPaid == mode = "done" /\ ~errors => Pass!DebtIsPaid

(* "For each INDENT absorbed, a corresponding DEDENT is also absorbed      *)
(* later" (lexer.go:1202): merging moves no token out of, or into, a block *)
(* of its own.                                                             *)
TokensKeepTheirBlocks == Pass!TokensKeepTheirBlocks

(* Both loops end: every source is tokenized or rejected. *)
EventuallyTokenized == <>Tokenized
=============================================================================
