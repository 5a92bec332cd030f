--------------------------- MODULE MCSentenceText ---------------------------
(***************************************************************************)
(* Checks the write engine's text algorithms against the design's          *)
(* reference semantics over every small input: every file of at most      *)
(* MaxWords words over a few tokens, every sentence a client may lock in   *)
(* it, every insert position the engine accepts and every inserted        *)
(* content from NewContents.  The state is the input; nothing changes.    *)
(***************************************************************************)
EXTENDS SentenceText, FiniteSets

CONSTANTS Tokens,       \* ordinary word tokens
          MaxWords,     \* longest file content enumerated
          NewTokens,    \* tokens of inserted words
          NewTerms,     \* the terminator counts inserted words may end with
          MaxTerm,      \* most terminator characters ending a file word
          BareTerms,    \* lengths of the terminator-only words a file may hold
          MaxNew        \* most words inserted at once

VARIABLES content, blank, sent, idx, new

vars == <<content, blank, sent, idx, new>>

Words == {Word(t, n) : t \in Tokens, n \in 0..MaxTerm}
           \cup {Word(Bare, n) : n \in BareTerms}

\* The content argument of an insert: sscanf's "%[^\n]" needs at least one
\* non-blank character, so at least one word.
NewContents ==
  BoundedSeq({Word(t, n) : t \in NewTokens, n \in NewTerms}, MaxNew) \ {<<>>}

\* An input the insert handler accepts: sent passed WRITE's range check and
\* idx is a position InsertWords does not reject.
Init ==
  /\ content \in BoundedSeq(Words, MaxWords)
  /\ blank \in IF content = <<>> THEN BOOLEAN ELSE {FALSE}
  /\ sent \in 1..AvailableSentences(content, blank)
  /\ new \in NewContents
  /\ idx \in 1..(MaxWords + 1)
  /\ InsertWords(content, sent, idx, new) # Rejected

Next == UNCHANGED vars

Spec == Init /\ [][Next]_vars

(***************************************************************************)
(* One writer's edit lands as the design says: locking sentence `sent`,   *)
(* inserting `new` at position `idx` (the insert handler writing the swap) *)
(* and committing with no other writer active (the ETIRW merge of the swap *)
(* into the unchanged live file) yields exactly the file with `new`        *)
(* inserted at that position of that sentence, the terminator on the      *)
(* sentence's new last word.                                              *)
(***************************************************************************)
SoloEditLandsAsSpecified ==
  MergeSwap(content, InsertWords(content, sent, idx, new), sent)
    = EditRef(content, sent, idx, new)
=============================================================================
