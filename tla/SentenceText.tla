---------------------------- MODULE SentenceText ----------------------------
(***************************************************************************)
(* The text algorithms of the storage server's write engine               *)
(* (src/storage_server/main.c), as pure operators over word sequences.     *)
(*                                                                         *)
(* A file's content is what strtok(" \t\n") makes of it: a sequence of    *)
(* words.  A word is abstracted to a token and nt, the number of '.', '!' *)
(* and '?' characters that end it; only the last character decides a       *)
(* sentence end.  The token Bare stands for a word that is nothing but     *)
(* terminators (e.g. "." or "?!").  Whitespace is not modelled: every     *)
(* writer in the code re-joins words with one space, and every reader      *)
(* re-tokenises, so only the word sequence is observable, except that      *)
(* WRITE tells a file of blanks only from a file of zero bytes.            *)
(***************************************************************************)
EXTENDS Naturals, Sequences, SequencesExt

CONSTANTS Bare,        \* the token of a word made of a terminator only
          Rejected     \* the result of an insert the code answers ERR_404

Word(tok, nt) == [tok |-> tok, nt |-> nt]

\* The word's last character is '.', '!' or '?'.
IsTerm(w) == w.nt > 0

(***************************************************************************)
(* Sentence boundaries, as computed in get_sentence_info_simple, in the    *)
(* insert handler and twice in the commit handler: a sentence ends at a    *)
(* word whose last character is a terminator; trailing words without one   *)
(* form one more sentence.                                                 *)
(***************************************************************************)
RECURSIVE Sentences(_)
Sentences(ws) ==
  IF ws = <<>> THEN <<>>
  ELSE LET firstEnd == SelectInSeq(ws, LAMBDA w : IsTerm(w))
           k == IF firstEnd = 0 THEN Len(ws) ELSE firstEnd
       IN  <<SubSeq(ws, 1, k)>> \o Sentences(SubSeq(ws, k + 1, Len(ws)))

\* The words of the sentences i..j of a sentence list.
Span(ss, i, j) == FlattenSeq(SubSeq(ss, i, j))

(***************************************************************************)
(* The number of sentences WRITE lets a client lock: 1 in a file of zero  *)
(* bytes, 2 in a file of blanks only (blank: bytes but no words),         *)
(* otherwise the sentence count, plus one when the last word ends a        *)
(* sentence (a new sentence may be started after it).                      *)
(***************************************************************************)
AvailableSentences(ws, blank) ==
  CASE ws = <<>> /\ ~blank -> 1
    [] ws = <<>>           -> 2
    [] OTHER -> Len(Sentences(ws)) + (IF IsTerm(Last(ws)) THEN 1 ELSE 0)

(***************************************************************************)
(* Steps of the insert handler on the target sentence s: take the last    *)
(* character off its last word when it is a terminator (a word left empty *)
(* is dropped), splice the new words in before position idx (after the    *)
(* last word when idx is one past it), and append that one character to    *)
(* the last word written.                                                  *)
(***************************************************************************)
PeelTerminator(s) ==
  CASE ~IsTerm(Last(s))                      -> s
    [] Last(s).tok = Bare /\ Last(s).nt = 1  -> Front(s)
    [] OTHER                                 -> [s EXCEPT ![Len(s)].nt = @ - 1]

SpliceWords(ws, idx, new) ==
  SubSeq(ws, 1, idx - 1) \o new \o SubSeq(ws, idx, Len(ws))

Reattach(ws, delim) ==
  IF delim THEN [ws EXCEPT ![Len(ws)].nt = @ + 1] ELSE ws

(***************************************************************************)
(* The insert handler: insert the words new at 1-based position idx of    *)
(* sentence sent of content (read from the swap file, or the live file if  *)
(* there is no swap), and return the new swap content.  Empty content     *)
(* takes only position 1 and the swap becomes new; a sentence past the    *)
(* last one takes only position 1 and new is appended to the whole        *)
(* content; otherwise the target sentence is edited in place.             *)
(***************************************************************************)
InsertWords(content, sent, idx, new) ==
  LET ss == Sentences(content) IN
  CASE idx < 1 -> Rejected
    [] content = <<>> /\ sent = 1 -> IF idx = 1 THEN new ELSE Rejected
    [] sent > Len(ss) -> IF idx = 1 THEN content \o new ELSE Rejected
    [] OTHER ->
       LET s      == ss[sent]
           peeled == PeelTerminator(s)
       IN  IF idx > Len(peeled) + 1 THEN Rejected
           ELSE Span(ss, 1, sent - 1)
                  \o Reattach(SpliceWords(peeled, idx, new), IsTerm(Last(s)))
                  \o Span(ss, sent + 1, Len(ss))

(***************************************************************************)
(* The commit (ETIRW) merge of a writer's swap into the live file for      *)
(* target sentence t: an empty live file takes the whole swap; a target    *)
(* past the live file's last sentence appends the swap's LAST sentence;    *)
(* otherwise the live sentences around t are kept and sentence t is taken *)
(* from the swap, if the swap has one.                                     *)
(***************************************************************************)
MergeSwap(live, swap, t) ==
  LET ls == Sentences(live)
      sw == Sentences(swap)
  IN  CASE ls = <<>>    -> swap
        [] t > Len(ls)  -> live \o (IF sw = <<>> THEN <<>> ELSE Last(sw))
        [] OTHER        -> Span(ls, 1, t - 1)
                             \o (IF t <= Len(sw) THEN sw[t] ELSE <<>>)
                             \o Span(ls, t + 1, Len(ls))

-----------------------------------------------------------------------------
(***************************************************************************)
(* The write semantics the design document (spec.md 4.9, 8.6, 8.7, S2)     *)
(* states, written independently of the code: one writer who locks         *)
(* sentence t, inserts the words new at position idx and commits with no   *)
(* concurrent change turns the file into the file with new inserted at     *)
(* that position of sentence t; the sentence's terminating punctuation     *)
(* moves to its new last word, and terminators inside new stay as they     *)
(* are; a sentence past the end is new appended to the file.              *)
(***************************************************************************)
EditRef(content, t, idx, new) ==
  LET ss == Sentences(content) IN
  IF t > Len(ss) THEN content \o new
  ELSE LET s     == ss[t]
           \* the sentence's words with its terminator taken off
           words == SelectSeq([i \in 1..Len(s) |-> Word(s[i].tok, 0)],
                              LAMBDA w : w.tok # Bare)
           ins   == SubSeq(words, 1, idx - 1) \o new
                      \o SubSeq(words, idx, Len(words))
       IN  Span(ss, 1, t - 1)
             \o [ins EXCEPT ![Len(ins)].nt = @ + Last(s).nt]
             \o Span(ss, t + 1, Len(ss))
=============================================================================
