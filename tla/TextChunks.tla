------------------------------ MODULE TextChunks ------------------------------
(***************************************************************************)
(* How tts-service cuts text for the model: get_text_chunks, for streams,  *)
(* by characters; chunk_text, for requests, by words. A chunk is given by  *)
(* where it begins and ends in what is cut. A loop is the function from    *)
(* the number of its turns to the values of its variables.                 *)
(***************************************************************************)
EXTENDS Integers, Sequences, FiniteSetsExt

CONSTANTS
  MaxLengths,  \* values of max_length to check (the code: 400)
  MaxText,     \* bound: characters of a text
  MaxWords     \* bound: words of a text

ASSUME ChunkAssumption ==
  MaxLengths \subseteq Nat \ {0} /\ MaxText \in Nat /\ MaxWords \in Nat

\* What lies from a to b; nothing if b is a - 1.
Piece(a, b) == [from |-> a, to |-> b]

Size(piece) == piece.to - piece.from + 1

-----------------------------------------------------------------------------
\* Letters, white space, punctuation.
Chars  == {"a", " ", "."}
Breaks == {" ", "."}

Said(text, piece) == {i \in piece.from..piece.to : text[i] # " "}

Blank(text, piece) == Said(text, piece) = {}

Strip(text, piece) ==
  LET I == Said(text, piece)
  IN IF I = {} THEN Piece(piece.from, piece.from - 1) ELSE Piece(Min(I), Max(I))

\* Mutant of BreakPoint: the break itself is lost from sight, one too late.
BreakPointLate(text, rest, max) ==
  LET I == {i \in (rest.from + max \div 2 + 1)..(rest.from + max - 1) : text[i] \in Breaks}
  IN IF I = {} THEN rest.from + max - 1 ELSE Max(I) + 1

\* The last break in the second half of the first max characters, else the last of them.
BreakPoint(text, rest, max) ==
  LET I == {i \in (rest.from + max \div 2 + 1)..(rest.from + max - 1) : text[i] \in Breaks}
  IN IF I = {} THEN rest.from + max - 1 ELSE Max(I)

\* A turn of the loop: chunks and what is left of text.
CutOff(text, s, max) ==
  LET b == BreakPoint(text, s.rest, max)
  IN [chunks |-> Append(s.chunks, Strip(text, Piece(s.rest.from, b))),
      rest   |-> Strip(text, Piece(b + 1, s.rest.to))]

\* The loop; every turn takes a character, so Len(text) turns are enough.
StreamTurns(text, max) ==
  LET turn[n \in 0..Len(text)] ==
        IF n = 0 THEN [chunks |-> <<>>, rest |-> Piece(1, Len(text))]
        ELSE LET s == turn[n - 1]
             IN IF Size(s.rest) > max THEN CutOff(text, s, max) ELSE s
  IN turn

GetTextChunks(text, max) ==
  LET end == StreamTurns(text, max)[Len(text)]
  IN IF Size(end.rest) > 0 THEN Append(end.chunks, end.rest) ELSE end.chunks

-----------------------------------------------------------------------------
\* A normalized text as the lengths of its words, which one space separates: the
\* last character of each, counted from the space that would stand before the text.
Ends(words) ==
  LET end[n \in 0..Len(words)] == IF n = 0 THEN -1 ELSE end[n - 1] + 1 + words[n]
  IN end

Length(words, piece) ==
  IF Size(piece) = 0 THEN 0 ELSE Ends(words)[piece.to] - Ends(words)[piece.from - 1] - 1

\* Mutant of Fits: the space is forgotten.
FitsWithoutSpace(words, sent, n, max) == Length(words, sent) + words[n] <= max

Fits(words, sent, n, max) == Length(words, sent) + words[n] + 1 <= max

\* A turn of the loop for word n: chunks and where tmp_sent begins, which has no word
\* only before the first.
AddWord(words, s, n, max) ==
  LET sent == Piece(s.from, n - 1)
  IN IF Fits(words, sent, n, max) \/ Size(sent) = 0 THEN s
     ELSE [chunks |-> Append(s.chunks, sent), from |-> n]

RequestTurns(words, max) ==
  LET turn[n \in 0..Len(words)] ==
        IF n = 0 THEN [chunks |-> <<>>, from |-> 1]
        ELSE AddWord(words, turn[n - 1], n, max)
  IN turn

\* A text that is short enough is not looked at.
ChunkText(words, max) ==
  LET all == Piece(1, Len(words))
      end == RequestTurns(words, max)[Len(words)]
  IN IF Length(words, all) <= max THEN <<all>>
     ELSE Append(end.chunks, Piece(end.from, Len(words)))

-----------------------------------------------------------------------------
\* Chunk d goes on where c ended with a letter: then the word is as long as the part
\* in which a break is looked for.
CutInAWord(text, c, d, max) ==
  c.to + 1 = d.from /\ text[c.to] \notin Breaks
    => \A i \in (c.to - (max - 1 - max \div 2) + 1)..c.to : text[i] \notin Breaks

\* The chunks are pieces of the text in their order, without overlap, only white
\* space is in none, no chunk is longer than the model takes, the last one has
\* something to say (run_tts_inference marks it isFinal, but skips blank chunks),
\* and a word is cut only if it is too long.
StreamCutRight(text, max) ==
  LET chunks == GetTextChunks(text, max)
      N == Len(chunks)
  IN /\ \A i, j \in 1..N : i < j => chunks[i].to < chunks[j].from
     /\ \A p \in Said(text, Piece(1, Len(text))) :
          \E i \in 1..N : p \in chunks[i].from..chunks[i].to
     /\ \A i \in 1..N : Size(chunks[i]) <= max
     /\ N > 0 /\ ~ Blank(text, chunks[N])
     /\ \A i \in 1..(N - 1) : CutInAWord(text, chunks[i], chunks[i + 1], max)

\* Every text with something to say is cut right.
StreamChunksRight ==
  \A max \in MaxLengths :
    \A text \in UNION {[1..n -> Chars] : n \in 0..MaxText} :
      ~ Blank(text, Piece(1, Len(text))) => StreamCutRight(text, max)

\* The chunks are the words in their order, each in one, a chunk is longer than the
\* model takes only if it is one word, and none could have taken the next word.
RequestCutRight(words, max) ==
  LET chunks == ChunkText(words, max)
      N == Len(chunks)
  IN /\ N > 0 /\ chunks[1].from = 1 /\ chunks[N].to = Len(words)
     /\ \A i \in 1..N : /\ Size(chunks[i]) > 0
                        /\ Length(words, chunks[i]) <= max \/ Size(chunks[i]) = 1
     /\ \A i \in 1..(N - 1) :
          /\ chunks[i + 1].from = chunks[i].to + 1
          /\ Length(words, Piece(chunks[i].from, chunks[i].to + 1)) > max

\* Every text that chunk_text is given is cut right.
RequestChunksRight ==
  \A max \in MaxLengths :
    \A words \in UNION {[1..n -> 1..(max + 1)] : n \in 1..MaxWords} :
      RequestCutRight(words, max)
=============================================================================
