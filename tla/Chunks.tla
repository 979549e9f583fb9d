------------------------------ MODULE Chunks ------------------------------
(* How a long text is cut for the embedder (models/embedding_utils.py) and *)
(* what of it the vectors of a session stand for (observer/steps/          *)
(* embed_step.py).  A text is its words: how many tokens each has, and     *)
(* what ends after it.  Tokens of joined pieces add up, and a character of *)
(* a word that is cut by characters is a token.                            *)
EXTENDS Integers, Sequences, SequencesExt

CONSTANTS
  Sizes,       \* tokens of a word
  MaxWords,    \* bound on a text
  Target, Overlap, Width,   \* tokens of a chunk, repeated, and of the encoder's window
  MaxChunks    \* MAX_CHUNKS_PER_SESSION

ASSUME ChunkAssumption ==
  /\ Sizes \subseteq Nat \ {0} /\ MaxWords \in Nat /\ MaxChunks \in Nat \ {0}
  /\ Target \in Nat \ {0} /\ Overlap \in 0..Target - 1 /\ Width \in Nat /\ Width >= Target

VARIABLES
  text,      \* the words
  cursor,    \* the next word to become part of an atom
  limit,     \* the last word of the part that is being split, or 0
  atoms,     \* _atoms: the smallest units, each a sequence of pieces of words
  packed,    \* how many of them are in chunks
  filling,   \* the chunk that is being filled
  carried,   \* how many of its atoms are repeated
  chunks,    \* the chunks made
  repeats    \* how many atoms at its start each of them repeats

chunkVars == <<text, cursor, limit, atoms, packed, filling, carried, chunks, repeats>>
cutting == <<text, cursor, limit, atoms>>
packing == <<packed, filling, carried, chunks, repeats>>

EndKinds == {"word", "sentence", "part"}
Piece(i, from, to) == [word |-> i, from |-> from, to |-> to]
Total(numbers) ==
  LET upTo[i \in 0..Len(numbers)] == IF i = 0 THEN 0 ELSE upTo[i - 1] + numbers[i] IN
  upTo[Len(numbers)]
Count(atom) == Total([k \in DOMAIN atom |-> atom[k].to - atom[k].from + 1])
Weigh(list) == Total([k \in DOMAIN list |-> Count(list[k])])

ChunkInit ==
  /\ text = <<>> /\ cursor = 1 /\ limit = 0 /\ atoms = <<>>
  /\ packed = 0 /\ filling = <<>> /\ carried = 0 /\ chunks = <<>> /\ repeats = <<>>

-----------------------------------------------------------------------------
(* A text, which is not blank, is to be cut.                               *)
TextArrives ==
  /\ text = <<>>
  /\ \E n \in 1..MaxWords : text' \in [1..n -> [size : Sizes, end : EndKinds]]
  /\ UNCHANGED <<cursor, limit, atoms, packing>>

(* _atoms: a paragraph, or a definition of code, that is under the target  *)
(* stays whole; otherwise its sentences, or lines; otherwise their words.  *)
EndOf(i, kinds) ==
  CHOOSE j \in i..Len(text) :
    /\ text[j].end \in kinds \/ j = Len(text)
    /\ \A k \in i..j - 1 : text[k].end \notin kinds

Words(i, j) == [k \in 1..j - i + 1 |-> Piece(i + k - 1, 1, text[i + k - 1].size)]

PartWhole ==
  LET e == EndOf(cursor, {"part"}) IN
  /\ limit = 0 /\ cursor <= Len(text) /\ Count(Words(cursor, e)) < Target
  /\ atoms' = Append(atoms, Words(cursor, e)) /\ cursor' = e + 1
  /\ UNCHANGED <<text, limit, packing>>

PartSplit ==
  LET e == EndOf(cursor, {"part"}) IN
  /\ limit = 0 /\ cursor <= Len(text) /\ Count(Words(cursor, e)) >= Target
  /\ limit' = e /\ UNCHANGED <<text, cursor, atoms, packing>>

(* _split_oversized: words are gathered up to the target.  One that does   *)
(* not fit starts the next piece, and only one that comes when nothing is  *)
(* gathered is cut by characters.                                          *)
CutUp(p) ==
  [k \in 1..(p.to + Target - 1) \div Target |->
     <<Piece(p.word, (k - 1) * Target + 1, IF k * Target < p.to THEN k * Target ELSE p.to)>>]

Gathered(acc, p) ==
  IF Count(Append(acc.buffer, p)) < Target THEN [acc EXCEPT !.buffer = Append(@, p)]
  ELSE IF acc.buffer = <<>> THEN [pieces |-> acc.pieces \o CutUp(p), buffer |-> <<>>]
  ELSE [pieces |-> Append(acc.pieces, acc.buffer), buffer |-> <<p>>]

Oversized(sentence) ==
  LET upTo[i \in 0..Len(sentence)] ==
        IF i = 0 THEN [pieces |-> <<>>, buffer |-> <<>>] ELSE Gathered(upTo[i - 1], sentence[i])
      r == upTo[Len(sentence)] IN
  IF r.buffer = <<>> THEN r.pieces ELSE Append(r.pieces, r.buffer)

NextSentence ==
  LET e == EndOf(cursor, {"sentence", "part"})
      sentence == Words(cursor, e) IN
  /\ limit # 0
  /\ atoms' = IF Count(sentence) < Target THEN Append(atoms, sentence)
              ELSE atoms \o Oversized(sentence)
  /\ cursor' = e + 1 /\ limit' = IF e = limit THEN 0 ELSE limit
  /\ UNCHANGED <<text, packing>>

-----------------------------------------------------------------------------
(* _tail_for_overlap: the last atom, and those before it while they fit    *)
(* the overlap, unless that is the whole chunk.                            *)
Repeated(list) ==
  LET n == Len(list)
      fits == {k \in 1..n : k = 1 \/ Weigh(SubSeq(list, n - k + 1, n)) <= Overlap}
      most == CHOOSE k \in fits : \A j \in fits : j <= k IN
  IF Overlap = 0 \/ most = n THEN <<>> ELSE SubSeq(list, n - most + 1, n)

(* Fault model: the atom that did not fit is lost with the chunk it closes. *)
PackDropping ==
  LET full == filling # <<>> /\ Weigh(filling) + Count(atoms[packed + 1]) > Target IN
  /\ cursor > Len(text) /\ packed < Len(atoms) /\ packed' = packed + 1
  /\ IF full THEN /\ chunks' = Append(chunks, filling) /\ repeats' = Append(repeats, carried)
                  /\ filling' = Repeated(filling) /\ carried' = Len(Repeated(filling))
     ELSE filling' = Append(filling, atoms[packed + 1]) /\ UNCHANGED <<carried, chunks, repeats>>
  /\ UNCHANGED cutting

(* The loop of chunk_content over the atoms.                               *)
Pack ==
  LET atom == atoms[packed + 1]
      full == filling # <<>> /\ Weigh(filling) + Count(atom) > Target
      carry == Repeated(filling) IN
  /\ cursor > Len(text) /\ packed < Len(atoms) /\ packed' = packed + 1
  /\ IF full THEN /\ chunks' = Append(chunks, filling) /\ repeats' = Append(repeats, carried)
                  /\ filling' = Append(carry, atom) /\ carried' = Len(carry)
     ELSE filling' = Append(filling, atom) /\ UNCHANGED <<carried, chunks, repeats>>
  /\ UNCHANGED cutting

LastChunk ==
  /\ cursor > Len(text) /\ packed = Len(atoms) /\ filling # <<>>
  /\ chunks' = Append(chunks, filling) /\ repeats' = Append(repeats, carried)
  /\ filling' = <<>> /\ carried' = 0
  /\ UNCHANGED <<cutting, packed>>

ChunkNext == TextArrives \/ PartWhole \/ PartSplit \/ NextSentence \/ Pack \/ LastChunk

-----------------------------------------------------------------------------
(* run of EmbedStep: the text itself if it is one chunk, otherwise the     *)
(* first MaxChunks; the encoder stops at its window.                       *)
Encoded == IF Len(chunks) <= 1 THEN <<Words(1, Len(text))>>
           ELSE [k \in 1..(IF Len(chunks) < MaxChunks THEN Len(chunks) ELSE MaxChunks) |->
                   FlattenSeq(chunks[k])]

(* Token n of word i is within the window of what is encoded.              *)
Seen(i, n) ==
  \E c \in ToSet(Encoded) : \E k \in DOMAIN c :
    /\ c[k].word = i /\ n \in c[k].from..c[k].to
    /\ Count(SubSeq(c, 1, k - 1)) + n - c[k].from + 1 <= Width

ChunkDone == packed > 0 /\ filling = <<>>

-----------------------------------------------------------------------------
ChunkTypeOK ==
  /\ cursor \in 1..Len(text) + 1 /\ limit \in 0..Len(text)
  /\ packed \in 0..Len(atoms) /\ carried \in 0..Len(filling)
  /\ Len(repeats) = Len(chunks)
  /\ \A a \in ToSet(atoms) : a # <<>> /\ \A p \in ToSet(a) :
       p.word \in DOMAIN text /\ 1 <= p.from /\ p.from <= p.to /\ p.to <= text[p.word].size

(* Without what they repeat, the chunks are the text, every token once and *)
(* in its order; none is larger than the target, unless it starts with a   *)
(* repeated atom or holds a word above the target, that came after others  *)
(* in its sentence; and if none is, and there are not too many, the        *)
(* vectors stand for every token of the text.                              *)
ChunksSound ==
  LET fresh == [k \in DOMAIN chunks |-> SubSeq(chunks[k], repeats[k] + 1, Len(chunks[k]))]
      pieces == FlattenSeq(FlattenSeq(fresh))
      Long(c) == \E a \in ToSet(c) : Count(a) > Target
      over == {k \in DOMAIN chunks : Weigh(chunks[k]) > Target} IN
  ChunkDone =>
    /\ \A k \in 1..Len(pieces) - 1 :
         LET p == pieces[k]
             q == pieces[k + 1] IN
         \/ q.word = p.word /\ q.from = p.to + 1
         \/ q.word = p.word + 1 /\ q.from = 1 /\ p.to = text[p.word].size
    /\ pieces[1].word = 1 /\ Last(pieces).word = Len(text) /\ Last(pieces).to = Last(text).size
    /\ \A k \in over : repeats[k] > 0 \/ Long(chunks[k])
    /\ \A k \in over : ~Long(chunks[k]) => Weigh(chunks[k]) <= 2 * Target
    /\ over = {} /\ Len(chunks) <= MaxChunks =>
         \A i \in DOMAIN text : \A n \in 1..text[i].size : Seen(i, n)
=============================================================================
