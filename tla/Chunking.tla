------------------------------- MODULE Chunking -------------------------------
(***************************************************************************)
(* How src/app/knowledge/documents/chunkers cuts the text of a document.   *)
(* A text is a sequence of characters: a letter, an upper-case one, is its *)
(* own position; full stops, spaces and newlines are all alike.            *)
(***************************************************************************)
EXTENDS Integers, Sequences, SequencesExt

CONSTANTS
    Length,     (* bound: characters of a document *)
    Sizes       (* chunk sizes                     *)

VARIABLES
    content,    (* the document's text                                        *)
    cut         (* how it was cut: [by, size, overlap], and into which chunks *)

chunkVars == <<content, cut>>

Space == 0
Newline == -1
Stop == -2

White(c) == c \in {Space, Newline}
IsLetter(c) == c > 0

Letters(text) == SelectSeq(text, IsLetter)
Solid(text)   == SelectSeq(text, LAMBDA c : ~White(c))
Stops(text)   == Len(SelectSeq(text, LAMBDA c : c = Stop))

Uncut == [by |-> "none", size |-> 0, overlap |-> 0, chunks |-> <<>>]

Init ==
    /\ content \in {[i \in 1..Length |-> IF shape[i] = 1 THEN i ELSE shape[i]] :
                        shape \in [1..Length -> {1, Space, Newline, Stop}]}
    /\ cut = Uncut

(* str.strip. *)
Strip(text) ==
    LET at == {i \in DOMAIN text : ~White(text[i])}
    IN  IF at = {} THEN <<>> ELSE SubSeq(text, Min(at), Max(at))

Stripped(parts) == SelectSeq([i \in DOMAIN parts |-> Strip(parts[i])], LAMBDA p : p # <<>>)

-----------------------------------------------------------------------------
(* A window ends at the last paragraph break in it, if that lies past its    *)
(* half and the text goes on after it.                                       *)
Cut(text, start, size) ==
    LET breaks == {i \in 0..(size - 2) : text[start + i + 1] = Newline /\ text[start + i + 2] = Newline}
    IN  IF start + size < Len(text) /\ breaks # {} /\ Max(breaks) > size \div 2 THEN Max(breaks) ELSE size

RECURSIVE Windows(_, _, _, _)

(* FixedChunker: the next window begins `overlap` characters before the end  *)
(* of the last one.  With an overlap past half the size it may not advance.  *)
Windows(text, start, size, overlap) ==
    IF start >= Len(text) THEN <<>>
    ELSE LET end == start + Cut(text, start, size)
         IN  <<SubSeq(text, start + 1, Min({end, Len(text)}))>>
             \o (IF end - overlap <= 0 /\ end >= Len(text) THEN <<>>
                 ELSE Windows(text, end - overlap, size, overlap))

Until(text, i) == SubSeq(text, 1, i - 1)
From(text, i)  == SubSeq(text, i, Len(text))

RECURSIVE SplitOn(_, _)

(* str.split, of a separator that is a text as well. *)
SplitOn(text, separator) ==
    LET at == {i \in DOMAIN text : IsPrefix(separator, From(text, i))}
    IN  IF at = {} THEN <<text>>
        ELSE <<Until(text, Min(at))>> \o SplitOn(From(text, Min(at) + Len(separator)), separator)

RECURSIVE Sentences(_)

(* A sentence ends with a stop before white space and a letter. *)
Sentences(text) ==
    LET at == {i \in 2..(Len(text) - 1) :
                 text[i - 1] = Stop /\ White(text[i])
                   /\ IsLetter(Head(Strip(From(text, i)) \o <<Space>>))}
    IN  IF at = {} THEN <<text>>
        ELSE <<Until(text, Min(at))>> \o Sentences(Strip(From(text, Min(at))))

(* ParagraphChunker and SentenceChunker: parts are joined as long as they    *)
(* fit.                                                                      *)
Packed(parts, separator, size) ==
    LET Pack(packed, part) ==
            IF packed = <<>> THEN <<part>>
            ELSE IF Len(Last(packed)) + Len(separator) + Len(part) <= size
                 THEN [packed EXCEPT ![Len(packed)] = @ \o separator \o part]
                 ELSE Append(packed, part)
    IN  FoldLeft(Pack, <<>>, Stripped(parts))

(* The hard split of RecursiveChunker. *)
Slices(text, size, overlap) ==
    LET step == Max({1, size - overlap})
    IN  [k \in 1..((Len(text) + step - 1) \div step) |->
            SubSeq(text, (k - 1) * step + 1, Min({(k - 1) * step + size, Len(text)}))]

RECURSIVE Split(_, _, _, _)

(* RecursiveChunker: parts are joined with their separator as long as they   *)
(* fit, and one that alone does not is split at the next separator.  Between *)
(* parts that are not joined the separator is dropped.                       *)
Split(text, separators, size, overlap) ==
    LET Finer(part) == IF Len(separators) > 1 THEN Split(part, Tail(separators), size, overlap)
                       ELSE Slices(part, size, overlap)
        Take(s, part) ==
            LET candidate == IF s.current = <<>> THEN part
                             ELSE s.current \o Head(separators) \o part
                done == IF s.current = <<>> THEN s.result ELSE Append(s.result, s.current)
            IN  IF Len(candidate) <= size THEN [s EXCEPT !.current = candidate]
                ELSE IF Len(part) <= size THEN [result |-> done, current |-> part]
                ELSE [result |-> done \o Finer(part), current |-> <<>>]
        end == FoldLeft(Take, [result |-> <<>>, current |-> <<>>], SplitOn(text, Head(separators)))
    IN  IF Len(text) <= size THEN <<text>>
        ELSE IF end.current = <<>> THEN end.result ELSE Append(end.result, end.current)

-----------------------------------------------------------------------------
Break == <<Newline, Newline>>

RECURSIVE_SEPARATORS == <<<<Newline>> \o Break, Break, <<Newline>>, <<Stop, Space>>, <<Space>>>>

Fixed(size, overlap)     == Stripped(Windows(content, 0, size, overlap))
Recursive(size, overlap) == Stripped(Split(content, RECURSIVE_SEPARATORS, size, overlap))
Paragraph(size)          == Packed(SplitOn(content, Break), Break, size)
Sentence(size)           == Packed(Sentences(content), <<Space>>, size)

(* chunk(); a blank document has no chunks. *)
Chunk(by, size, overlap, chunks) ==
    /\ cut = Uncut /\ Solid(content) # <<>>
    /\ cut' = [by |-> by, size |-> size, overlap |-> overlap, chunks |-> chunks]
    /\ UNCHANGED content

Next ==
    \E size \in Sizes :
        \/ \E overlap \in 0..(size \div 2) :
              \/ Chunk("fixed", size, overlap, Fixed(size, overlap))
              \/ Chunk("recursive", size, overlap, Recursive(size, overlap))
        \/ Chunk("paragraph", size, 0, Paragraph(size))
        \/ Chunk("sentence", size, 0, Sentence(size))

Spec == Init /\ [][Next]_chunkVars

-----------------------------------------------------------------------------
InText(piece) == \E i \in 1..Length : IsPrefix(piece, From(content, i))

(* Chunks are pieces of the text as it stands, within the size, in the order *)
(* of the text; together they have every letter of it, and without an        *)
(* overlap each once.                                                        *)
Pieces(chunks) ==
    LET lettered == SelectSeq(chunks, LAMBDA p : Letters(p) # <<>>)
    IN  /\ \A k \in DOMAIN chunks : InText(chunks[k]) /\ Len(chunks[k]) <= cut.size
        /\ \A k \in 1..(Len(lettered) - 1) : Letters(lettered[k])[1] <= Letters(lettered[k + 1])[1]
        /\ ToSet(Letters(FlattenSeq(chunks))) = ToSet(Letters(content))
        /\ cut.overlap = 0 => Letters(FlattenSeq(chunks)) = Letters(content)

(* Every character of the document but white space is in its chunks.  A      *)
(* packing chunker keeps all in order, goes past the size only with a single *)
(* part, and does not keep apart two chunks that would fit in one.           *)
PacksAll(chunks, separator, Parts(_)) ==
    /\ Solid(FlattenSeq(chunks)) = Solid(content)
    /\ \A k \in DOMAIN chunks : Len(chunks[k]) > cut.size => Len(Parts(chunks[k])) = 1
    /\ \A k \in 1..(Len(chunks) - 1) :
          Len(chunks[k]) + Len(separator) + Len(Head(Parts(chunks[k + 1]))) > cut.size

(* What the chunks of a document are.  The recursive chunker also loses full *)
(* stops, but none that is not before a space: the separator between two     *)
(* sentences is dropped where a chunk ends.                                  *)
ChunksSound ==
    LET chunks == cut.chunks
        lossy  == {i \in 1..(Length - 1) : content[i] = Stop /\ content[i + 1] = Space}
    IN  /\ cut.by = "fixed" => Pieces(chunks) /\ Stops(FlattenSeq(chunks)) >= Stops(content)
        /\ cut.by = "recursive" =>
              Pieces(chunks) /\ Stops(FlattenSeq(chunks)) + Cardinality(lossy) >= Stops(content)
        /\ cut.by = "paragraph" => PacksAll(chunks, Break, LAMBDA p : SplitOn(p, Break))
        /\ cut.by = "sentence" => PacksAll(chunks, <<Space>>, Sentences)
=============================================================================
