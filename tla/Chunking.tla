------------------------------ MODULE Chunking ------------------------------
(***************************************************************************)
(* How a document becomes chunks: `chunk_html` of sync_job/chunking.py for *)
(* the articles of Document360, and the two chunkers of manual_ingest.py   *)
(* for PDF files, by paragraph and by section.                             *)
(*                                                                         *)
(* A document is a sequence of items: what the HTML parser reports, the    *)
(* sentences of a PDF file, or its lines.  A text is a sequence of         *)
(* characters, each with the item it is from, its place there, and whether *)
(* it ends a sentence; within an item there is no space.                   *)
(***************************************************************************)
EXTENDS Naturals, FiniteSets, Sequences

CONSTANTS
    Target,       \* _TARGET_CHARS, and max_chars of the chunker by section
    MinSection,   \* _MIN_SECTION
    Sizes,        \* how long an item may be (bound)
    MaxItems      \* how many there may be (bound)

ASSUME ChunkingAssumption ==
    /\ Target \in Nat \ {0, 1} /\ MinSection \in Nat \ {0} /\ MaxItems \in Nat
    /\ Sizes \subseteq Nat \ {0}

(***************************************************************************)
(* Texts.                                                                  *)
(***************************************************************************)

Space == <<0, 0, FALSE>>

Characters(i, size, ends) == [k \in 1 .. size |-> <<i, k, ends /\ k = size>>]

\* One after the other.
Flat(seqs) ==
    LET upto[k \in 0 .. Len(seqs)] == IF k = 0 THEN <<>> ELSE upto[k - 1] \o seqs[k]
    IN  upto[Len(seqs)]

\* What is left of s without some of its elements.
Without(s, dropped) ==
    Flat([k \in 1 .. Len(s) |-> IF s[k] \in dropped THEN <<>> ELSE <<s[k]>>])

Letters(text) == Without(text, {Space})

Strip(text) ==
    LET inside == {i \in 1 .. Len(text) : text[i] # Space} IN
    IF inside = {} THEN <<>>
    ELSE SubSeq(text, CHOOSE i \in inside : \A j \in inside : i <= j,
                      CHOOSE i \in inside : \A j \in inside : j <= i)

\* With a space between two texts, of which one may be empty.
Join(text, more) ==
    IF text = <<>> \/ more = <<>> THEN text \o more
    ELSE text \o <<Space>> \o more

JoinAll(texts) ==
    LET upto[k \in 0 .. Len(texts)] ==
            IF k = 0 THEN <<>> ELSE Join(upto[k - 1], texts[k])
    IN  upto[Len(texts)]

\* One more element, in a part of its own or in the last one.
AddTo(parts, element, apart) ==
    IF parts = <<>> \/ apart THEN Append(parts, <<element>>)
    ELSE [parts EXCEPT ![Len(parts)] = Append(@, element)]

\* A sequence in parts, of which one begins at each of the positions.
Cut(s, positions) ==
    LET upto[k \in 0 .. Len(s)] ==
            IF k = 0 THEN <<>> ELSE AddTo(upto[k - 1], s[k], k \in positions)
    IN  upto[Len(s)]

\* A text in parts, without the space between two of them.
Split(text, positions) ==
    LET parts == Cut(text, positions) IN
    [n \in 1 .. Len(parts) |-> Strip(parts[n])]

\* Split after the end of a sentence that a space follows.
Sentences(text) ==
    Split(text, {k \in 3 .. Len(text) : text[k - 1] = Space /\ text[k - 2][3]})

\* What is too long, cut every Target characters.
Slices(text) ==
    [i \in 1 .. (Len(text) + Target - 1) \div Target |->
        SubSeq(text, (i - 1) * Target + 1,
               IF i * Target < Len(text) THEN i * Target ELSE Len(text))]

HardSplit(text) ==
    LET slices == Slices(text) IN [i \in 1 .. Len(slices) |-> Strip(slices[i])]

(***************************************************************************)
(* PDF files.                                                              *)
(***************************************************************************)

Done(packed) ==
    IF packed.open = <<>> THEN packed.chunks ELSE Append(packed.chunks, packed.open)

\* Mutation of Room: the space between two texts is not counted.
RoomWithoutSpace(open, text) == Len(open) + Len(text) <= Target

Room(open, text) == Len(open) + Len(text) + 1 <= Target

\* One text for a greedy packer; `parts` is what it makes of one that is too long.
AddText(packed, text, parts) ==
    CASE Len(text) > Target -> [chunks |-> Done(packed) \o parts, open |-> <<>>]
      [] Len(text) <= Target /\ packed.open # <<>> /\ ~Room(packed.open, text) ->
            [chunks |-> Done(packed), open |-> text]
      [] OTHER -> [packed EXCEPT !.open = Join(@, text)]

NothingPacked == [chunks |-> <<>>, open |-> <<>>]

\* `_chunk_text`, `_split_long` and `_pack` differ in what the parts of a text are.
Pack(texts, parts) ==
    LET upto[k \in 0 .. Len(texts)] ==
            IF k = 0 THEN NothingPacked ELSE AddText(upto[k - 1], texts[k], parts[k])
    IN  Done(upto[Len(texts)])

\* _pack.
PackUnits(units) == Pack(units, [n \in 1 .. Len(units) |-> HardSplit(units[n])])

\* _split_long.
PackSentences(text) == PackUnits(Sentences(text))

\* _segments: split before a bullet that a space follows, whether or not one goes
\* before it; what begins with a bullet stays whole.
ListItemsAndSentences(text, bullets) ==
    LET begins == {k \in 1 .. Len(text) - 1 : text[k] \in bullets /\ text[k + 1] = Space}
        parts == Split(text, begins) IN
    Flat([n \in 1 .. Len(parts) |->
        IF parts[n][1] \in bullets THEN <<parts[n]>> ELSE Sentences(parts[n])])

PackSection(text, bullets) == PackUnits(ListItemsAndSentences(text, bullets))

\* What ends with a bullet, and what begins with one.
BulletKinds == {"bullet", "bulleted"}

\* They end no sentence, and a heading does not, either.
EndsSentence(item) == item.kind \notin BulletKinds \cup {"heading"}

\* The text of some items of a PDF file.
Passage(items, part) ==
    JoinAll([n \in 1 .. Len(part) |->
        Characters(part[n], items[part[n]].size, EndsSentence(items[part[n]]))])

Passages(items, parts) == [n \in 1 .. Len(parts) |-> Passage(items, parts[n])]

Indices(items) == [i \in 1 .. Len(items) |-> i]

\* The positions at which `lines` names an item of the kind.
PositionsOf(items, lines, kind) == {n \in 1 .. Len(lines) : items[lines[n]].kind = kind}

\* _chunk_text.
ChunkParagraphs(items) ==
    LET lines == Indices(items)
        paragraphs == Passages(items, Cut(lines, PositionsOf(items, lines, "paragraph"))) IN
    Pack(paragraphs, [n \in 1 .. Len(paragraphs) |-> PackSentences(paragraphs[n])])

\* Mutation of FoldIn: a short section is folded into the one before it.
FoldInBackwards(merged, body) ==
    IF merged # <<>> /\ Len(body) < MinSection
    THEN [merged EXCEPT ![Len(merged)] = Join(@, body)]
    ELSE Append(merged, body)

\* A section that is too short is folded into the next.
FoldIn(merged, body) ==
    IF merged # <<>> /\ Len(merged[Len(merged)]) < MinSection
    THEN [merged EXCEPT ![Len(merged)] = Join(@, body)]
    ELSE Append(merged, body)

Fold(sections) ==
    LET upto[k \in 0 .. Len(sections)] ==
            IF k = 0 THEN <<>> ELSE FoldIn(upto[k - 1], sections[k])
    IN  upto[Len(sections)]

\* The characters that are bullets: glued to a word, or an item each.
Bullets(items) ==
    {<<i, IF items[i].kind = "bullet" THEN items[i].size ELSE 1, FALSE>> :
        i \in {j \in 1 .. Len(items) : items[j].kind \in BulletKinds}}

\* _chunk_text_by_section.  Noise is a footer or a line that looks like one of a
\* table of contents.
ChunkSections(items) ==
    LET noise == {i \in 1 .. Len(items) : items[i].kind = "noise"}
        lines == Without(Indices(items), noise)
        bodies == Fold(Passages(items, Cut(lines, PositionsOf(items, lines, "heading")))) IN
    Flat([n \in 1 .. Len(bodies) |->
        IF Len(bodies[n]) <= Target THEN <<bodies[n]>>
        ELSE PackSection(bodies[n], Bullets(items))])

(***************************************************************************)
(* HTML.                                                                   *)
(***************************************************************************)

\* _flush_text: inside a heading the text is dropped.
Flush(parser) ==
    [parser EXCEPT
        !.buffer = <<>>,
        !.segments =
            IF parser.buffer # <<>> /\ ~parser.inHeading
            THEN Append(@, [kind |-> "text", text |-> parser.buffer]) ELSE @]

\* _TextExtractor, on one event.
Handle(parser, i, item) ==
    CASE item.kind = "skip" -> [parser EXCEPT !.depth = @ + 1]
      [] item.kind = "/skip" ->
            [parser EXCEPT !.depth = IF @ = 0 THEN 0 ELSE @ - 1]
      [] item.kind = "heading" -> [Flush(parser) EXCEPT !.inHeading = TRUE]
      [] item.kind = "/heading" ->
            [parser EXCEPT
                !.buffer = <<>>, !.inHeading = FALSE,
                !.segments =
                    IF parser.buffer # <<>>
                    THEN Append(@, [kind |-> "heading", text |-> parser.buffer]) ELSE @]
      [] item.kind = "/block" -> Flush(parser)
      [] item.kind = "data" ->
            IF parser.depth > 0 THEN parser
            ELSE [parser EXCEPT !.buffer = @ \o Characters(i, item.size, FALSE)]

NothingParsed == [buffer |-> <<>>, inHeading |-> FALSE, depth |-> 0, segments |-> <<>>]

\* html_to_segments.
Segments(items) ==
    LET upto[k \in 0 .. Len(items)] ==
            IF k = 0 THEN NothingParsed ELSE Handle(upto[k - 1], k, items[k])
    IN  Flush(upto[Len(items)]).segments

\* flush in chunk_html.
Close(state) ==
    IF state.open = <<>> THEN state.chunks
    ELSE Append(state.chunks, [text |-> JoinAll(state.open), heading |-> state.heading])

\* buffer_len: without the spaces between the pieces.
Width(pieces) == Len(Flat(pieces))

\* Mutation of AddHeading: what is before a heading stays in the buffer.
AddHeadingOnly(state, text) == [state EXCEPT !.heading = text]

AddHeading(state, text) ==
    [chunks |-> Close(state), open |-> <<>>, heading |-> text]

\* What is too long, in chunks of its own.  The slices are not stripped.
Pieces(text, heading) ==
    [n \in 1 .. Len(Slices(text)) |-> [text |-> Slices(text)[n], heading |-> heading]]

\* Mutation of AddPiece: the buffer is not flushed before a long piece.
AddPieceUnflushed(state, text) ==
    IF Len(text) > Target
    THEN [state EXCEPT !.chunks = @ \o Pieces(text, state.heading)]
    ELSE [state EXCEPT !.open = Append(@, text)]

AddPiece(state, text) ==
    CASE Len(text) > Target ->
            [state EXCEPT !.open = <<>>,
                          !.chunks = Close(state) \o Pieces(text, state.heading)]
      [] Len(text) <= Target /\ Width(state.open) + Len(text) > Target ->
            [state EXCEPT !.chunks = Close(state), !.open = <<text>>]
      [] OTHER -> [state EXCEPT !.open = Append(@, text)]

AddSegment(state, segment) ==
    IF segment.kind = "heading" THEN AddHeading(state, segment.text)
    ELSE AddPiece(state, segment.text)

NothingChunked == [chunks |-> <<>>, open |-> <<>>, heading |-> <<>>]

ChunkHtml(items) ==
    LET segments == Segments(items)
        upto[k \in 0 .. Len(segments)] ==
            IF k = 0 THEN NothingChunked ELSE AddSegment(upto[k - 1], segments[k])
    IN  Close(upto[Len(segments)])

(***************************************************************************)
(* One document is chunked.                                                *)
(***************************************************************************)

ItemKinds ==
    [html |-> {"data", "heading", "/heading", "/block", "skip", "/skip"},
     paragraphs |-> {"sentence", "paragraph"},
     sections |-> {"line", "heading", "noise"} \cup BulletKinds]

\* Tags and noise have no size that matters.
Sized == {"data", "sentence", "paragraph", "line"} \cup BulletKinds
HasSize(chunker, kind) ==
    \/ kind \in Sized
    \/ chunker = "sections" /\ kind = "heading"

\* A heading is short, and so is a word with a bullet.  (A bullet between spaces is
\* of the other kind.)
IsShort(kind) == kind \in BulletKinds \cup {"heading"}

Items(chunker) ==
    {item \in [kind : ItemKinds[chunker], size : Sizes \cup {1}] :
        /\ HasSize(chunker, item.kind) \/ item.size = 1
        /\ IsShort(item.kind) => item.size <= Target
        /\ item.kind = "bulleted" => item.size > 1}

NoDocument == [chunker |-> "none", items |-> <<>>]

VARIABLES
    document,   \* the document, and which chunker it is for
    chunks      \* what becomes of it

chunkVars == <<document, chunks>>

ChunkInit == document = NoDocument /\ chunks = <<>>

Plain(texts) == [n \in 1 .. Len(texts) |-> [text |-> texts[n], heading |-> <<>>]]

ChunksOf(chunker, items) ==
    CASE chunker = "html" -> ChunkHtml(items)
      [] chunker = "paragraphs" -> Plain(ChunkParagraphs(items))
      [] chunker = "sections" -> Plain(ChunkSections(items))

ChunkDocument ==
    /\ document = NoDocument
    /\ \E chunker \in DOMAIN ItemKinds, n \in 1 .. MaxItems :
          \E items \in [1 .. n -> Items(chunker)] :
             /\ document' = [chunker |-> chunker, items |-> items]
             /\ chunks' = ChunksOf(chunker, items)

ChunkSpec == ChunkInit /\ [][ChunkDocument]_chunkVars

(***************************************************************************)
(* Properties.                                                             *)
(***************************************************************************)

IsFor(chunker) == document.chunker = chunker
Kind(i) == document.items[i].kind
Before(i, kind) == {j \in 1 .. i - 1 : Kind(j) = kind}

\* Item i of an HTML document is in an element of the kind.
Inside(i, open, close) == Cardinality(Before(i, open)) > Cardinality(Before(i, close))

InHeading(i) == Inside(i, "heading", "/heading")
Visible(i) == ~Inside(i, "skip", "/skip")

\* An HTML document whose elements are closed, one heading not in another and
\* no block in a heading.
WellFormed ==
    /\ \A i \in DOMAIN document.items :
          /\ Kind(i) = "/skip" => ~Visible(i)
          /\ Kind(i) = "/heading" => InHeading(i)
          /\ Kind(i) \in {"heading", "/block"} => ~InHeading(i)
    /\ ~InHeading(Len(document.items) + 1)

\* What a reader of the document would read, without its headings.
IsBody(i) ==
    CASE IsFor("html") -> Kind(i) = "data" /\ Visible(i) /\ ~InHeading(i)
      [] IsFor("sections") -> Kind(i) # "noise"
      [] OTHER -> TRUE

Body ==
    Flat([i \in 1 .. Len(document.items) |->
        IF IsBody(i) THEN [k \in 1 .. document.items[i].size |-> <<i, k>>] ELSE <<>>])

Chunked ==
    LET letters == Flat([n \in 1 .. Len(chunks) |-> Letters(chunks[n].text)]) IN
    [k \in 1 .. Len(letters) |-> <<letters[k][1], letters[k][2]>>]

\* The chunks hold the text of the document, all of it, once and in order:
\* headings apart, which chunks of HTML carry beside their text, and apart from
\* what the chunker by section takes for noise.
NothingLost ==
    document # NoDocument /\ (IsFor("html") => WellFormed) => Chunked = Body

\* No chunk of a PDF file is longer than the target; one of HTML may be nearly
\* twice as long, as the spaces between its pieces are not counted.  None is
\* blank: what is retrieved has a text to be cited.
ChunksFit ==
    \A n \in DOMAIN chunks :
        /\ \E k \in DOMAIN chunks[n].text : chunks[n].text[k] # Space
        /\ Len(chunks[n].text) <= IF IsFor("html") THEN 2 * Target - 1 ELSE Target

\* The text of the last heading before item i that has any.
Nearest(i) ==
    LET headings == {j \in 1 .. i - 1 : Kind(j) = "data" /\ Visible(j) /\ InHeading(j)}
    IN  {j \in headings :
            \A k \in headings :
                Cardinality(Before(k, "heading")) <= Cardinality(Before(j, "heading"))}

\* Every character of a chunk of HTML is from below the heading that the chunk
\* carries: a chunk goes over no heading, and is cited by the nearest.
HeadingIsNearest ==
    IsFor("html") /\ WellFormed =>
        \A n \in DOMAIN chunks : \A k \in DOMAIN chunks[n].text :
            chunks[n].text[k] # Space =>
                Nearest(chunks[n].text[k][1]) =
                    {chunks[n].heading[m][1] : m \in DOMAIN chunks[n].heading}

\* In a chunk of a handbook fewer letters stand before a heading than a section
\* must have.
SectionsStayApart ==
    IsFor("sections") =>
        \A n \in DOMAIN chunks :
            LET letters == Letters(chunks[n].text) IN
            \A k \in DOMAIN letters :
                letters[k][2] = 1 /\ Kind(letters[k][1]) = "heading" => k <= MinSection
=============================================================================
