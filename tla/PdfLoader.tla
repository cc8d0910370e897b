-------------------------------- MODULE PdfLoader --------------------------------
(***************************************************************************)
(* PdfTriageLoader (loaders/pdf.py): which files need OCR, which lines are *)
(* headings, and the blocks of each page.                                  *)
(*                                                                         *)
(* A page is the lines that its fragments make, from the top down.  A line *)
(* is one word of some weight, its number of characters, in some size, in  *)
(* thousandths of a point; it is apart when it is too far from the line    *)
(* before, or not aligned to it.                                           *)
(***************************************************************************)
EXTENDS DocumentLoader

CONSTANTS
    Weight,                     \* the characters of each word
    MaxPdfPages,                \* MAX_PDF_PAGES
    MaxExtractedCharacters,     \* MAX_EXTRACTED_CHARACTERS
    MaxHeadingCharacters        \* 200: a longer line makes no heading size

PdfLines == [word : Words, size : Nat, apart : BOOLEAN]

ASSUME PdfAssumption ==
    /\ Weight \in [Words -> Nat \ {0}]
    /\ {MaxPdfPages, MaxExtractedCharacters, MaxHeadingCharacters} \subseteq Nat
    /\ \A file \in Contents["pdf"] :
           file.pages \in Seq([lines : Seq(PdfLines), image : BOOLEAN])

PageLines(pages) == FlattenSeq([p \in DOMAIN pages |-> pages[p].lines])

\* The characters of a text.
Characters(text) ==
    LET sum[n \in 0 .. Len(text)] == IF n = 0 THEN 0 ELSE sum[n - 1] + Weight[text[n]]
    IN  sum[Len(text)]

TotalWeight(lines) == Characters([k \in DOMAIN lines |-> lines[k].word])

ImageOnlyPages(pages) == {p \in DOMAIN pages : pages[p].image /\ pages[p].lines = <<>>}

\* Mutant: a file is sent to OCR only if none of its pages has text.
NeedsOcrWhenBlank(pages) == ImageOnlyPages(pages) # {} /\ PageLines(pages) = <<>>

NeedsOcr(pages) == ImageOnlyPages(pages) # {}

\* _analyze_pdf and the triage of load.
PdfRefusals(file) ==
    FirstRefusal(
        <<Check("ExtractionError", file.state # "readable"),
          Check("ExtractionError", Len(file.pages) > MaxPdfPages),
          Check("ExtractionError",
                TotalWeight(PageLines(file.pages)) > MaxExtractedCharacters),
          Check("OcrRequiredError", NeedsOcr(file.pages)),
          Check("ExtractionError", PageLines(file.pages) = <<>>)>>)

UpTo(lines, size) ==
    FlattenSeq([k \in DOMAIN lines |-> IF lines[k].size <= size THEN <<lines[k]>> ELSE <<>>])

\* Mutant: each line counts once, however much it says.
BodySizeByLines(lines) ==
    Min({line.size : line \in {lines[k] : k \in {k \in DOMAIN lines :
             2 * Len(UpTo(lines, lines[k].size)) >= Len(lines)}}})

\* _body_font_size: the smallest size that holds half of the characters with
\* what is smaller.
BodySize(lines) ==
    Min({lines[k].size : k \in {k \in DOMAIN lines :
             2 * TotalWeight(UpTo(lines, lines[k].size)) >= TotalWeight(lines)}})

\* round(size, 2): in hundredths of a point, the half upwards.
Rounded(size) == (size + 5) \div 10

\* _heading_sizes: the six largest of those well above the body, rounded.
HeadingSizes(lines) ==
    LET body == BodySize(lines)
        sizes == {Rounded(lines[k].size) : k \in {k \in DOMAIN lines :
                     /\ body > 0
                     /\ 100 * lines[k].size >= 118 * body
                     /\ Weight[lines[k].word] <= MaxHeadingCharacters}}
    IN  {size \in sizes : Cardinality({s \in sizes : s > size}) < 6}

\* _logical_blocks: a heading line by itself, other lines as long as each is
\* near the one before.
LogicalBlocks(lines, sizes) ==
    LET starts == {k \in DOMAIN lines :
                      \/ k = 1
                      \/ Rounded(lines[k].size) \in sizes
                      \/ Rounded(lines[k - 1].size) \in sizes
                      \/ lines[k].apart}
        end(k) == Min({Len(lines) + 1} \cup {j \in starts : j > k}) - 1
    IN  FlattenSeq([k \in DOMAIN lines |->
            IF k \in starts
            THEN <<[text |-> [i \in 1 .. end(k) - k + 1 |-> lines[k + i - 1].word],
                    size |-> Max({lines[j].size : j \in k .. end(k)})]>>
            ELSE <<>>])

\* _heading_level: the largest heading size is level 1.
PdfCall(block, sizes, at) ==
    LET size == Rounded(block.size)
    IN  IF size \in sizes
        THEN Call("HEADING", 1 + Cardinality({s \in sizes : s > size}), block.text, at)
        ELSE Call("PARAGRAPH", 0, block.text, at)

PdfRefused ==
    /\ Loading({"pdf"})
    /\ index = 1
    /\ \E reason \in PdfRefusals(content) : Refuse(reason)

PdfPage ==
    /\ Loading({"pdf"})
    /\ PdfRefusals(content) = {}
    /\ index <= Len(content.pages)
    /\ LET lines == content.pages[index].lines
           sizes == HeadingSizes(PageLines(content.pages))
           blocks == LogicalBlocks(lines, sizes)
           calls == [b \in DOMAIN blocks |->
                        PdfCall(blocks[b], sizes, [page |-> index, block |-> b])]
       IN  /\ Extract(AddCalls(builder, calls), index + 1)
           /\ notices' = notices
                  \cup (IF lines = <<>> THEN {[about |-> "empty page", at |-> index]} ELSE {})
                  \cup (IF index = Len(content.pages)
                        THEN {[about |-> "reading order", at |-> 0]} ELSE {})

ReadPdf == PdfRefused \/ PdfPage

PdfRead == PdfRefusals(content) = {} /\ index > Len(content.pages)

\* The text of every page that was read is in the blocks, once and in order; a
\* page that is in no block is empty, has no image, and is reported.
PdfKept ==
    /\ FlattenSeq([k \in DOMAIN builder.blocks |-> builder.blocks[k].text]) =
           FlattenSeq([p \in 1 .. index - 1 |->
               [k \in DOMAIN content.pages[p].lines |-> content.pages[p].lines[k].word]])
    /\ \A p \in 1 .. index - 1 :
           (\A k \in DOMAIN builder.blocks : builder.blocks[k].locator.page # p) =>
               /\ [about |-> "empty page", at |-> p] \in notices
               /\ ~content.pages[p].image

==============================================================================
