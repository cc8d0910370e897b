--------------------------- MODULE CanonicalDocument ---------------------------
(***************************************************************************)
(* A policy document as Blocks and as sections: CanonicalDocumentBuilder   *)
(* (canonical_document.py), the deterministic profiles (segmentation.py)   *)
(* and the snapshot a FrozenDocument is compared by (ingestion.py).        *)
(*                                                                         *)
(* A line of text is its word, Blank for a line of white space; markup and *)
(* the end of a line are left out.  A text is a sequence of lines.  A hash *)
(* is the value that is hashed.                                            *)
(***************************************************************************)
EXTENDS Naturals, SequencesExt

CONSTANTS
    Words,      \* lines with something on them
    Blank,      \* a line of white space
    Slugs, NoSlug,
    Slug,       \* slugify: the slug of a word, NoSlug when nothing is left
    Numbered,   \* the slug "section-n" of each number n
    SheetSlug   \* "sheet", the slug of a sheet whose name has none

ASSUME DocumentAssumption ==
    /\ Blank \notin Words
    /\ Slug \in [Words -> Slugs]

-----------------------------------------------------------------------------
(* CanonicalDocumentBuilder.                                                *)

Opened == [path |-> <<>>, blocks |-> <<>>, warnings |-> {}]

\* normalize_for_hash: blank lines are stripped at both ends.
Normalize(text) ==
    LET inked == {i \in DOMAIN text : text[i] # Blank}
    IN  IF inked = {} THEN <<>> ELSE SubSeq(text, Min(inked), Max(inked))

\* Mutant: a heading of the same level stays on the path.
CutKeepingSiblings(path, level) ==
    SubSeq(path, 1, Max({0} \cup {i \in DOMAIN path : path[i].level <= level}))

\* Pop the path until its last heading is of a higher rank.
Cut(path, level) ==
    SubSeq(path, 1, Max({0} \cup {i \in DOMAIN path : path[i].level < level}))

HeadingPath(path) == [i \in DOMAIN path |-> path[i].word]

\* On the paths a heading is named by its first word.
AddHeading(builder, level, text, locator) ==
    IF Normalize(text) = <<>>
    THEN [builder EXCEPT !.warnings = @ \cup {locator}]
    ELSE LET title == Normalize(text)
             path == Append(Cut(builder.path, level), [level |-> level, word |-> title[1]])
             block == [type |-> "HEADING", text |-> title, level |-> level,
                       locator |-> locator, heading_path |-> HeadingPath(path)]
         IN  [builder EXCEPT !.path = path, !.blocks = Append(@, block)]

\* Mutant: the text is looked at before it is normalised.
IsEmptyRaw(text) == text = <<>>

IsEmpty(text) == Normalize(text) = <<>>

AddBlock(builder, type, text, locator) ==
    IF IsEmpty(text)
    THEN builder
    ELSE LET block == [type |-> type, text |-> Normalize(text), level |-> 0,
                       locator |-> locator,
                       heading_path |-> HeadingPath(builder.path)]
         IN  [builder EXCEPT !.blocks = Append(@, block)]

-----------------------------------------------------------------------------
(* CanonicalHeadingProfile and XlsxControlMatrixProfile.                    *)

\* render_blocks: a blank line between the blocks.
Render(blocks) ==
    FlattenSeq([k \in DOMAIN blocks |->
        IF k = 1 THEN blocks[k].text ELSE <<Blank>> \o blocks[k].text])

\* Mutant: only the section just before is looked at.
CopyOfPrevious(bases, k) ==
    IF k > 1 /\ bases[k - 1] = bases[k] THEN 1 ELSE 0

\* Mutant: the copies are numbered from the end of the document.
CopyFromTheEnd(bases, k) ==
    Cardinality({j \in DOMAIN bases : j > k /\ bases[j] = bases[k]})

\* What `used` holds for the k-th base: how often it has come before.
Copy(bases, k) == Cardinality({j \in 1 .. k - 1 : bases[j] = bases[k]})

\* anchor, anchor~2, anchor~3 ...  No slug holds a "~" or a "/".
Address(bases, k) == [base |-> bases[k], copy |-> Copy(bases, k)]

IsHeading(block) == block.type = "HEADING"

Starts(blocks) ==
    FlattenSeq([i \in DOMAIN blocks |-> IF IsHeading(blocks[i]) THEN <<i>> ELSE <<>>])

\* The slugs of the heading path joined by "/", or section-n when that is empty.
Base(heading, order) ==
    LET slugs == [i \in DOMAIN heading.heading_path |-> Slug[heading.heading_path[i]]]
    IN  IF slugs = <<NoSlug>> THEN <<Numbered[order]>> ELSE slugs

\* Mutant: the last block of a section is taken for the next heading.
SectionEndShort(blocks, starts, k) ==
    IF k < Len(starts) THEN starts[k + 1] - 2 ELSE Len(blocks)

SectionEnd(blocks, starts, k) ==
    IF k < Len(starts) THEN starts[k + 1] - 1 ELSE Len(blocks)

HeadingSections(blocks) ==
    LET starts == Starts(blocks)
        bases == [k \in DOMAIN starts |-> Base(blocks[starts[k]], k - 1)]
    IN  [k \in 1 .. Len(starts) |->
            [section |-> Address(bases, k),
             content_hash |->
                 Render(SubSeq(blocks, starts[k], SectionEnd(blocks, starts, k))),
             locator |-> blocks[starts[k]].locator]]

\* The slug of the sheet, or "sheet" when it has none, and the row's number.
RowBase(block) ==
    LET slug == Slug[block.locator.sheet]
    IN  <<IF slug = NoSlug THEN SheetSlug ELSE slug, block.locator.row>>

\* One section for each data row.  A row is a TABLE block whose locator names
\* its sheet and its number.
MatrixSections(blocks) ==
    LET bases == [k \in DOMAIN blocks |-> RowBase(blocks[k])]
    IN  [k \in 1 .. Len(blocks) |->
            [section |-> Address(bases, k),
             content_hash |-> blocks[k].text,
             locator |-> blocks[k].locator]]

-----------------------------------------------------------------------------
(* The outline of a document.                                               *)

\* The headings a block stands under: each heading before it that no later
\* heading up to it closes.
Ancestors(blocks, k) ==
    {h \in 1 .. k :
        /\ IsHeading(blocks[h])
        /\ \A m \in h + 1 .. k :
              IsHeading(blocks[m]) => blocks[m].level > blocks[h].level}

\* The heading path of every block has these headings and no other, each of
\* them by its first word and in the order of the document.
FollowsOutline(blocks) ==
    \A k \in DOMAIN blocks :
        LET above == Ancestors(blocks, k)
        IN  /\ Len(blocks[k].heading_path) = Cardinality(above)
            /\ \A h \in above :
                  blocks[k].heading_path[Cardinality({a \in above : a <= h})] =
                      blocks[h].text[1]

==============================================================================
