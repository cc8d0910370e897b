------------------------------- MODULE DocxLoader -------------------------------
(***************************************************************************)
(* DocxLoader (loaders/docx.py): the elements of the body, one by one, and *)
(* parse_office_xml (loaders/office_xml.py), which XLSX parts go through   *)
(* as well.                                                                *)
(*                                                                         *)
(* The text of a paragraph is one word.  The indentation of list items and *)
(* the bars of table rows are left out.                                    *)
(***************************************************************************)
EXTENDS DocumentLoader

\* What parse_office_xml may find in a part: bytes that are not UTF-8 by their
\* mark, their declaration or in fact; a declared type or entity; no XML.
PartFaults == {"utf-16", "declared encoding", "not utf-8", "DTD", "not well-formed"}

Cells == [word : Words \cup {Blank}, span : Nat \ {0}, continues : BOOLEAN]

\* A paragraph's style is the digit of "Heading n", 1 for a title; its outline
\* is its outlineLvl.  Everything else in a body, such as a content control, is
\* "other".
Elements ==
    [tag : {"p"}, word : Words \cup {Blank}, style : 0 .. 9 \cup {NotGiven},
     outline : 0 .. 9 \cup {NotGiven}, numbered : BOOLEAN]
    \cup [tag : {"tbl"}, rows : Seq(Seq(Cells) \ {<<>>})]
    \cup [tag : {"other"}]

ASSUME DocxAssumption ==
    \A file \in Contents["docx"] :
        /\ file.part \in PartFaults \cup {"sound", "no body"}
        /\ file.body \in Seq(Elements)

\* _heading_level: the style decides, then the outline; 0 is "Heading 0".
HeadingLevel(element) ==
    IF element.style # NotGiven THEN Min({element.style, 6})
    ELSE IF element.outline + 1 \in 1 .. 6 THEN element.outline + 1
    ELSE NotGiven

CellText(cell) == IF cell.continues \/ cell.word = Blank THEN EmptyCell ELSE cell.word

\* The cells of a row, each followed by the columns it spans.
RowCells(row) ==
    FlattenSeq([k \in DOMAIN row |->
                   <<CellText(row[k])>> \o [n \in 1 .. row[k].span - 1 |-> EmptyCell]])

\* _render_table: rows of one width.
DocxTable(rows) ==
    LET width == Max({0} \cup {Len(RowCells(rows[r])) : r \in DOMAIN rows})
    IN  FlattenSeq([r \in DOMAIN rows |->
            RowCells(rows[r]) \o [n \in 1 .. width - Len(RowCells(rows[r])) |-> EmptyCell]])

AtElement(tags) ==
    /\ Loading({"docx"})
    /\ content.part = "sound"
    /\ index <= Len(content.body)
    /\ content.body[index].tag \in tags

DocxRefused ==
    /\ Loading({"docx"})
    /\ content.part # "sound"
    /\ Refuse("ExtractionError")

DocxParagraph ==
    /\ AtElement({"p"})
    /\ LET element == content.body[index]
           level == HeadingLevel(element)
       IN  IF element.word = Blank THEN Extract(builder, index + 1)
           ELSE IF level = 0 THEN Refuse("GovernanceValidationError")
           ELSE IF level # NotGiven
           THEN Extract(AddHeading(builder, level, <<element.word>>, index), index + 1)
           ELSE Extract(AddBlock(builder, IF element.numbered THEN "LIST_ITEM" ELSE "PARAGRAPH",
                                 <<element.word>>, index),
                        index + 1)
    /\ UNCHANGED notices

DocxTableElement ==
    /\ AtElement({"tbl"})
    /\ Extract(AddBlock(builder, "TABLE", DocxTable(content.body[index].rows), index), index + 1)
    /\ UNCHANGED notices

DocxSkip ==
    /\ AtElement({"other"})
    /\ Extract(builder, index + 1)
    /\ UNCHANGED notices

ReadDocx == DocxRefused \/ DocxParagraph \/ DocxTableElement \/ DocxSkip

DocxRead == content.part = "sound" /\ index > Len(content.body)

\* What an element says: a cell that a merged one continues into says nothing,
\* and neither does an element of another kind.
Said(element) ==
    CASE element.tag = "p" -> <<element.word>>
      [] element.tag = "tbl" ->
            FlattenSeq([r \in DOMAIN element.rows |->
                [k \in DOMAIN element.rows[r] |-> CellText(element.rows[r][k])]])
      [] OTHER -> <<>>

\* The paragraphs and tables of the body are in the blocks, once and in order.
DocxKept ==
    Inked(FlattenSeq([k \in DOMAIN builder.blocks |-> builder.blocks[k].text])) =
        Inked(FlattenSeq([k \in 1 .. index - 1 |-> Said(content.body[k])]))

==============================================================================
