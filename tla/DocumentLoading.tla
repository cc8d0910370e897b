---------------------------- MODULE DocumentLoading ----------------------------
(***************************************************************************)
(* load_upload (sources/ingestion.py): an upload is validated, read by the *)
(* loader that DocumentLoaderRegistry (loaders/base.py) has for its format *)
(* and given the warnings of its validation.                               *)
(***************************************************************************)
EXTENDS MarkdownLoader, HtmlLoader, DocxLoader, PdfLoader, XlsxLoader

CONSTANT Received       \* the uploads that may come

ASSUME ReceivedAssumption == Received \subseteq Uploads

vars == <<loaderVars, tree>>

Init ==
    /\ upload \in Received
    /\ content = NoContent
    /\ index = 1
    /\ builder = Opened
    /\ notices = {}
    /\ outcome = "uploaded"
    /\ tree = NoTree

Validate ==
    /\ outcome = "uploaded"
    /\ IF Refusals(upload) = {}
       THEN /\ content' \in Contents[Format]
            /\ outcome' = "loading"
       ELSE /\ outcome' \in Refusals(upload)
            /\ UNCHANGED content
    /\ UNCHANGED <<upload, index, builder, notices, tree>>

\* The loader of the format has come to the end of the content.
AtEnd ==
    CASE Format \in {"md", "txt"} -> index > Len(content)
      [] Format = "html" -> HtmlRead
      [] Format = "docx" -> DocxRead
      [] Format = "pdf" -> PdfRead
      [] Format = "xlsx" -> XlsxRead

\* Mutant: the warnings of the validation are left behind.
LoadedWarningsOfLoader == notices

LoadedWarnings == notices \cup {[about |-> about, at |-> 0] : about \in UploadWarnings(upload)}

\* A document without a block is refused.
Finish ==
    /\ outcome = "loading"
    /\ AtEnd
    /\ IF builder.blocks = <<>>
       THEN outcome' = "ExtractionError" /\ UNCHANGED notices
       ELSE outcome' = "loaded" /\ notices' = LoadedWarnings
    /\ UNCHANGED <<upload, content, index, builder, tree>>

Next ==
    \/ Validate
    \/ (ReadMarkdown \/ ReadDocx \/ ReadPdf \/ ReadXlsx) /\ UNCHANGED tree
    \/ ReadHtml
    \/ Finish

Spec == Init /\ [][Next]_vars

\* Validation and the loop over the lines of a text run to their end: they wait
\* for nothing.
FairSpec == Spec /\ WF_vars(Validate \/ (ReadMarkdown /\ UNCHANGED tree) \/ Finish)

-----------------------------------------------------------------------------
(* Properties.                                                              *)

BlockTypes == {"HEADING", "PARAGRAPH", "LIST_ITEM", "TABLE", "CODE", "QUOTE"}

\* A block as CanonicalBlock accepts it.
IsBlock(block) ==
    /\ block.type \in BlockTypes
    /\ block.text \in Seq(Words \cup {Blank, EmptyCell}) \ {<<>>}
    /\ block.level \in Nat
    /\ block.level > 0 <=> block.type = "HEADING"
    /\ block.heading_path \in Seq(Words)

\* Loaders of every format leave blocks that CanonicalBlock accepts, and nothing
\* is extracted before an upload was accepted.
TypeOK ==
    /\ upload \in Uploads
    /\ index \in Nat
    /\ \A k \in DOMAIN builder.blocks : IsBlock(builder.blocks[k])
    /\ builder.path \in Seq([level : Nat, word : Words])
    /\ builder.warnings \subseteq 1 .. index
    /\ Refusals(upload) # {} => builder = Opened /\ content = NoContent

\* The stack of the builder gives every block the path of the document's
\* outline, levels that are skipped or taken back included.
HeadingPathsAreOutline == FollowsOutline(builder.blocks)

Sections ==
    IF Loading({"xlsx"}) THEN MatrixSections(builder.blocks) ELSE HeadingSections(builder.blocks)

\* No two sections of a document have one address, whatever its headings or its
\* sheets are: repeated, without a slug, or with the slug that another one's
\* number gives.  SegmentationResult would otherwise refuse the document.
SectionAddressesUnique ==
    \A i, j \in DOMAIN Sections : Sections[i].section = Sections[j].section => i = j

\* Nothing is lost on the way from the file to the blocks but what the loader of
\* the format leaves out on purpose, and nothing is doubled.
NothingLost ==
    /\ Loading({"md", "txt"}) => MarkdownKept
    /\ Loading({"html"}) => HtmlKept
    /\ Loading({"docx"}) => DocxKept
    /\ Loading({"pdf"}) => PdfKept
    /\ Loading({"xlsx"}) => XlsxValuesKept

\* A value of an HTML table or of a sheet stays in its column, whatever cells
\* were merged or left out before it: no value is read under the heading of
\* another.  (It says nothing of the grid of a DOCX table.)
ColumnsKept ==
    /\ Loading({"html"}) => HtmlColumnsKept
    /\ Loading({"xlsx"}) => XlsxColumnsKept

\* The largest part of a PDF's text never becomes headings: however many lines
\* are large, at most half of the characters are in headings.  (In a body below
\* 0.06 of a point, a heading size may be rounded to that of the body.)
HeadingsAreTheMinority ==
    Loading({"pdf"}) =>
        LET lines == PageLines(content.pages)
            headings == FlattenSeq([k \in DOMAIN builder.blocks |->
                            IF IsHeading(builder.blocks[k]) THEN builder.blocks[k].text
                            ELSE <<>>])
        IN  lines # <<>> /\ BodySize(lines) >= 60 => 2 * Characters(headings) <= TotalWeight(lines)

\* What a document says from its first heading on is in its sections, once and
\* in order: nothing between two sections can change unseen.
SectionsHoldTheText ==
    LET starts == IF Loading({"xlsx"}) THEN <<1>> ELSE Starts(builder.blocks)
        headed == IF starts = <<>> THEN <<>>
                  ELSE SubSeq(builder.blocks, starts[1], Len(builder.blocks))
    IN  Inked(FlattenSeq([k \in DOMAIN Sections |-> Sections[k].content_hash])) =
            Inked(FlattenSeq([k \in DOMAIN headed |-> headed[k].text]))

\* While a Markdown or a DOCX document is loaded, what is read later changes no
\* section but the last, and no address: both are decided by what stands
\* before.  (It is about one load.  A PDF is left out: every line of the
\* file has a part in its heading sizes.)
SectionsStable ==
    [][Loading({"md", "docx"}) =>
       \A k \in DOMAIN Sections :
           /\ Sections'[k].section = Sections[k].section
           /\ k < Len(Sections) => Sections'[k] = Sections[k]]_vars

\* The parts that no loaded document has: macros, an encrypted package, and a
\* name that leads out of the archive.
ForbiddenParts == {"vbaProject.bin", "EncryptionInfo", "../unsafe"}

\* A loaded document has an allowed extension and was scanned and found clean, or
\* says itself that it was not.  An Office document is a ZIP without macros,
\* without a name that leads out of it and without anything encrypted; a PDF is
\* not encrypted and has no page that needs OCR.
LoadedIsVouched ==
    outcome = "loaded" =>
        /\ upload.scan = "CLEAN" \/ Reported("not scanned", 0)
        /\ upload.scan # "INFECTED"
        /\ ~upload.declared \/ Reported("content type ignored", 0)
        /\ upload.extension \in DOMAIN AllowedExtensions
        /\ Format \in {"docx", "xlsx"} =>
               /\ upload.signature = "zip"
               /\ \A entry \in ToSet(upload.entries) :
                      ~entry.encrypted /\ entry.name \notin ForbiddenParts
        /\ Format = "pdf" =>
               /\ "/Encrypt" \notin upload.found /\ content.state # "encrypted"
               /\ ImageOnlyPages(content.pages) = {}

\* The loop over the lines of a text comes to its end, whatever their order:
\* each of its branches moves on.  (The other loaders go over a sequence.)
Terminates == Loading({"md", "txt"}) ~> outcome \notin {"uploaded", "loading"}

==============================================================================
