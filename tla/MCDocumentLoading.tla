--------------------------- MODULE MCDocumentLoading ---------------------------
(* Words with one slug, no slug, and the slug of a numbered section; uploads *)
(* of each format, each with one thing wrong; and for each format its small  *)
(* contents, free sequences of parts where order matters.                    *)
EXTENDS DocumentLoading

CONSTANTS MaxLines, MaxElements, MaxPieces

MCSlug == [w \in Words |-> CASE w = "access" -> "access"
                             [] w = "Section 1" -> "section-1"
                             [] OTHER -> NoSlug]

MCNumbered == [n \in 0 .. 9 |->
                  CASE n = 0 -> "section-0" [] n = 1 -> "section-1" [] OTHER -> "section-n"]

MCWeight == [w \in Words |-> CASE w = "access" -> 3 [] w = "Section 1" -> 5 [] OTHER -> 1]

-----------------------------------------------------------------------------
(* Uploads.                                                                 *)

Entry(name) == [name |-> name, encrypted |-> FALSE, file_size |-> 2, compress_size |-> 1]

Sound(extension) ==
    [bytes |-> TRUE, size |-> MaxUploadBytes, extension |-> extension,
     signature |-> CASE extension \in {"docx", "xlsx"} -> "zip"
                     [] extension = "pdf" -> "pdf"
                     [] OTHER -> "none",
     entries |-> IF extension \in {"docx", "xlsx"}
                 THEN <<Entry("[Content_Types].xml"), Entry(RequiredPart[extension])>>
                 ELSE <<>>,
     found |-> {}, scan |-> "no scanner", declared |-> TRUE]

Unsound(extension) ==
    LET s == Sound(extension)
    IN  {[s EXCEPT !.bytes = FALSE], [s EXCEPT !.size = 0],
         [s EXCEPT !.size = MaxUploadBytes + 1], [s EXCEPT !.scan = "UNAVAILABLE"],
         [s EXCEPT !.scan = "INFECTED", !.declared = FALSE],
         [s EXCEPT !.scan = "INFECTED", !.found = {"NUL", "/Encrypt", "broken archive"}]}
        \cup {[s EXCEPT !.signature = g] : g \in {"zip", "pdf", "ole", "none"} \ {s.signature}}

UnsoundArchive(extension) ==
    LET s == Sound(extension)
        with(entry) == [s EXCEPT !.entries = Append(@, entry)]
        other == Entry("other")
    IN  {with(Entry(name)) : name \in {"../unsafe", "vbaProject.bin", "EncryptionInfo"}}
        \cup {with([other EXCEPT !.encrypted = TRUE]),
              with([other EXCEPT !.file_size = MaxUncompressedBytes, !.compress_size = 3]),
              with([Entry("../unsafe") EXCEPT !.encrypted = TRUE]),
              [s EXCEPT !.entries = <<>>], [s EXCEPT !.entries = @ \o <<other, other>>],
              [s EXCEPT !.entries = <<[other EXCEPT !.file_size = 9, !.compress_size = 0]>>],
              [s EXCEPT !.entries = Tail(@)],
              [s EXCEPT !.entries = <<@[1], other>>]}

MCReceived ==
    {Sound(e) : e \in {"md", "txt", "html", "docx", "xlsx", "docm", "zip", "xls", "other"}}
    \cup {[Sound("pdf") EXCEPT !.scan = "CLEAN", !.declared = FALSE],
          [Sound("pdf") EXCEPT !.found = {"/Encrypt"}],
          [Sound("txt") EXCEPT !.found = {"NUL"}],
          [Sound("htm") EXCEPT !.found = {"not UTF-8"}]}
    \cup UNION {Unsound(e) : e \in {"markdown", "htm", "docx", "pdf"}}
    \cup UNION {UnsoundArchive(e) : e \in {"docx", "xlsx"}}

-----------------------------------------------------------------------------
(* Text and word processing.                                                *)

Line(kind, word, level, indented) ==
    [kind |-> kind, word |-> word, level |-> level, indented |-> indented]

MCLines ==
    {Line("blank", Blank, 0, FALSE), Line("fence", "access", 0, FALSE),
     Line("fence", "Section 1", 0, TRUE), Line("heading", "access", 1, FALSE),
     Line("heading", "!", 2, FALSE), Line("delimiter", "access", 0, FALSE),
     Line("row", "access", 0, FALSE), Line("quote", "access", 0, FALSE),
     Line("item", "access", 0, TRUE), Line("text", "access", 0, FALSE),
     Line("text", "!", 0, TRUE)}

Paragraphs ==
    LET p == [tag |-> "p", word |-> "access", style |-> NotGiven, outline |-> NotGiven,
              numbered |-> FALSE]
    IN  {p, [p EXCEPT !.word = Blank, !.style = 1], [p EXCEPT !.style = 1],
         [p EXCEPT !.style = 9, !.word = "!"], [p EXCEPT !.style = 0],
         [p EXCEPT !.outline = 0, !.word = "Section 1"],
         [p EXCEPT !.outline = 9, !.numbered = TRUE], [p EXCEPT !.numbered = TRUE]}

Cell(word, span, continues) == [word |-> word, span |-> span, continues |-> continues]

Tables ==
    {[tag |-> "tbl", rows |-> <<<<Cell("access", 2, FALSE)>>,
                                <<Cell("!", 1, FALSE), Cell("access", 1, TRUE),
                                  Cell("Section 1", 1, FALSE)>>>>],
     [tag |-> "tbl", rows |-> <<<<Cell(Blank, 1, FALSE)>>>>],
     [tag |-> "tbl", rows |-> <<>>]}

DocxContents ==
    {[part |-> "sound", body |-> body] :
        body \in BoundedSeq(Paragraphs \cup Tables \cup {[tag |-> "other"]}, MaxElements)}
    \cup {[part |-> part, body |-> <<>>] : part \in PartFaults \cup {"no body"}}

-----------------------------------------------------------------------------
(* Pages: three lines on one, or two on each of two; and files at a limit.  *)
(* Among the sizes are two that are rounded to one, and one below 118 of 100 *)
(* that is rounded to one above it.                                         *)

PdfLine(word, size, apart) == [word |-> word, size |-> size, apart |-> apart]

SomePdfLines ==
    {PdfLine("access", 10000, FALSE), PdfLine("access", 14000, FALSE),
     PdfLine("!", 10000, TRUE), PdfLine("!", 11804, FALSE), PdfLine("!", 11796, FALSE),
     PdfLine("Section 1", 14004, FALSE), PdfLine("!", 18000, FALSE),
     PdfLine("access", 0, FALSE)}

Page(lines, image) == [lines |-> lines, image |-> image]

PdfContents ==
    LET few == {PdfLine("access", 10000, FALSE), PdfLine("!", 14000, FALSE),
                PdfLine("access", 14004, TRUE)}
        full == Page(<<PdfLine("Section 1", 10000, FALSE)>>, FALSE)
    IN  {[state |-> "readable", pages |-> pages] : pages \in
             {<<>>, <<full, full, full>>, <<full, Page(<<>>, FALSE)>>}
             \cup {<<Page(lines, FALSE)>> : lines \in BoundedSeq(SomePdfLines, 3)}
             \cup [1 .. 2 -> {Page(lines, image) : lines \in BoundedSeq(few, 2),
                                                   image \in BOOLEAN}]}
        \cup {[state |-> state, pages |-> <<full>>] :
                 state \in {"encrypted", "malformed"}}

-----------------------------------------------------------------------------
(* Sheets: a header of two columns and a row below it, their numbers given   *)
(* or left out; ranges that are merged; and a sound sheet with one change.   *)

XCell(column, row, text) ==
    [column |-> column, row |-> row, text |-> text, formula |-> "none", cached |-> TRUE,
     type |-> "plain"]

XRow(number, cells) == [number |-> number, hidden |-> FALSE, cells |-> cells]

Sheet(rows) ==
    [name |-> "access", visible |-> TRUE, part |-> "sound", rows |-> rows, merged |-> <<>>,
     hidden_columns |-> FALSE, auto_filter |-> FALSE]

Range4(top, left, bottom, right) ==
    [top |-> top, left |-> left, bottom |-> bottom, right |-> right]

AddressedSheets ==
    {Sheet(<<XRow(n, <<XCell(a, r, "access"), XCell(b, 1, "!")>>),
             XRow(m, <<XCell(c, s, "Section 1"), XCell(d, s, text)>>)>>) :
        n \in {NotGiven, 1, 2}, a \in {NotGiven, 2}, r \in {1, 2}, b \in {NotGiven, 3},
        m \in {NotGiven, 1, 3}, c \in {NotGiven, 2, 3}, s \in {2, 3}, d \in {NotGiven, 1},
        text \in {"access", Blank}}

Grid ==
    Sheet(<<XRow(1, <<XCell(2, 1, "access")>>),
            XRow(2, <<XCell(1, 2, "access"), XCell(2, 2, "!")>>),
            XRow(3, <<XCell(1, 3, "access"), XCell(2, 3, "Section 1")>>),
            XRow(4, <<XCell(1, 4, Blank), XCell(2, 4, "!")>>)>>)

MergedSheets ==
    LET ranges == {Range4(t, l, b, r) : t \in 1 .. 3, l \in 1 .. 2, b \in 2 .. 4, r \in 2 .. 3}
                  \cup {Range4(1, 1, 1, MaxMatrixColumns + 1),
                        Range4(1, 1, MaxMatrixRows + 1, 1), Range4(2, 2, 2, 1)}
    IN  {[Grid EXCEPT !.merged = merged] :
            merged \in {<<r>> : r \in ranges} \cup {<<Range4(2, 1, 2, 2), Range4(3, 1, 4, 1)>>}}

ChangedSheets ==
    {[Grid EXCEPT !.part = part] : part \in {"missing", "faulty"}}
    \cup {[Grid EXCEPT !.visible = FALSE, !.hidden_columns = TRUE, !.auto_filter = TRUE,
                       !.rows[2].hidden = TRUE]}
    \cup {[Grid EXCEPT !.rows[row].cells[1].formula = formula,
                       !.rows[row].cells[1].cached = cached] :
             row \in 2 .. 3, formula \in {"given", "empty"}, cached \in BOOLEAN}
    \cup {[Grid EXCEPT !.rows[3].cells[2].type = type] : type \in {"error", "bad"}}
    \cup {[Grid EXCEPT !.rows[4].number = MaxMatrixRows + 1], [Grid EXCEPT !.rows = <<>>],
          [Grid EXCEPT !.rows[4].cells = @ \o @],
          [Grid EXCEPT !.rows[2].cells[2].text = "access"],
          [Grid EXCEPT !.rows[3].cells[2].column = 3],
          [Grid EXCEPT !.rows[2].cells[2].column = 3],
          [Grid EXCEPT !.rows[2].cells = Tail(@), !.rows[3].cells = Tail(@)],
          [Grid EXCEPT !.rows[3].cells[1].column = MaxMatrixColumns + 1]}

XlsxContents ==
    {[container |-> "sound", sheets |-> <<sheet>>] :
        sheet \in AddressedSheets \cup MergedSheets \cup ChangedSheets}
    \cup {[container |-> "sound", sheets |-> <<Grid, [sheet EXCEPT !.name = name]>>] :
             sheet \in ChangedSheets \cup {Grid}, name \in {"access", "Section 1", "!"}}
    \cup {[container |-> "sound", sheets |-> <<>>]}
    \cup {[container |-> container, sheets |-> <<Grid>>] : container \in Containers \ {"sound"}}

-----------------------------------------------------------------------------
(* Pages of tags: an opening and a few of the pieces that may follow it.    *)

Open(tag) == <<[do |-> "start", tag |-> tag, across |-> 1, down |-> 1]>>

Close(tag) == <<[do |-> "end", tag |-> tag, across |-> 1, down |-> 1]>>

Data(word) == <<[do |-> "data", word |-> word]>>

CellOf(across, down, word) ==
    <<[do |-> "start", tag |-> "td", across |-> across, down |-> down]>> \o Data(word)

InPages ==
    {Data("access"), Data(Blank), Open("h1") \o Data("!"), Open("p"), Open("div"), Open("form"),
     Close("form"), Open("span"), Open("pre") \o Data(Blank), Close("pre"),
     Open("li") \o Data("Section 1"),
     <<[do |-> "startend", tag |-> "object", across |-> 1, down |-> 1]>>,
     <<[do |-> "startend", tag |-> "br", across |-> 1, down |-> 1]>>, <<[do |-> "fault"]>>}

InLists ==
    {Data("access"), Open("li") \o Data("!"), Open("ul"), Close("ul"), Close("li"),
     Open("table") \o Open("tr") \o Open("td"), Open("p") \o Data("access"), Open("input")}

InTables ==
    {Data("access"), Open("tr"), Open("th"), Close("td"), Close("tr"), Close("table"),
     Open("table"), Open("ul") \o Open("li"), Open("head")}

SomeCells ==
    {CellOf(1, 1, "access"), CellOf(2, 1, "!"), CellOf(0, 2, "Section 1"), CellOf(2, 3, Blank),
     Open("tr")}

Pages(opening, pieces, n) == {opening \o FlattenSeq(rest) : rest \in BoundedSeq(pieces, n)}

HtmlContents ==
    Pages(<<>>, InPages, MaxPieces)
    \cup Pages(Open("h1") \o Data("access"), InPages, MaxPieces - 1)
    \cup Pages(Open("ul") \o Open("li"), InLists, MaxPieces)
    \cup Pages(Open("table") \o Open("tr") \o Open("td"), InTables, MaxPieces)
    \cup Pages(Open("table") \o Open("tr"), SomeCells, MaxPieces + 1)

MCContents ==
    [md |-> BoundedSeq(MCLines, MaxLines), txt |-> BoundedSeq(MCLines, 1),
     html |-> HtmlContents, docx |-> DocxContents, xlsx |-> XlsxContents, pdf |-> PdfContents]
==============================================================================
