------------------------------- MODULE XlsxLoader -------------------------------
(***************************************************************************)
(* XlsxControlMatrixLoader (loaders/xlsx.py): each sheet is a matrix with  *)
(* a header row, each row below it a block of its own.                     *)
(*                                                                         *)
(* A cell's text is a word, Blank for white space or EmptyCell.  How a row *)
(* is escaped and how a formula is quoted is left out.                     *)
(***************************************************************************)
EXTENDS DocumentLoader

CONSTANTS
    MaxMatrixRows,      \* MAX_MATRIX_ROWS
    MaxMatrixColumns,   \* MAX_MATRIX_COLUMNS
    MaxMatrixCells      \* MAX_MATRIX_CELLS

\* A row or a cell may leave its number out; a cell's reference names its row,
\* and its column from A, which is 1.
\* A scalar is bad when its shared string or its boolean is not there.
XlsxCells ==
    [column : Nat \ {0}, row : Nat, text : Words \cup {Blank, EmptyCell},
     formula : {"none", "given", "empty"}, cached : BOOLEAN,
     type : {"plain", "error", "bad"}]

XlsxRows == [number : Nat, hidden : BOOLEAN, cells : Seq(XlsxCells)]

Ranges == [top : Nat, left : Nat, bottom : Nat, right : Nat]

Sheets ==
    [name : Words, visible : BOOLEAN, part : {"sound", "missing", "faulty"},
     rows : Seq(XlsxRows), merged : Seq(Ranges), hidden_columns : BOOLEAN,
     auto_filter : BOOLEAN]

Containers ==
    {"sound", "not an archive", "duplicate part", "missing part", "bad relationship"}

ASSUME XlsxAssumption ==
    /\ {MaxMatrixRows, MaxMatrixColumns, MaxMatrixCells} \subseteq Nat
    /\ \A file \in Contents["xlsx"] :
           /\ file.container \in Containers
           /\ file.sheets \in Seq(Sheets)
           \* the text of a formula quotes it, so that it is never blank
           /\ \A sheet \in ToSet(file.sheets) : \A row \in ToSet(sheet.rows) :
                  \A cell \in ToSet(row.cells) : cell.formula = "given" => cell.text \in Words

-----------------------------------------------------------------------------
(* Reading a sheet.                                                         *)

\* Mutant: a number that is left out is the place in the sequence.
AddressesByPlace(given) ==
    [k \in DOMAIN given |-> IF given[k] # NotGiven THEN given[k] ELSE k]

\* next_row_number and next_column: the number that is given, or one more than
\* that of the one before.
Addresses(given) ==
    LET known[k \in 0 .. Len(given)] ==
            IF k = 0 THEN 0
            ELSE IF given[k] # NotGiven THEN given[k] ELSE known[k - 1] + 1
    IN  [k \in DOMAIN given |-> known[k]]

RowNumbers(sheet) == Addresses([k \in DOMAIN sheet.rows |-> sheet.rows[k].number])

ColumnNumbers(row) == Addresses([k \in DOMAIN row.cells |-> row.cells[k].column])

\* _read_cell: a formula needs its string and its cached value.
IsUnreadable(cell) ==
    \/ cell.formula = "empty"
    \/ cell.formula = "given" /\ ~cell.cached
    \/ cell.type \in {"error", "bad"}

IsBadRow(row, number) ==
    \/ number \notin 1 .. MaxMatrixRows
    \/ \E k \in DOMAIN row.cells :
          \/ row.cells[k].column # NotGiven /\ row.cells[k].row # number
          \/ ColumnNumbers(row)[k] > MaxMatrixColumns
          \/ IsUnreadable(row.cells[k])
    \/ ~IsInjective(ColumnNumbers(row))

\* _read_rows refuses a sheet with any of these.
IsBadSheet(sheet) ==
    \/ sheet.part # "sound"
    \/ ~IsInjective(RowNumbers(sheet))
    \/ \E k \in DOMAIN sheet.rows : IsBadRow(sheet.rows[k], RowNumbers(sheet)[k])
    \/ FoldLeft(LAMBDA count, row : count + Len(row.cells), 0, sheet.rows) > MaxMatrixCells

IsBadRange(range) ==
    \/ range.left > range.right
    \/ range.top > range.bottom
    \/ range.right > MaxMatrixColumns
    \/ range.bottom > MaxMatrixRows

\* The places that a merged range covers but for its first.
Continuations(sheet) ==
    UNION {((range.top .. range.bottom) \X (range.left .. range.right))
               \ {<<range.top, range.left>>} : range \in ToSet(sheet.merged)}

AllCells(sheet) ==
    UNION {{[place |-> <<RowNumbers(sheet)[k], ColumnNumbers(sheet.rows[k])[j]>>,
             cell |-> sheet.rows[k].cells[j]] : j \in DOMAIN sheet.rows[k].cells} :
               k \in DOMAIN sheet.rows}

\* The cells by row and column, those a merged range continues into left out.
CellsOf(sheet) ==
    LET cells == {c \in AllCells(sheet) : c.place \notin Continuations(sheet)}
    IN  [place \in {c.place : c \in cells} |->
            (CHOOSE c \in cells : c.place = place).cell]

TextAt(cells, place) == IF place \in DOMAIN cells THEN cells[place].text ELSE EmptyCell

\* The columns of a row that have more than white space in them.
Populated(cells, row) ==
    {place[2] : place \in {place \in DOMAIN cells :
                    place[1] = row /\ cells[place].text \in Words}}

-----------------------------------------------------------------------------
(* The header and the rows below it.                                        *)

HeaderRows(sheet, cells) ==
    {n \in ToSet(RowNumbers(sheet)) : Cardinality(Populated(cells, n)) >= 2}

HeaderColumns(cells, header) ==
    Min(Populated(cells, header)) .. Max(Populated(cells, header))

\* The texts of a row in these columns, from left to right.
RowTexts(cells, row, columns) ==
    [k \in 1 .. Cardinality(columns) |-> TextAt(cells, <<row, Min(columns) + k - 1>>)]

IsBadHeader(cells, header) ==
    LET columns == HeaderColumns(cells, header)
    IN  \/ columns # Populated(cells, header)
        \/ ~IsInjective(RowTexts(cells, header, columns))
        \/ \E place \in DOMAIN cells :
              place[1] = header /\ cells[place].formula # "none"

HasStray(sheet, cells, header) ==
    \E n \in ToSet(RowNumbers(sheet)) :
        n > header /\ ~(Populated(cells, n) \subseteq HeaderColumns(cells, header))

\* White space in a row is enough for a block.
DataRows(sheet, cells, header) ==
    LET columns == HeaderColumns(cells, header)
    IN  {n \in ToSet(RowNumbers(sheet)) :
            n > header /\ \E c \in columns : TextAt(cells, <<n, c>>) # EmptyCell}

IsRefused(sheet) ==
    \/ IsBadSheet(sheet)
    \/ \E range \in ToSet(sheet.merged) : IsBadRange(range)
    \/ LET cells == CellsOf(sheet)
           headers == HeaderRows(sheet, cells)
       IN  /\ headers # {}
           /\ IsBadHeader(cells, Min(headers)) \/ HasStray(sheet, cells, Min(headers))

\* The block of a row: the header and its own values.
RowCall(sheet, cells, header, row) ==
    LET columns == HeaderColumns(cells, header)
    IN  Call("TABLE", 0,
             RowTexts(cells, header, columns)
                 \o [k \in 1 .. Cardinality(columns) |->
                        IF RowTexts(cells, row, columns)[k] = Blank THEN EmptyCell
                        ELSE RowTexts(cells, row, columns)[k]],
             [sheet |-> sheet.name, row |-> row])

\* The rows of a sheet in the order of their numbers, whatever that of the file.
SheetCalls(sheet) ==
    LET cells == CellsOf(sheet)
        headers == HeaderRows(sheet, cells)
    IN  IF headers = {} THEN <<>>
        ELSE FlattenSeq([n \in 1 .. MaxMatrixRows |->
                 IF n \in DataRows(sheet, cells, Min(headers))
                 THEN <<RowCall(sheet, cells, Min(headers), n)>> ELSE <<>>])

SheetNotices(sheet) ==
    LET cells == CellsOf(sheet)
        headers == HeaderRows(sheet, cells)
        preamble == {n \in ToSet(RowNumbers(sheet)) :
                        /\ headers # {}
                        /\ n < Min(headers)
                        /\ Populated(cells, n) # {}}
    IN  Check("hidden sheet", ~sheet.visible)
        \cup Check("hidden rows", \E k \in DOMAIN sheet.rows : sheet.rows[k].hidden)
        \cup Check("hidden columns", sheet.hidden_columns)
        \cup Check("merged ranges", sheet.merged # <<>>)
        \cup Check("auto filter", sheet.auto_filter)
        \cup Check("formulas", \E c \in AllCells(sheet) : c.cell.formula # "none")
        \cup Check("no header", headers = {})
        \cup Check("preamble", preamble # {})

-----------------------------------------------------------------------------
(* The loader.                                                              *)

XlsxRefused ==
    /\ Loading({"xlsx"})
    /\ content.container # "sound" \/ content.sheets = <<>>
    /\ Refuse("ExtractionError")

\* _load_sheet, for the sheet at index.
XlsxSheet ==
    /\ Loading({"xlsx"})
    /\ content.container = "sound"
    /\ index <= Len(content.sheets)
    /\ LET sheet == content.sheets[index]
       IN  IF IsRefused(sheet)
           THEN Refuse("ExtractionError")
           ELSE /\ Extract(AddCalls(builder, SheetCalls(sheet)), index + 1)
                /\ notices' = notices \cup
                       {[about |-> about, at |-> index] : about \in SheetNotices(sheet)}

ReadXlsx == XlsxRefused \/ XlsxSheet

XlsxRead ==
    /\ content.container = "sound"
    /\ content.sheets # <<>>
    /\ index > Len(content.sheets)

-----------------------------------------------------------------------------
(* What becomes of the cells.                                               *)

\* The number a row or a cell has: counted on from the last that gives one.
NumberOf(given, k) ==
    LET known == {i \in 1 .. k : given[i] # NotGiven}
    IN  IF known = {} THEN k ELSE given[Max(known)] + k - Max(known)

\* The texts of a sheet by row and column, as the file means them.
Meant(sheet) ==
    UNION {{[row |-> NumberOf([i \in DOMAIN sheet.rows |-> sheet.rows[i].number], k),
             column |-> NumberOf([i \in DOMAIN sheet.rows[k].cells |->
                                      sheet.rows[k].cells[i].column], j),
             text |-> sheet.rows[k].cells[j].text] : j \in DOMAIN sheet.rows[k].cells} :
               k \in DOMAIN sheet.rows}

\* The cells of a sheet that say something and are not within a merged range.
Values(sheet) ==
    {c \in Meant(sheet) : c.text \in Words /\ <<c.row, c.column>> \notin Continuations(sheet)}

ValuesIn(sheet, row) == {c \in Values(sheet) : c.row = row}

\* The block pairs the values of its row with those of one row above it, column
\* by column, and has all of them.
Pairs(block, sheet) ==
    LET width == Len(block.text) \div 2
        row == block.locator.row
    IN  \E header \in {c.row : c \in Values(sheet)}, left \in 1 .. MaxMatrixColumns :
            /\ header < row
            /\ {[row |-> header, column |-> left + k - 1, text |-> block.text[k]] :
                    k \in 1 .. width}
                   = ValuesIn(sheet, header)
            /\ ValuesIn(sheet, row) =
                   {c \in {[row |-> row, column |-> left + k - 1, text |-> block.text[width + k]] :
                               k \in 1 .. width} :
                       c.text # EmptyCell}

IsRowOf(block, sheet) == block.locator.sheet = sheet.name /\ Pairs(block, sheet)

\* Every block is a row of a sheet under its header.
XlsxColumnsKept ==
    \A b \in DOMAIN builder.blocks : \E s \in 1 .. index - 1 :
        IsRowOf(builder.blocks[b], content.sheets[s])

\* The header is the first row with two values.  Every row below it that has a
\* value is in a block, and one above it is reported; so is a sheet without one.
XlsxValuesKept ==
    \A s \in 1 .. index - 1 :
        LET sheet == content.sheets[s]
            rows == {c.row : c \in Values(sheet)}
            headers == {n \in rows : Cardinality(ValuesIn(sheet, n)) >= 2}
        IN  IF headers = {} THEN Reported("no header", s)
            ELSE \A n \in rows :
                     /\ n > Min(headers) =>
                            \E b \in DOMAIN builder.blocks :
                                /\ IsRowOf(builder.blocks[b], sheet)
                                /\ builder.blocks[b].locator.row = n
                     /\ n < Min(headers) => Reported("preamble", s)

==============================================================================
