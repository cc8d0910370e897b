------------------------------- MODULE HtmlLoader -------------------------------
(***************************************************************************)
(* HtmlLoader (loaders/html.py): _TreeParser builds a tree of the tags and *)
(* texts that html.parser reports, then the tree is walked and its blocks  *)
(* are built.                                                              *)
(*                                                                         *)
(* A text is a word or Blank.  Line breaks within a block, list markers    *)
(* and the addresses of links are left out.                                *)
(***************************************************************************)
EXTENDS DocumentLoader

CONSTANT MaxDomDepth        \* MAX_DOM_DEPTH

DroppedTags ==
    {"script", "style", "iframe", "object", "embed", "applet", "svg", "canvas", "audio",
     "video", "form", "input", "button", "select", "textarea", "noscript", "template",
     "link", "meta", "base", "head"}

VoidTags ==
    {"area", "base", "br", "col", "embed", "hr", "img", "input", "link", "meta",
     "source", "wbr"}

HeadingTags == [h1 |-> 1, h2 |-> 2, h3 |-> 3, h4 |-> 4, h5 |-> 5, h6 |-> 6]

BlockLevel ==
    {"address", "article", "aside", "blockquote", "div", "dl", "fieldset", "figure",
     "footer", "header", "hr", "main", "nav", "ol", "p", "pre", "section", "table", "ul"}
    \cup DOMAIN HeadingTags

ParagraphTags == {"p", "dt", "dd", "figcaption", "address", "summary"}

ListTags == {"ul", "ol"}

CellTags == {"td", "th"}

InlineTags ==
    {"a", "span", "strong", "b", "em", "i", "u", "code", "small", "sub", "sup", "mark",
     "abbr", "time", "br", "img", "label", "font"}

\* The tags before which an element that was not closed is.
ImpliedClose(open) ==
    CASE open \in {"p"} \cup DOMAIN HeadingTags -> BlockLevel
      [] open = "li" -> {"li"}
      [] open \in {"dt", "dd"} -> {"dt", "dd"}
      [] open \in CellTags -> CellTags \cup {"tr"}
      [] open = "tr" -> {"tr"}
      [] OTHER -> {}

\* What html.parser reports; a fault is an error it raises.  The name of a tag
\* starts with a letter, that of a text in the tree does not.
Events ==
    [do : {"start", "end", "startend"}, tag : STRING \ {"#text"}, across : Nat, down : Nat]
    \cup [do : {"data"}, word : Words \cup {Blank}]
    \cup [do : {"fault"}]

ASSUME HtmlAssumption ==
    /\ MaxDomDepth \in Nat
    /\ \A page \in Contents["html"] : page \in Seq(Events)

VARIABLE tree       \* the nodes as they were met, and those that are open

Root ==
    [tag |-> "document", parent |-> 0, kids |-> <<>>, word |-> Blank, across |-> 1, down |-> 1]

NoTree == [nodes |-> <<Root>>, open |-> <<1>>]

-----------------------------------------------------------------------------
(* _TreeParser.                                                             *)

TagAt(t, k) == t.nodes[t.open[k]].tag

\* The innermost element that the start of this tag does not close.
Unclosed(t, tag) ==
    Max({1} \cup {k \in DOMAIN t.open : tag \notin ImpliedClose(TagAt(t, k))})

\* The node is the last child of the innermost element that is open.
WithNode(t, node) ==
    LET parent == Last(t.open)
        known == [t.nodes EXCEPT ![parent].kids = Append(@, Len(t.nodes) + 1)]
    IN  [t EXCEPT !.nodes = Append(known, [node EXCEPT !.parent = parent])]

\* A span attribute is at least 1 and at most 64.
Span(given) == Max({1, Min({given, 64})})

StartTag(t, event) ==
    LET closed == [t EXCEPT !.open = SubSeq(@, 1, Unclosed(t, event.tag))]
        started == WithNode(closed, [Root EXCEPT !.tag = event.tag,
                                                 !.across = Span(event.across),
                                                 !.down = Span(event.down)])
    IN  IF event.tag \in VoidTags THEN started
        ELSE [started EXCEPT !.open = Append(@, Len(started.nodes))]

\* The innermost element of this tag is closed with all in it; an end tag that
\* closes nothing is passed over.
EndTag(t, tag) ==
    LET matching == {k \in 2 .. Len(t.open) : TagAt(t, k) = tag}
    IN  IF matching = {} THEN t ELSE [t EXCEPT !.open = SubSeq(@, 1, Max(matching) - 1)]

NextEvent(kinds) ==
    /\ Loading({"html"})
    /\ index <= Len(content)
    /\ content[index].do \in kinds

Parsed(t) ==
    /\ tree' = t
    /\ Extract(builder, index + 1)

\* handle_starttag; the depth is looked at after what the tag closes.
HtmlStart ==
    /\ NextEvent({"start", "startend"})
    /\ LET event == content[index]
           started == StartTag(tree, event)
       IN  IF Unclosed(tree, event.tag) > MaxDomDepth
           THEN Refuse("ExtractionError") /\ UNCHANGED tree
           ELSE /\ Parsed(IF event.do = "startend" /\ event.tag \notin VoidTags
                          THEN EndTag(started, event.tag)
                          ELSE started)
                /\ notices' = notices \cup
                       {[about |-> tag, at |-> 0] : tag \in DroppedTags \cap {event.tag}}

HtmlEnd ==
    /\ NextEvent({"end"})
    /\ Parsed(EndTag(tree, content[index].tag))
    /\ UNCHANGED notices

HtmlData ==
    /\ NextEvent({"data"})
    /\ Parsed(WithNode(tree, [Root EXCEPT !.tag = "#text", !.word = content[index].word]))
    /\ UNCHANGED notices

HtmlFault ==
    /\ NextEvent({"fault"})
    /\ Refuse("ExtractionError")
    /\ UNCHANGED tree

-----------------------------------------------------------------------------
(* The walk over the tree.                                                  *)

TextOf(node, among, ofKids) ==
    CASE node.tag = "#text" -> IF node.word \in among THEN <<node.word>> ELSE <<>>
      [] node.tag \in DroppedTags -> <<>>
      [] OTHER -> FlattenSeq(ofKids)

\* The words under each node that are among these: _inline_text leaves white
\* space out, _raw_text does not.
Texts(nodes, among) ==
    LET text[n \in DOMAIN nodes] ==
            TextOf(nodes[n], among, [k \in DOMAIN nodes[n].kids |-> text[nodes[n].kids[k]]])
    IN  text

\* _find: the nearest of these tags under a node, not beyond a table.
NearestOf(nodes, n, tags, ofKids) ==
    LET kids == nodes[n].kids
    IN  FlattenSeq([k \in DOMAIN kids |->
            LET tag == nodes[kids[k]].tag
            IN  IF tag \in DroppedTags \cup {"#text"} THEN <<>>
                ELSE IF tag \in tags THEN <<kids[k]>>
                ELSE IF tag = "table" THEN <<>>
                ELSE ofKids[k]])

Nearest(nodes, tags) ==
    LET found[n \in DOMAIN nodes] ==
            NearestOf(nodes, n, tags, [k \in DOMAIN nodes[n].kids |-> found[nodes[n].kids[k]]])
    IN  found

\* The cells of a table in the order they are met.
CellsIn(nodes, table) ==
    LET rows == Nearest(nodes, {"tr"})[table]
    IN  FlattenSeq([r \in DOMAIN rows |->
            LET cells == Nearest(nodes, CellTags)[rows[r]]
            IN  [c \in DOMAIN cells |-> [row |-> r, node |-> cells[c],
                                         across |-> nodes[cells[c]].across,
                                         down |-> nodes[cells[c]].down]]])

Covered(cell) ==
    (cell.row .. cell.row + cell.down - 1) \X (cell.column .. cell.column + cell.across - 1)

\* Mutant: what hangs down from the rows above is not looked at.
TakenInRow(placed, row) ==
    UNION {Covered(cell) : cell \in {c \in ToSet(placed) : c.row = row}}

Taken(placed, row) == UNION {Covered(cell) : cell \in ToSet(placed)}

\* The cell in the next column of its row that no earlier one covers.
InPlace(placed, cell) ==
    LET first == IF placed # <<>> /\ Last(placed).row = cell.row
                 THEN Last(placed).column + Last(placed).across
                 ELSE 1
        taken == Taken(placed, cell.row)
        free == {c \in first .. first + Cardinality(taken) : <<cell.row, c>> \notin taken}
    IN  [row |-> cell.row, node |-> cell.node, across |-> cell.across, down |-> cell.down,
         column |-> Min(free)]

\* The cells of a table, each put into its place after those before it.
Placed(nodes, table) ==
    LET cells == CellsIn(nodes, table)
        placed[n \in 0 .. Len(cells)] ==
            IF n = 0 THEN <<>> ELSE Append(placed[n - 1], InPlace(placed[n - 1], cells[n]))
    IN  placed[Len(cells)]

\* _render_table: a grid of rows of one width, empty but where a cell starts.
HtmlTable(nodes, table) ==
    LET placed == Placed(nodes, table)
        covered == UNION {Covered(cell) : cell \in ToSet(placed)}
        height == Max({Len(Nearest(nodes, {"tr"})[table])} \cup {place[1] : place \in covered})
        width == Max({0} \cup {place[2] : place \in covered})
        shown(row, column) ==
            LET here == {k \in DOMAIN placed : placed[k].row = row /\ placed[k].column = column}
                text == IF here = {} THEN <<>> ELSE Texts(nodes, Words)[placed[Min(here)].node]
            IN  IF text = <<>> THEN <<EmptyCell>> ELSE text
    IN  FlattenSeq([row \in 1 .. height |->
            FlattenSeq([column \in 1 .. width |-> shown(row, column)])])

IsBlockChild(node) == node.tag \in ListTags \cup {"table", "pre", "blockquote"}

\* Text that stands in a container by itself becomes a paragraph.
Flush(text, at) == IF text = <<>> THEN <<>> ELSE <<Call("PARAGRAPH", 0, text, at)>>

\* _walk: the children that are blocks, each after the text that stands before
\* it; at the end the text that is left.
Walk(nodes, n, text, ofKids) ==
    LET kids == nodes[n].kids
        isInline(k) == nodes[kids[k]].tag \in InlineTags \cup {"#text"}
        breaks == {k \in DOMAIN kids : ~isInline(k) /\ nodes[kids[k]].tag \notin DroppedTags}
        pending(k) ==
            LET last == Max({0} \cup {b \in breaks : b < k})
            IN  FlattenSeq([j \in 1 .. k - 1 |->
                    IF j > last /\ isInline(j) THEN text[kids[j]] ELSE <<>>])
    IN  FlattenSeq([k \in DOMAIN kids |->
            IF k \in breaks THEN Flush(pending(k), n) \o ofKids[k] ELSE <<>>])
        \o Flush(pending(Len(kids) + 1), n)

\* _emit and _list_item: the calls of the builder for a node, in order, from
\* those for its children.
Emit(nodes, n, text, ofKids) ==
    LET tag == nodes[n].tag
        kids == nodes[n].kids
        all == FlattenSeq([k \in DOMAIN kids |-> text[kids[k]]])
        own == FlattenSeq([k \in DOMAIN kids |->
                   IF IsBlockChild(nodes[kids[k]]) THEN <<>> ELSE text[kids[k]]])
        nested == FlattenSeq([k \in DOMAIN kids |->
                      IF IsBlockChild(nodes[kids[k]]) THEN ofKids[k] ELSE <<>>])
    IN  CASE tag \in DOMAIN HeadingTags -> <<Call("HEADING", HeadingTags[tag], all, n)>>
          [] tag \in ParagraphTags -> <<Call("PARAGRAPH", 0, all, n)>>
          [] tag = "blockquote" -> <<Call("QUOTE", 0, all, n)>>
          [] tag = "pre" -> <<Call("CODE", 0, Texts(nodes, Words \cup {Blank})[n], n)>>
          [] tag = "li" -> (IF own = <<>> THEN <<>> ELSE <<Call("LIST_ITEM", 0, own, n)>>) \o nested
          [] tag = "table" -> <<Call("TABLE", 0, HtmlTable(nodes, n), n)>>
          [] tag = "hr" -> <<>>
          [] OTHER -> Walk(nodes, n, text, ofKids)

Calls(nodes) ==
    LET text == Texts(nodes, Words)
        emit[n \in DOMAIN nodes] ==
            Emit(nodes, n, text, [k \in DOMAIN nodes[n].kids |-> emit[nodes[n].kids[k]]])
    IN  emit[1]

HtmlWalk ==
    /\ Loading({"html"})
    /\ index = Len(content) + 1
    /\ Extract(AddCalls(builder, Calls(tree.nodes)), index + 1)
    /\ UNCHANGED <<notices, tree>>

ReadHtml == HtmlStart \/ HtmlEnd \/ HtmlData \/ HtmlFault \/ HtmlWalk

HtmlRead == index = Len(content) + 2

-----------------------------------------------------------------------------
(* What becomes of the text.                                                *)

Above(nodes) ==
    LET above[n \in DOMAIN nodes] ==
            IF n = 1 THEN {} ELSE {nodes[n].parent} \cup above[nodes[n].parent]
    IN  above

IsWithin(nodes, n, tags) == \E m \in Above(nodes)[n] : nodes[m].tag \in tags

\* Every table around the node has it in a cell of a row.
IsInCells(nodes, n) ==
    \A t \in Above(nodes)[n] :
        nodes[t].tag = "table" =>
            \E row, cell \in Above(nodes)[n] :
                /\ t < row /\ nodes[row].tag = "tr"
                /\ row < cell /\ nodes[cell].tag \in CellTags
                /\ \A m \in Above(nodes)[n] : t < m /\ m < cell => nodes[m].tag # "table"

TextNodes(nodes) == {n \in DOMAIN nodes : nodes[n].tag = "#text"}

Occurrences(text, word) == Cardinality({k \in DOMAIN text : text[k] = word})

\* Text is lost only within a dropped element, or in a table outside its cells,
\* and none is doubled.  Lists are moved behind the text of their item, so that
\* it is the occurrences that stay.
HtmlKept ==
    HtmlRead =>
        LET nodes == tree.nodes
            said == FlattenSeq([k \in DOMAIN builder.blocks |-> builder.blocks[k].text])
            seen == {n \in TextNodes(nodes) : ~IsWithin(nodes, n, DroppedTags)}
            safe == {n \in seen : IsInCells(nodes, n)}
        IN  \A word \in Words :
                /\ Cardinality({n \in safe : nodes[n].word = word}) <= Occurrences(said, word)
                /\ Occurrences(said, word) <= Cardinality({n \in seen : nodes[n].word = word})

\* No cell of a table stands in a column that an earlier one covers in its row.
HtmlColumnsKept ==
    \A n \in DOMAIN tree.nodes :
        tree.nodes[n].tag = "table" =>
            LET placed == Placed(tree.nodes, n)
            IN  \A i, j \in DOMAIN placed :
                    i < j => <<placed[j].row, placed[j].column>> \notin Covered(placed[i])

==============================================================================
