----------------------------- MODULE MarkdownLoader -----------------------------
(***************************************************************************)
(* The line loop of MarkdownLoader (loaders/markdown.py), which also loads *)
(* plain text.                                                             *)
(***************************************************************************)
EXTENDS DocumentLoader

CONSTANT Levels     \* heading levels

Kinds == {"blank", "fence", "heading", "delimiter", "row", "quote", "item", "text"}

\* A line by the first expression of the loader that matches it.  A fence's
\* word is its marker.  Only a heading has a level; it is never indented.
Lines ==
    [kind : Kinds, word : Words \cup {Blank}, level : Levels \cup {0}, indented : BOOLEAN]

ASSUME MarkdownAssumption ==
    /\ Levels \subseteq Nat \ {0}
    /\ \A format \in {"md", "txt"} : \A text \in Contents[format] :
           /\ text \in Seq(Lines)
           /\ \A k \in DOMAIN text : /\ text[k].kind = "heading" => text[k].level \in Levels
                                     /\ text[k].kind = "blank" => text[k].word = Blank

Rows == {"row", "delimiter"}

Text(first, last) == [k \in 1 .. last - first + 1 |-> content[first + k - 1].word]

\* The first of these lines after the current one, or the end of the text.
Until(stops) == Min({Len(content) + 1} \cup {k \in stops : k > index})

\* The line at index is of one of these kinds.
At(kinds) ==
    /\ Loading({"md", "txt"})
    /\ index <= Len(content)
    /\ content[index].kind \in kinds

IsTableStart ==
    /\ content[index].kind \in Rows
    /\ index < Len(content)
    /\ content[index + 1].kind = "delimiter"

Take(type, next) ==
    /\ Extract(AddBlock(builder, type, Text(index, next - 1), index), next)
    /\ UNCHANGED notices

\* Mutant: a blank line is passed over without moving on.
SkipBlankStays == At({"blank"}) /\ UNCHANGED loaderVars

SkipBlank ==
    /\ At({"blank"})
    /\ Extract(builder, index + 1)
    /\ UNCHANGED notices

\* The closing fence belongs to the code; the text may end without one.
CodeEnd(close) == IF close > Len(content) THEN close ELSE close + 1

Code ==
    /\ At({"fence"})
    /\ Take("CODE",
            CodeEnd(Until({k \in DOMAIN content :
                        content[k].kind = "fence" /\ content[k].word = content[index].word})))

Heading ==
    /\ At({"heading"})
    /\ Extract(AddHeading(builder, content[index].level, <<content[index].word>>, index),
               index + 1)
    /\ UNCHANGED notices

Table ==
    /\ At(Rows)
    /\ IsTableStart
    /\ Take("TABLE", Until({k \in DOMAIN content : content[k].kind \notin Rows}))

Quote ==
    /\ At({"quote"})
    /\ Take("QUOTE", Until({k \in DOMAIN content : content[k].kind # "quote"}))

ListItem ==
    /\ At({"item"})
    /\ Take("LIST_ITEM",
            Until({k \in DOMAIN content :
                       \/ content[k].kind \in {"blank", "item", "heading"}
                       \/ ~content[k].indented}))

Paragraph ==
    /\ At({"text"} \cup Rows)
    /\ ~IsTableStart
    /\ Take("PARAGRAPH",
            Until({k \in DOMAIN content :
                       content[k].kind \in
                           {"blank", "heading", "item", "fence", "quote"} \cup Rows}))

ReadMarkdown ==
    \/ SkipBlank
    \/ Code
    \/ Heading
    \/ Table
    \/ Quote
    \/ ListItem
    \/ Paragraph

\* Every line that is not blank is in one block, once and in order.
MarkdownKept ==
    Inked(FlattenSeq([k \in DOMAIN builder.blocks |-> builder.blocks[k].text])) =
        Inked([k \in 1 .. index - 1 |-> content[k].word])

==============================================================================
