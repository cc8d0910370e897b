--------------------------- MODULE MCPolicyKnowledge ---------------------------
(* A text under a repeated heading and the same with another text, a text   *)
(* under one heading with and without a preface, a text without headings,   *)
(* and a control matrix.                                                    *)
EXTENDS PolicyKnowledge

Document(format, builder) ==
    [format |-> format, parser |-> "1", blocks |-> builder.blocks,
     source_hash |->
         [text |-> FlattenSeq([k \in DOMAIN builder.blocks |-> builder.blocks[k].text])]]

Headed(builder, first, body) ==
    AddBlock(AddHeading(builder, 1, <<"Access">>, first), "PARAGRAPH", <<body>>, first + 1)

Plain == Document("md", Headed(Opened, 1, "mfa"))
Prefaced == Document("md", Headed(AddBlock(Opened, "PARAGRAPH", <<"draft">>, 1), 2, "mfa"))
Headless == Document("md", AddBlock(Opened, "PARAGRAPH", <<"draft">>, 1))

Repeated == Document("md", Headed(AddHeading(Opened, 1, <<"Access">>, 1), 2, "mfa"))
Changed == Document("md", Headed(AddHeading(Opened, 1, <<"Access">>, 1), 2, "keys"))

Row(builder, row, text) ==
    AddBlock(builder, "TABLE", <<text>>, [sheet |-> "Access", row |-> row])

Matrix == Document("xlsx", Row(Row(Opened, 2, "mfa"), 3, "keys"))

MCSlug == [w \in Words |-> w]
MCNumbered == [n \in 0 .. 2 |-> "section-n"]
MCKeys == {<<"d1", 1>>, <<"d1", 2>>, <<"d2", 1>>}
MCCanonicals == {Repeated, Changed, Headless, Matrix}
MCFindingCanonicals == {Plain, Prefaced}

Reference(key, sections, k) ==
    [key |-> key, section |-> sections[k].section,
     content_hash |-> sections[k].content_hash]

MCReferences ==
    {Reference(<<"d1", 1>>, HeadingSections(Repeated.blocks), 2),
     Reference(<<"d1", 1>>, HeadingSections(Changed.blocks), 2),
     Reference(<<"d2", 1>>, MatrixSections(Matrix.blocks), 1)}
==============================================================================
