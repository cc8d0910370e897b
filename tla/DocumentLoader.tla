----------------------------- MODULE DocumentLoader -----------------------------
(***************************************************************************)
(* What the loaders share (sources/loaders/base.py): an upload that was    *)
(* accepted is read from its start to its end by the loader of its format, *)
(* which hands blocks to the builder or refuses the document.              *)
(*                                                                         *)
(* An accepted upload turns out to hold any of the contents of its format. *)
(***************************************************************************)
EXTENDS CanonicalDocument, UploadValidation

CONSTANTS
    EmptyCell,      \* a cell of a table with nothing in it
    Contents        \* for each format, what a file of it may hold

ASSUME EmptyCellAssumption == EmptyCell \notin Words \cup {Blank}

VARIABLES
    upload,
    content,    \* what the loader reads, NoContent before there is a loader
    index,      \* the place in the content that is read next
    builder,
    notices,    \* the warnings other than those of empty headings
    outcome     \* how far the upload has come, or why it was refused

NoContent == <<>>

NotGiven == 99      \* a number that a file leaves out

loaderVars == <<upload, content, index, builder, notices, outcome>>

Format == AllowedExtensions[upload.extension]

\* The loader of these formats has this much of the content before it.
Loading(formats) == outcome = "loading" /\ Format \in formats

\* The loader adds to the builder and goes on at next.
Extract(extended, next) ==
    /\ builder' = extended
    /\ index' = next
    /\ UNCHANGED <<upload, content, outcome>>

Refuse(reason) ==
    /\ outcome' = reason
    /\ UNCHANGED <<upload, content, index, builder, notices>>

\* A call of the builder.
Call(type, level, text, at) == [type |-> type, level |-> level, text |-> text, at |-> at]

AddCall(extended, call) ==
    IF call.type = "HEADING" THEN AddHeading(extended, call.level, call.text, call.at)
    ELSE AddBlock(extended, call.type, call.text, call.at)

\* What a loader hands to the builder, one after the other.
AddCalls(extended, calls) == FoldLeft(AddCall, extended, calls)

\* The document carries this warning.
Reported(about, at) == [about |-> about, at |-> at] \in notices

\* The words of a text, in order.
Inked(text) ==
    FlattenSeq([k \in DOMAIN text |->
        IF text[k] \in {Blank, EmptyCell} THEN <<>> ELSE <<text[k]>>])

==============================================================================
