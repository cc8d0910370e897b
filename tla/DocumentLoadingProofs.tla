------------------------- MODULE DocumentLoadingProofs -------------------------
(***************************************************************************)
(* Proofs about DocumentLoading, for any uploads, contents, words and      *)
(* limits.                                                                 *)
(***************************************************************************)
EXTENDS LoaderProofs

-----------------------------------------------------------------------------
(* Validation.                                                              *)

\* The reasons for which an upload is refused before there is a loader.
UploadRefusals ==
    {"INVALID_PAYLOAD", "EMPTY_FILE", "FILE_TOO_LARGE", "MACRO_ENABLED_FORMAT",
     "LEGACY_BINARY_FORMAT", "ARCHIVE_NOT_ALLOWED", "EXTENSION_NOT_ALLOWED",
     "ENCRYPTED_DOCUMENT", "SIGNATURE_MISMATCH", "MALFORMED_ARCHIVE",
     "ARCHIVE_LIMIT_EXCEEDED", "ARCHIVE_UNSAFE_ENTRY", "INVALID_TEXT_ENCODING",
     "MALWARE_DETECTED", "SCAN_UNAVAILABLE"}

LoadRefusals == {"ExtractionError", "OcrRequiredError", "GovernanceValidationError"}

\* What the first refusal is: one of the checks', and none only if every check
\* passes.
LEMMA FirstRefusalIsOne ==
    ASSUME NEW R, NEW checks \in Seq(SUBSET R)
    PROVE  /\ FirstRefusal(checks) \subseteq R
           /\ FirstRefusal(checks) = {} => \A k \in DOMAIN checks : checks[k] = {}
<1> DEFINE refusing == {k \in DOMAIN checks : checks[k] # {}}
<1>1. refusing \subseteq DOMAIN checks /\ DOMAIN checks \subseteq Nat
    BY DOMAIN checks = 1 .. Len(checks)
<1>2. \A k \in DOMAIN checks : checks[k] \in SUBSET R
    BY ElementOfSeq, DOMAIN checks = 1 .. Len(checks)
<1>3. CASE refusing = {}
    BY <1>3 DEF FirstRefusal
<1>4. CASE refusing # {}
    <2>1. Min(refusing) \in refusing
        BY <1>1, <1>4, MinIsLeast
    <2>2. FirstRefusal(checks) = checks[Min(refusing)]
        BY <1>4 DEF FirstRefusal
    <2> QED
        BY <1>2, <2>1, <2>2
<1> QED
    BY <1>3, <1>4

\* Checks that come one after the other pass if all of them do.
LEMMA BothPass ==
    ASSUME NEW S, NEW s \in Seq(S), NEW t \in Seq(S)
    PROVE  /\ s \o t \in Seq(S)
           /\ (\A k \in DOMAIN (s \o t) : (s \o t)[k] = {}) =>
                  /\ \A k \in DOMAIN s : s[k] = {}
                  /\ \A k \in DOMAIN t : t[k] = {}
<1>1. s \o t \in Seq(S)
    BY ConcatProperties
<1>2. ASSUME \A k \in DOMAIN (s \o t) : (s \o t)[k] = {}, NEW k \in DOMAIN s
      PROVE  s[k] = {}
    <2>1. k \in 1 .. Len(s) /\ Len(s) \in Nat /\ Len(t) \in Nat /\ Len(s \o t) = Len(s) + Len(t)
        BY LenProperties, ConcatProperties
    <2>2. k \in DOMAIN (s \o t) /\ (s \o t)[k] = s[k]
        BY <1>1, <2>1, ConcatProperties, LenProperties
    <2> QED
        BY <1>2, <2>2
<1>3. ASSUME \A k \in DOMAIN (s \o t) : (s \o t)[k] = {}, NEW k \in DOMAIN t
      PROVE  t[k] = {}
    <2>1. k \in 1 .. Len(t) /\ Len(s) \in Nat /\ Len(t) \in Nat /\ Len(s \o t) = Len(s) + Len(t)
        BY LenProperties, ConcatProperties
    <2>2. Len(s) + k \in DOMAIN (s \o t) /\ (s \o t)[Len(s) + k] = t[k]
        BY <1>1, <2>1, ConcatProperties, LenProperties
    <2> QED
        BY <1>3, <2>2
<1> QED
    BY <1>1, <1>2, <1>3

\* The checks of the three kinds of formats, one part after the other.
LEMMA ChecksTyped ==
    ASSUME NEW u \in Uploads
    PROVE  /\ \A format : InspectOoxml(u, format) \in Seq(SUBSET UploadRefusals)
           /\ Inspect(u) \in Seq(SUBSET UploadRefusals)
           /\ Scan(u) \in Seq(SUBSET UploadRefusals)
           /\ Checks(u) \in Seq(SUBSET UploadRefusals)
<1> DEFINE R == UploadRefusals
<1>1. /\ u.entries \in Seq(Entries)
      /\ u.extension \in Extensions
    BY Zenon DEF Uploads
<1>2. \A entry : EntryRefusal(entry) \in SUBSET R
    BY DEF EntryRefusal, Check, UploadRefusals
<1>3. ASSUME NEW format PROVE InspectOoxml(u, format) \in Seq(SUBSET R)
    <2> DEFINE names == {entry.name : entry \in ToSet(u.entries)}
               uncompressed == Total(u.entries, LAMBDA entry : entry.file_size)
               compressed == Total(u.entries, LAMBDA entry : entry.compress_size)
               container ==
                   <<Check("ENCRYPTED_DOCUMENT", u.signature = "ole"),
                     Check("SIGNATURE_MISMATCH", u.signature # "zip"),
                     Check("MALFORMED_ARCHIVE", "broken archive" \in u.found),
                     Check("ARCHIVE_LIMIT_EXCEEDED", Len(u.entries) > MaxArchiveEntries)>>
               entries == [k \in DOMAIN u.entries |-> EntryRefusal(u.entries[k])]
               limits ==
                   <<Check("ARCHIVE_LIMIT_EXCEEDED", uncompressed > MaxUncompressedBytes),
                     Check("ARCHIVE_LIMIT_EXCEEDED",
                           uncompressed > MaxCompressionRatio * Max({compressed, 1}))>>
               parts == PartChecks(names, format)
    <2>1. InspectOoxml(u, format) = container \o entries \o limits \o parts
        BY DEF InspectOoxml
    <2>2. container \in Seq(SUBSET R) /\ limits \in Seq(SUBSET R) /\ parts \in Seq(SUBSET R)
        BY DEF PartChecks, Check, UploadRefusals
    <2>3. entries \in Seq(SUBSET R)
        <3>1. DOMAIN u.entries = 1 .. Len(u.entries) /\ Len(u.entries) \in Nat
            BY <1>1
        <3> QED
            BY <1>2, <3>1, IsASeq
    <2> HIDE DEF container, entries, limits, parts
    <2>4. container \o entries \in Seq(SUBSET R)
        BY <2>2, <2>3, BothPass
    <2>5. container \o entries \o limits \in Seq(SUBSET R)
        BY <2>2, <2>4, BothPass
    <2> QED
        BY <2>1, <2>2, <2>5, BothPass
<1>4. Scan(u) \in Seq(SUBSET R)
    BY DEF Scan, Check, UploadRefusals
<1>5. Inspect(u) \in Seq(SUBSET R)
    <2>1. InspectPdf(u) \in Seq(SUBSET R) /\ InspectText(u) \in Seq(SUBSET R)
        BY DEF InspectPdf, InspectText, Check, UploadRefusals
    <2> QED
        BY <2>1, <1>3 DEF Inspect
<1>6. Checks(u) \in Seq(SUBSET R)
    <2> DEFINE size == <<Check("INVALID_PAYLOAD", ~u.bytes),
                         Check("EMPTY_FILE", u.size = 0),
                         Check("FILE_TOO_LARGE", u.size > MaxUploadBytes)>>
               rest == IF u.extension \in DOMAIN DeniedExtensions
                       THEN <<{DeniedExtensions[u.extension]}>>
                       ELSE IF u.extension \notin DOMAIN AllowedExtensions
                       THEN <<{"EXTENSION_NOT_ALLOWED"}>>
                       ELSE Inspect(u) \o Scan(u)
    <2>1. Checks(u) = size \o rest
        BY DEF Checks
    <2>2. size \in Seq(SUBSET R)
        BY DEF Check, UploadRefusals
    <2>3. rest \in Seq(SUBSET R)
        <3>1. CASE u.extension \in DOMAIN DeniedExtensions
            BY <3>1 DEF DeniedExtensions, UploadRefusals
        <3>2. <<{"EXTENSION_NOT_ALLOWED"}>> \in Seq(SUBSET R)
            BY DEF UploadRefusals
        <3>3. Inspect(u) \o Scan(u) \in Seq(SUBSET R)
            BY <1>4, <1>5, BothPass
        <3> QED
            BY <3>1, <3>2, <3>3
    <2> HIDE DEF size, rest
    <2> QED
        BY <2>1, <2>2, <2>3, BothPass
<1> QED
    BY <1>3, <1>4, <1>5, <1>6

\* An upload that is accepted passes every check of its format.
LEMMA AcceptedPasses ==
    ASSUME NEW u \in Uploads, Refusals(u) = {}
    PROVE  /\ u.extension \in DOMAIN AllowedExtensions
           /\ \A k \in DOMAIN Inspect(u) : Inspect(u)[k] = {}
           /\ u.scan \in {"no scanner", "CLEAN"}
<1> DEFINE R == UploadRefusals
           size == <<Check("INVALID_PAYLOAD", ~u.bytes),
                     Check("EMPTY_FILE", u.size = 0),
                     Check("FILE_TOO_LARGE", u.size > MaxUploadBytes)>>
           rest == IF u.extension \in DOMAIN DeniedExtensions
                   THEN <<{DeniedExtensions[u.extension]}>>
                   ELSE IF u.extension \notin DOMAIN AllowedExtensions
                   THEN <<{"EXTENSION_NOT_ALLOWED"}>>
                   ELSE Inspect(u) \o Scan(u)
<1>1. \A k \in DOMAIN Checks(u) : Checks(u)[k] = {}
    BY ChecksTyped, FirstRefusalIsOne DEF Refusals
<1>2. Checks(u) = size \o rest
    BY DEF Checks
<1>3. size \in Seq(SUBSET R)
    BY DEF Check, UploadRefusals
<1>4. rest \in Seq(SUBSET R)
    <2>1. CASE u.extension \in DOMAIN DeniedExtensions
        BY <2>1 DEF DeniedExtensions, UploadRefusals
    <2>2. <<{"EXTENSION_NOT_ALLOWED"}>> \in Seq(SUBSET R)
        BY DEF UploadRefusals
    <2>3. Inspect(u) \o Scan(u) \in Seq(SUBSET R)
        BY ChecksTyped, BothPass
    <2> QED
        BY <2>1, <2>2, <2>3
<1>5. \A k \in DOMAIN rest : rest[k] = {}
    <2> HIDE DEF size, rest
    <2> QED
        BY <1>1, <1>2, <1>3, <1>4, BothPass, ZenonT(30)
<1>6. u.extension \notin DOMAIN DeniedExtensions /\ u.extension \in DOMAIN AllowedExtensions
    <2>1. \A reason : <<{reason}>>[1] # {} /\ 1 \in DOMAIN <<{reason}>>
        OBVIOUS
    <2> QED
        BY <1>5, <2>1
<1>7. rest = Inspect(u) \o Scan(u)
    BY <1>6
<1>8. /\ \A k \in DOMAIN Inspect(u) : Inspect(u)[k] = {}
      /\ \A k \in DOMAIN Scan(u) : Scan(u)[k] = {}
    <2> HIDE DEF rest
    <2> QED
        BY <1>5, <1>7, ChecksTyped, BothPass
<1>9. u.scan \in {"no scanner", "CLEAN"}
    <2>1. u.scan \in {"no scanner", "CLEAN", "INFECTED", "UNAVAILABLE"}
        BY Zenon DEF Uploads
    <2>2. Scan(u)[1] = {} /\ Scan(u)[2] = {}
        BY <1>8 DEF Scan
    <2> QED
        BY <2>1, <2>2, Zenon DEF Scan, Check
<1> QED
    BY <1>6, <1>8, <1>9, Zenon

\* An archive that is accepted is a ZIP; no entry of it is encrypted or has the
\* name of a part that is refused.
LEMMA AcceptedIsReadable ==
    ASSUME NEW u \in Uploads, Refusals(u) = {},
           AllowedExtensions[u.extension] \in {"docx", "xlsx"}
    PROVE  /\ u.signature = "zip"
           /\ \A entry \in ToSet(u.entries) :
                  ~entry.encrypted /\ entry.name \notin ForbiddenParts
<1> DEFINE format == AllowedExtensions[u.extension]
           names == {e.name : e \in ToSet(u.entries)}
           uncompressed == Total(u.entries, LAMBDA e : e.file_size)
           compressed == Total(u.entries, LAMBDA e : e.compress_size)
           container ==
               <<Check("ENCRYPTED_DOCUMENT", u.signature = "ole"),
                 Check("SIGNATURE_MISMATCH", u.signature # "zip"),
                 Check("MALFORMED_ARCHIVE", "broken archive" \in u.found),
                 Check("ARCHIVE_LIMIT_EXCEEDED", Len(u.entries) > MaxArchiveEntries)>>
           entries == [k \in DOMAIN u.entries |-> EntryRefusal(u.entries[k])]
           limits ==
               <<Check("ARCHIVE_LIMIT_EXCEEDED", uncompressed > MaxUncompressedBytes),
                 Check("ARCHIVE_LIMIT_EXCEEDED",
                       uncompressed > MaxCompressionRatio * Max({compressed, 1}))>>
           parts == PartChecks(names, format)
<1>1. Inspect(u) = container \o entries \o limits \o parts
    BY Zenon DEF Inspect, InspectOoxml
<1>2. /\ container \in Seq(SUBSET UploadRefusals) /\ limits \in Seq(SUBSET UploadRefusals)
      /\ parts \in Seq(SUBSET UploadRefusals)
    BY DEF PartChecks, Check, UploadRefusals
<1>3. u.entries \in Seq(Entries)
    BY Zenon DEF Uploads
<1>4. entries \in Seq(SUBSET UploadRefusals)
    <2>1. \A e : EntryRefusal(e) \in SUBSET UploadRefusals
        BY DEF EntryRefusal, Check, UploadRefusals
    <2>2. DOMAIN u.entries = 1 .. Len(u.entries) /\ Len(u.entries) \in Nat
        BY <1>3
    <2> QED
        BY <2>1, <2>2, IsASeq
<1>5. \A k \in DOMAIN Inspect(u) : Inspect(u)[k] = {}
    BY AcceptedPasses, Zenon
<1>6. /\ \A k \in DOMAIN container : container[k] = {}
      /\ \A k \in DOMAIN entries : entries[k] = {}
      /\ \A k \in DOMAIN parts : parts[k] = {}
    <2> HIDE DEF container, entries, limits, parts
    <2> DEFINE S == SUBSET UploadRefusals
               two == container \o entries
               three == two \o limits
    <2>1. container \in Seq(S) /\ entries \in Seq(S)
        BY <1>2, <1>4
    <2>2. limits \in Seq(S) /\ parts \in Seq(S)
        BY <1>2
    <2>3. \A k \in DOMAIN (three \o parts) : (three \o parts)[k] = {}
        BY <1>1, <1>5
    <2>4. two \in Seq(S)
        BY <2>1, BothPass
    <2> HIDE DEF two
    <2>5. three \in Seq(S)
        BY <2>2, <2>4, BothPass
    <2> HIDE DEF three
    <2>6. (\A k \in DOMAIN three : three[k] = {}) /\ (\A k \in DOMAIN parts : parts[k] = {})
        BY <2>2, <2>3, <2>5, BothPass, SMTT(30)
    <2>7. \A k \in DOMAIN (two \o limits) : (two \o limits)[k] = {}
        BY <2>6 DEF three
    <2>8. \A k \in DOMAIN two : two[k] = {}
        BY <2>2, <2>4, <2>7, BothPass, SMTT(30)
    <2>9. \A k \in DOMAIN (container \o entries) : (container \o entries)[k] = {}
        BY <2>8 DEF two
    <2>10. (\A k \in DOMAIN container : container[k] = {}) /\ (\A k \in DOMAIN entries : entries[k] = {})
        BY <2>1, <2>9, BothPass, SMTT(30)
    <2> QED
        BY <2>6, <2>10
<1>7. u.signature = "zip"
    <2>1. 2 \in DOMAIN container /\ container[2] = Check("SIGNATURE_MISMATCH", u.signature # "zip")
        OBVIOUS
    <2> HIDE DEF container, entries, parts
    <2> QED
        BY <1>6, <2>1 DEF Check
<1>8. "vbaProject.bin" \notin names /\ "EncryptionInfo" \notin names
    <2>1. /\ 1 \in DOMAIN parts /\ parts[1] = Check("MACRO_ENABLED_FORMAT", "vbaProject.bin" \in names)
          /\ 2 \in DOMAIN parts /\ parts[2] = Check("ENCRYPTED_DOCUMENT", "EncryptionInfo" \in names)
        BY DEF PartChecks
    <2> HIDE DEF container, entries, parts, names
    <2> QED
        BY <1>6, <2>1 DEF Check
<1>9. ASSUME NEW entry \in ToSet(u.entries)
      PROVE  ~entry.encrypted /\ entry.name \notin ForbiddenParts
    <2>1. PICK k \in DOMAIN u.entries : u.entries[k] = entry
        BY DEF ToSet
    <2>2. EntryRefusal(entry) = {}
        <3>1. k \in DOMAIN entries /\ entries[k] = EntryRefusal(entry)
            BY <2>1
        <3> HIDE DEF container, entries, parts
        <3> QED
            BY <1>6, <3>1
    <2>3. entry.name \in names
        OBVIOUS
    <2> HIDE DEF names
    <2> QED
        BY <1>8, <2>2, <2>3 DEF EntryRefusal, Check, ForbiddenParts
<1> QED
    BY <1>7, <1>9

\* No PDF that is accepted says that it is encrypted.
LEMMA AcceptedPdfIsOpen ==
    ASSUME NEW u \in Uploads, Refusals(u) = {}, AllowedExtensions[u.extension] = "pdf"
    PROVE  "/Encrypt" \notin u.found
<1>1. Inspect(u) = InspectPdf(u)
    BY DEF Inspect
<1>2. \A k \in DOMAIN InspectPdf(u) : InspectPdf(u)[k] = {}
    BY <1>1, AcceptedPasses, Zenon
<1>3. InspectPdf(u)[2] = {}
    BY <1>2 DEF InspectPdf
<1> QED
    BY <1>3 DEF InspectPdf, Check

\* A PDF that is read is not encrypted, and every page of it with an image has
\* text as well.
LEMMA ReadableHasText ==
    ASSUME NEW file
    PROVE  /\ PdfRefusals(file) \subseteq LoadRefusals
           /\ PdfRefusals(file) = {} =>
                  file.state = "readable" /\ ImageOnlyPages(file.pages) = {}
<1> DEFINE checks ==
        <<Check("ExtractionError", file.state # "readable"),
          Check("ExtractionError", Len(file.pages) > MaxPdfPages),
          Check("ExtractionError",
                TotalWeight(PageLines(file.pages)) > MaxExtractedCharacters),
          Check("OcrRequiredError", NeedsOcr(file.pages)),
          Check("ExtractionError", PageLines(file.pages) = <<>>)>>
<1>1. checks \in Seq(SUBSET LoadRefusals)
    BY DEF Check, LoadRefusals
<1>2. PdfRefusals(file) = FirstRefusal(checks)
    BY DEF PdfRefusals
<1>3. ASSUME \A k \in DOMAIN checks : checks[k] = {}
      PROVE  file.state = "readable" /\ ImageOnlyPages(file.pages) = {}
    <2>1. checks[1] = {} /\ checks[4] = {}
        BY <1>3
    <2>2. checks[1] = Check("ExtractionError", file.state # "readable")
        OBVIOUS
    <2>3. checks[4] = Check("OcrRequiredError", NeedsOcr(file.pages))
        OBVIOUS
    <2> HIDE DEF checks
    <2> QED
        BY <2>1, <2>2, <2>3 DEF Check, NeedsOcr
<1> HIDE DEF checks
<1> QED
    BY <1>1, <1>2, <1>3, FirstRefusalIsOne

-----------------------------------------------------------------------------
(* From the upload to the loaded document.                                  *)

\* How far an upload is tells what it has passed: its validation when there is
\* a loader, and for a loaded PDF the triage as well.
VouchedInv ==
    /\ upload \in Uploads
    /\ outcome \in {"uploaded", "loading", "loaded"} \cup UploadRefusals \cup LoadRefusals
    /\ outcome \in {"loading", "loaded"} => Refusals(upload) = {}
    /\ outcome = "loaded" =>
          /\ \A about \in UploadWarnings(upload) : Reported(about, 0)
          /\ Format = "pdf" => PdfRefusals(content) = {}

\* A loader reads on or refuses; it touches neither the upload nor the content.
LEMMA ReadStep ==
    ASSUME ReadMarkdown \/ ReadHtml \/ ReadDocx \/ ReadPdf \/ ReadXlsx
    PROVE  /\ outcome = "loading"
           /\ upload' = upload /\ content' = content
           /\ outcome' = "loading" \/ outcome' \in LoadRefusals
<1> USE DEF Loading, Extract, Refuse, LoadRefusals
<1>1. CASE ReadMarkdown
    BY <1>1 DEF ReadMarkdown, SkipBlank, Code, Heading, Table, Quote, ListItem, Paragraph, At, Take
<1>2. CASE ReadHtml
    BY <1>2 DEF ReadHtml, HtmlStart, HtmlEnd, HtmlData, HtmlFault, HtmlWalk, NextEvent, Parsed
<1>3. CASE ReadDocx
    BY <1>3 DEF ReadDocx, DocxRefused, DocxParagraph, DocxTableElement, DocxSkip, AtElement
<1>4. CASE ReadPdf
    <2>1. CASE PdfRefused
        BY <2>1, ReadableHasText DEF PdfRefused
    <2>2. CASE PdfPage
        BY <2>2, Zenon DEF PdfPage
    <2> QED
        BY <1>4, <2>1, <2>2 DEF ReadPdf
<1>5. CASE ReadXlsx
    BY <1>5 DEF ReadXlsx, XlsxRefused, XlsxSheet
<1> QED
    BY <1>1, <1>2, <1>3, <1>4, <1>5

LEMMA VouchedStep == VouchedInv /\ [Next]_vars => VouchedInv'
<1> SUFFICES ASSUME VouchedInv, [Next]_vars PROVE VouchedInv'
    OBVIOUS
<1>1. Refusals(upload) \subseteq UploadRefusals
    BY ChecksTyped, FirstRefusalIsOne DEF VouchedInv, Refusals
<1>2. /\ {"uploaded", "loading", "loaded"} \cap UploadRefusals = {}
      /\ {"uploaded", "loading", "loaded"} \cap LoadRefusals = {}
    BY DEF UploadRefusals, LoadRefusals
<1>3. CASE Validate
    <2>1. upload' = upload /\ Refusals(upload)' = Refusals(upload)
        BY <1>3 DEF Validate
    <2>2. CASE Refusals(upload) = {}
        <3>1. outcome' = "loading"
            BY <1>3, <2>2 DEF Validate
        <3> QED
            BY <2>1, <2>2, <3>1 DEF VouchedInv
    <2>3. CASE Refusals(upload) # {}
        <3>1. outcome' \in UploadRefusals
            BY <1>1, <1>3, <2>3 DEF Validate
        <3> QED
            BY <1>2, <2>1, <3>1 DEF VouchedInv
    <2> QED
        BY <2>2, <2>3
<1>4. CASE ReadMarkdown \/ ReadHtml \/ ReadDocx \/ ReadPdf \/ ReadXlsx
    <2>1. /\ outcome = "loading" /\ upload' = upload
          /\ outcome' = "loading" \/ outcome' \in LoadRefusals
        BY <1>4, ReadStep
    <2>2. outcome' # "loaded" /\ Refusals(upload)' = Refusals(upload)
        BY <1>2, <2>1
    <2> QED
        BY <1>2, <2>1, <2>2 DEF VouchedInv
<1>5. CASE Finish
    <2>1. outcome = "loading" /\ upload' = upload /\ content' = content /\ AtEnd
        BY <1>5 DEF Finish
    <2>2. CASE builder.blocks = <<>>
        <3>1. outcome' = "ExtractionError"
            BY <1>5, <2>2 DEF Finish
        <3> QED
            BY <1>2, <2>1, <3>1 DEF VouchedInv, LoadRefusals
    <2>3. CASE builder.blocks # <<>>
        <3>1. outcome' = "loaded" /\ notices' = LoadedWarnings
            BY <1>5, <2>3 DEF Finish
        <3>2. \A about \in UploadWarnings(upload) : [about |-> about, at |-> 0] \in notices'
            BY <3>1, Zenon DEF LoadedWarnings
        <3>3. Format = "pdf" => PdfRefusals(content) = {}
            BY <2>1 DEF AtEnd, PdfRead
        <3>4. /\ Format' = Format /\ UploadWarnings(upload)' = UploadWarnings(upload)
              /\ Refusals(upload)' = Refusals(upload)
              /\ PdfRefusals(content)' = PdfRefusals(content)
            BY <2>1 DEF Format
        <3> QED
            BY <2>1, <3>1, <3>2, <3>3, <3>4 DEF VouchedInv, Reported
    <2> QED
        BY <2>2, <2>3
<1>6. CASE UNCHANGED vars
    BY <1>6 DEF vars, loaderVars, VouchedInv, Reported, Format
<1> QED
    BY <1>3, <1>4, <1>5, <1>6 DEF Next

LEMMA VouchedInit == Init => VouchedInv
BY ReceivedAssumption DEF Init, VouchedInv

\* In whatever order the checks come and whatever the limits are, a document that
\* is loaded was scanned and found clean or carries the warning that it was not;
\* nothing encrypted, no macro, no name that leads out of its archive and no page
\* that needs OCR is in one.
THEOREM LoadedAlwaysVouched == Spec => []LoadedIsVouched
<1>1. VouchedInv => LoadedIsVouched
    <2> SUFFICES ASSUME VouchedInv, outcome = "loaded"
                 PROVE  LoadedIsVouched
        BY Zenon DEF LoadedIsVouched
    <2>1. upload \in Uploads /\ Refusals(upload) = {}
        BY DEF VouchedInv
    <2>2. /\ upload.scan \in {"no scanner", "CLEAN"}
          /\ upload.extension \in DOMAIN AllowedExtensions
        BY <2>1, AcceptedPasses, Zenon
    <2>3. upload.scan = "no scanner" => "not scanned" \in UploadWarnings(upload)
        BY Zenon DEF UploadWarnings, Check
    <2>4. upload.declared => "content type ignored" \in UploadWarnings(upload)
        BY DEF UploadWarnings, Check
    <2>5. /\ upload.scan = "CLEAN" \/ Reported("not scanned", 0)
          /\ ~upload.declared \/ Reported("content type ignored", 0)
        BY <2>2, <2>3, <2>4, Zenon DEF VouchedInv
    <2>6. Format \in {"docx", "xlsx"} =>
              /\ upload.signature = "zip"
              /\ \A entry \in ToSet(upload.entries) :
                     ~entry.encrypted /\ entry.name \notin ForbiddenParts
        BY <2>1, AcceptedIsReadable DEF Format
    <2>7. Format = "pdf" => content.state # "encrypted" /\ ImageOnlyPages(content.pages) = {}
        BY ReadableHasText DEF VouchedInv
    <2>8. Format = "pdf" => "/Encrypt" \notin upload.found
        BY <2>1, AcceptedPdfIsOpen DEF Format
    <2> QED
        BY <2>2, <2>5, <2>6, <2>7, <2>8, Zenon DEF LoadedIsVouched
<1> QED
    BY <1>1, VouchedInit, VouchedStep, PTL DEF Spec

\* The sections of what was extracted never share an address, at any time and in
\* any format: SegmentationResult refuses no document for that.
THEOREM AddressesNeverShared == Spec => []SectionAddressesUnique
<1>1. SectionAddressesUnique
    <2>1. CASE Loading({"xlsx"})
        BY <2>1, MatrixSectionsUnique DEF SectionAddressesUnique, Sections
    <2>2. CASE ~Loading({"xlsx"})
        BY <2>2, HeadingSectionsUnique DEF SectionAddressesUnique, Sections
    <2> QED
        BY <2>1, <2>2
<1> QED
    BY <1>1, PTL

-----------------------------------------------------------------------------
(* What a loader may call and what becomes of it.                           *)

\* What a loader may hand to the builder for a document whose lines are in L, at
\* a place up to last: a heading has a level, and one that turns out empty is
\* reported at its place.
IsCall(call, L, last) ==
    /\ call.type \in BlockTypes
    /\ call.text \in Seq(L)
    /\ call.type = "HEADING" =>
          /\ call.level \in Nat \ {0}
          /\ call.text \in Seq(Words \cup {Blank})
          /\ Normalize(call.text) = <<>> => call.at \in 1 .. last

AreCalls(calls, L, last) ==
    \E S : calls \in Seq(S) /\ \A call \in S : IsCall(call, L, last)

IsBlockOf(block, L) == IsBlock(block) /\ block.text \in Seq(L)

\* A builder whose blocks are all accepted by CanonicalBlock.
IsTyped(b, L, last) ==
    \E B : /\ b \in Builders(Words, B, 1 .. last)
           /\ \A block \in B : IsBlockOf(block, L)

LEMMA OpenedIsTyped ==
    ASSUME NEW L, NEW last
    PROVE  IsTyped(Opened, L, last)
<1>1. Opened \in Builders(Words, {}, 1 .. last)
    BY EmptySeq DEF Opened, Builders
<1>2. \A block \in {} : IsBlockOf(block, L)
    OBVIOUS
<1> QED
    BY <1>1, <1>2 DEF IsTyped

\* A call leaves the blocks typed, and says its text after them.
LEMMA CallAdded ==
    ASSUME NEW L, IsAlphabet(L), NEW last, NEW b, IsTyped(b, L, last),
           NEW call, IsCall(call, L, last)
    PROVE  /\ IsTyped(AddCall(b, call), L, last)
           /\ Inked(Spoken(AddCall(b, call).blocks)) = Inked(Spoken(b.blocks)) \o Inked(call.text)
           /\ Normalize(call.text) # <<>> =>
                  \E block : /\ AddCall(b, call).blocks = Append(b.blocks, block)
                             /\ block.type = call.type
                             /\ block.text = Normalize(call.text)
                             /\ block.locator = call.at
<1> DEFINE title == Normalize(call.text)
           entry == [level |-> call.level, word |-> title[1]]
           cut == Cut(b.path, call.level)
           path == Append(cut, entry)
           heading == [type |-> "HEADING", text |-> title, level |-> call.level,
                       locator |-> call.at, heading_path |-> HeadingPath(path)]
           other == [type |-> call.type, text |-> title, level |-> 0,
                     locator |-> call.at, heading_path |-> HeadingPath(b.path)]
<1>1. PICK B : b \in Builders(Words, B, 1 .. last) /\ \A block \in B : IsBlockOf(block, L)
    BY DEF IsTyped
<1>2. /\ b.path \in Seq(PathEntries(Words)) /\ b.blocks \in Seq(B)
      /\ b.warnings \in SUBSET (1 .. last)
      /\ b = [path |-> b.path, blocks |-> b.blocks, warnings |-> b.warnings]
    BY <1>1 DEF Builders
<1>3. /\ call.type \in BlockTypes /\ call.text \in Seq(L)
      /\ title \in Seq(L) /\ Inked(title) = Inked(call.text)
      /\ title # <<>> => title[1] # Blank
    BY InkedNormalized DEF IsCall
<1>4. title \in Seq(Letters)
    BY <1>3, SeqGrows DEF IsAlphabet
<1>5. ASSUME title = <<>>
      PROVE  /\ Inked(call.text) = <<>>
             /\ Inked(Spoken(b.blocks)) \o <<>> = Inked(Spoken(b.blocks))
    <2>1. Inked(<<>>) = <<>>
        BY InkedOfNothing
    <2>2. Saying(B, L)
        BY <1>1 DEF IsBlockOf, Saying
    <2>3. Spoken(b.blocks) \in Seq(L)
        BY <1>2, <2>2, SpokenJoined
    <2> QED
        BY <1>3, <1>5, <2>1, <2>3, InkedIsSeq, ConcatEmptySeq
<1>6. ASSUME title # <<>>, NEW block, IsBlock(block), block.text = title,
             NEW more, more = Append(b.blocks, block),
             NEW stack \in Seq(PathEntries(Words))
      PROVE  /\ IsTyped([path |-> stack, blocks |-> more, warnings |-> b.warnings], L, last)
             /\ Inked(Spoken(more)) = Inked(Spoken(b.blocks)) \o Inked(call.text)
    <2> DEFINE C == B \cup {block}
    <2>1. \A c \in C : IsBlockOf(c, L)
        BY <1>1, <1>3, <1>6 DEF IsBlockOf
    <2>7. Saying(C, L)
        BY <2>1 DEF IsBlockOf, Saying
    <2>2. b.blocks \in Seq(C) /\ block \in C
        BY <1>2, SeqGrows
    <2> HIDE DEF C, title
    <2>3. more \in Seq(C)
        BY <1>6, <2>2, AppendProperties
    <2>4. [path |-> stack, blocks |-> more, warnings |-> b.warnings]
              \in Builders(Words, C, 1 .. last)
        BY <1>2, <1>6, <2>3 DEF Builders
    <2>5. Spoken(more) = Spoken(b.blocks) \o title /\ Spoken(b.blocks) \in Seq(L)
        <3> DEFINE blocks == b.blocks
        <3>1. blocks \in Seq(C) /\ block \in C
            BY <2>2
        <3> HIDE DEF blocks
        <3>2. /\ Spoken(blocks) \in Seq(L)
              /\ Spoken(Append(blocks, block)) = Spoken(blocks) \o block.text
            BY ONLY <3>1, <2>7, SpokenGrows
        <3> QED
            BY <1>6, <3>2 DEF blocks
    <2>6. Inked(Spoken(b.blocks) \o title) = Inked(Spoken(b.blocks)) \o Inked(title)
        BY <1>3, <2>5, InkedJoined
    <2> QED
        BY <1>3, <2>1, <2>4, <2>5, <2>6 DEF IsTyped
<1>7. CASE call.type = "HEADING"
    <2>1. /\ call.level \in Nat \ {0} /\ call.text \in Seq(Words \cup {Blank})
          /\ title = <<>> => call.at \in 1 .. last
        BY <1>7 DEF IsCall
    <2>2. CASE title = <<>>
        <3>1. AddCall(b, call) =
                  [path |-> b.path, blocks |-> b.blocks, warnings |-> b.warnings \cup {call.at}]
            BY <1>2, <1>7, <2>2 DEF AddCall, AddHeading
        <3>2. b.warnings \cup {call.at} \in SUBSET (1 .. last)
            BY <1>2, <2>1, <2>2
        <3>3. [path |-> b.path, blocks |-> b.blocks, warnings |-> b.warnings \cup {call.at}]
                  \in Builders(Words, B, 1 .. last)
            BY <1>2, <3>2 DEF Builders
        <3>4. IsTyped(AddCall(b, call), L, last)
            BY <1>1, <3>1, <3>3 DEF IsTyped
        <3>5. AddCall(b, call).blocks = b.blocks
            BY <3>1
        <3> QED
            BY <1>5, <2>2, <3>4, <3>5
    <2>3. CASE title # <<>>
        <3>1. title[1] \in Words
            <4>1. title \in Seq(Words \cup {Blank}) /\ title[1] # Blank
                BY <1>3, <2>1, <2>3, InkedNormalized
            <4> HIDE DEF title
            <4>2. 1 \in 1 .. Len(title)
                BY <4>1, <2>3, LenProperties, EmptySeq
            <4>3. title[1] \in Words \cup {Blank}
                BY <4>1, <4>2, ElementOfSeq
            <4> QED
                BY <4>1, <4>3
        <3>2. entry \in PathEntries(Words)
            BY <2>1, <3>1 DEF PathEntries
        <3>3. cut \in Seq(PathEntries(Words))
            <4> DEFINE S == {0} \cup {i \in DOMAIN b.path : b.path[i].level < call.level}
                       c == Max(S)
                       n == Len(b.path)
            <4>1. n \in Nat /\ DOMAIN b.path = 1 .. n
                  /\ \A i \in 1 .. n : b.path[i] \in PathEntries(Words)
                BY <1>2, LenProperties, ElementOfSeq
            <4> HIDE DEF n
            <4>2. S \in SUBSET (0 .. n) /\ S # {}
                BY <4>1
            <4>3. cut = SubSeq(b.path, 1, c)
                BY DEF Cut
            <4> HIDE DEF S, cut
            <4>4. c \in 0 .. n
                BY <4>1, <4>2, MaxIsGreatest
            <4>5. \A i \in 1 .. c : b.path[i] \in PathEntries(Words)
                BY <4>1, <4>4
            <4> HIDE DEF c
            <4>6. SubSeq(b.path, 1, c) \in Seq(PathEntries(Words))
                BY <4>1, <4>4, <4>5, SubSeqProperties
            <4> QED
                BY <4>3, <4>6
        <3>4. path \in Seq(PathEntries(Words))
            <4> HIDE DEF cut, entry
            <4> QED
                BY <3>2, <3>3, AppendProperties
        <3>5. IsBlock(heading)
            <4>1. HeadingPath(path) \in Seq(Words)
                <5> HIDE DEF path
                <5> QED
                    BY <3>4, HeadingPathTyped
            <4>2. call.level \in Nat /\ call.level > 0
                BY <2>1
            <4>3. title \in Seq(Words \cup {Blank, EmptyCell}) \ {<<>>}
                BY <1>4, <2>3 DEF Letters
            <4> HIDE DEF title, path
            <4> QED
                BY <4>1, <4>2, <4>3 DEF IsBlock, BlockTypes
        <3>6. AddCall(b, call) =
                  [path |-> path, blocks |-> Append(b.blocks, heading), warnings |-> b.warnings]
            BY <1>2, <1>7, <2>3 DEF AddCall, AddHeading
        <3> DEFINE more == Append(b.blocks, heading)
        <3>7. heading.type = call.type /\ heading.text = title /\ heading.locator = call.at
            BY <1>7
        <3> HIDE DEF heading, path, title
        <3>8. /\ IsTyped([path |-> path, blocks |-> more, warnings |-> b.warnings], L, last)
              /\ Inked(Spoken(more)) = Inked(Spoken(b.blocks)) \o Inked(call.text)
            BY <1>6, <2>3, <3>4, <3>5, <3>7
        <3>9. AddCall(b, call).blocks = more
            BY <3>6
        <3> QED
            BY <3>6, <3>7, <3>8, <3>9 DEF title
    <2> QED
        BY <2>2, <2>3
<1>8. CASE call.type # "HEADING"
    <2>1. CASE title = <<>>
        <3>1. AddCall(b, call) = b
            BY <1>8, <2>1 DEF AddCall, AddBlock, IsEmpty
        <3> QED
            BY <1>5, <2>1, <3>1
    <2>2. CASE title # <<>>
        <3>1. IsBlock(other)
            <4>1. HeadingPath(b.path) \in Seq(Words)
                BY <1>2, HeadingPathTyped
            <4>2. title \in Seq(Words \cup {Blank, EmptyCell}) \ {<<>>}
                BY <1>4, <2>2 DEF Letters
            <4> HIDE DEF title
            <4> QED
                BY <1>3, <1>8, <4>1, <4>2 DEF IsBlock
        <3>2. AddCall(b, call) =
                  [path |-> b.path, blocks |-> Append(b.blocks, other), warnings |-> b.warnings]
            BY <1>2, <1>8, <2>2 DEF AddCall, AddBlock, IsEmpty
        <3> DEFINE more == Append(b.blocks, other)
        <3>3. other.type = call.type /\ other.text = title /\ other.locator = call.at
            OBVIOUS
        <3> HIDE DEF other, title
        <3>4. /\ IsTyped([path |-> b.path, blocks |-> more, warnings |-> b.warnings], L, last)
              /\ Inked(Spoken(more)) = Inked(Spoken(b.blocks)) \o Inked(call.text)
            BY <1>2, <1>6, <2>2, <3>1, <3>3
        <3>5. AddCall(b, call).blocks = more
            BY <3>2
        <3> QED
            BY <3>2, <3>3, <3>4, <3>5 DEF title
    <2> QED
        BY <2>1, <2>2
<1> QED
    BY <1>7, <1>8

\* Whatever a loader hands over, and however much, the builder stays well built
\* and typed, goes on from its blocks and says all of it.
LEMMA CallsAdded ==
    ASSUME NEW L, IsAlphabet(L), NEW last, NEW b, WellBuilt(b), IsTyped(b, L, last),
           NEW calls, AreCalls(calls, L, last)
    PROVE  /\ WellBuilt(AddCalls(b, calls))
           /\ Continues(b.blocks, AddCalls(b, calls).blocks)
           /\ IsTyped(AddCalls(b, calls), L, last)
           /\ Inked(Spoken(AddCalls(b, calls).blocks)) =
                  Inked(Spoken(b.blocks)) \o Inked(Spoken(calls))
<1> DEFINE n == Len(calls)
           front(k) == SubSeq(calls, 1, k)
<1>1. PICK S : calls \in Seq(S) /\ \A call \in S : IsCall(call, L, last)
    BY DEF AreCalls
<1>2. PICK step : AreSteps(step, b, calls)
    BY <1>1, CallSteps
<1>3. n \in Nat /\ DOMAIN calls = 1 .. n /\ \A k \in 1 .. n : calls[k] \in S
    BY <1>1, LenProperties, ElementOfSeq
<1>4. Saying(S, L)
    BY <1>1 DEF Saying, IsCall
<1> DEFINE said == Inked(Spoken(b.blocks))
           T == {k \in 0 .. n :
                    /\ WellBuilt(step[k])
                    /\ Continues(b.blocks, step[k].blocks)
                    /\ IsTyped(step[k], L, last)
                    /\ Inked(Spoken(step[k].blocks)) = said \o Inked(Spoken(front(k)))}
<1>5. said \in Seq(L)
    <2>1. PICK B : b \in Builders(Words, B, 1 .. last) /\ \A block \in B : IsBlockOf(block, L)
        BY DEF IsTyped
    <2>2. b.blocks \in Seq(B) /\ Saying(B, L)
        BY <2>1 DEF Builders, Saying, IsBlockOf
    <2>3. Spoken(b.blocks) \in Seq(L)
        BY <2>2, SpokenJoined
    <2> QED
        BY <2>3, InkedIsSeq
<1> HIDE DEF n, said
<1>6. 0 \in T
    <2>1. step[0] = b
        BY <1>2 DEF AreSteps
    <2>2. front(0) = <<>>
        BY SubSeqEmpty
    <2>3. Spoken(<<>>) = <<>>
        <3>1. Spoken(<<>>) = FlattenSeq(<<>>)
            BY DEF Spoken
        <3> QED
            BY <3>1, FlattenedFew, EmptySeq
    <2>4. said \o Inked(Spoken(front(0))) = said
        BY <1>5, <2>2, <2>3, InkedOfNothing, ConcatEmptySeq
    <2>5. Continues(b.blocks, b.blocks)
        BY DEF Continues, Begins
    <2> QED
        BY <1>3, <2>1, <2>4, <2>5 DEF said
<1>7. ASSUME NEW k \in 0 .. n - 1, k \in T PROVE k + 1 \in T
    <2>1. k + 1 \in 1 .. n /\ k + 1 \in 0 .. n /\ calls[k + 1] \in S
        BY <1>3
    <2> DEFINE call == calls[k + 1]
               now == step[k]
               next == AddCall(now, call)
    <2>2. step[k + 1] = next
        BY <1>2 DEF AreSteps, n
    <2>3. IsCall(call, L, last)
        BY <1>1, <2>1
    <2>4. /\ WellBuilt(now) /\ Continues(b.blocks, now.blocks) /\ IsTyped(now, L, last)
          /\ Inked(Spoken(now.blocks)) = said \o Inked(Spoken(front(k)))
        BY <1>7
    <2> DEFINE f == front(k)
               text == call.text
    <2>5. f \in Seq(S) /\ front(k + 1) = Append(f, call)
        <3>1. \A i \in 1 .. k : calls[i] \in S
            BY <1>3
        <3>2. f \in Seq(S)
            BY <1>3, <3>1, SubSeqProperties
        <3>3. 1 \in 1 .. Len(calls) /\ k + 1 \in 1 .. Len(calls) /\ (k + 1) - 1 = k
            BY <1>3, <2>1 DEF n
        <3>4. front(k + 1) = f \o <<call>>
            BY <1>1, <3>3, SubSeqRecursiveSecond
        <3> HIDE DEF f, call
        <3>5. call \in S
            BY <2>1 DEF call
        <3> QED
            BY <3>2, <3>4, <3>5, AppendIsConcat
    <2>6. call \in S
        BY <2>1
    <2> HIDE DEF call, f, now
    <2>7. Spoken(f) \in Seq(L) /\ Spoken(Append(f, call)) = Spoken(f) \o call.text
        BY <1>4, <2>5, <2>6, SpokenGrows
    <2>8. call.text \in Seq(L)
        BY <2>3 DEF IsCall
    <2>9. /\ WellBuilt(next) /\ Continues(now.blocks, next.blocks)
        BY <2>3, <2>4, CallBuilt DEF IsCall
    <2>10. /\ IsTyped(next, L, last)
           /\ Inked(Spoken(next.blocks)) = Inked(Spoken(now.blocks)) \o Inked(call.text)
        <3> HIDE DEF text
        <3>1. IsCall(call, L, last) /\ IsTyped(now, L, last) /\ IsAlphabet(L)
            BY <2>3, <2>4
        <3> QED
            BY ONLY <3>1, CallAdded
    <2>11. Continues(b.blocks, next.blocks)
        BY <2>4, <2>9, ContinuesOn
    <2>12. Inked(Spoken(next.blocks)) = said \o Inked(Spoken(front(k + 1)))
        <3> DEFINE words == Inked(Spoken(f))
                   more == Inked(text)
        <3>1. words \in Seq(L) /\ more \in Seq(L)
            BY <2>7, <2>8, InkedIsSeq
        <3>2. Inked(Spoken(Append(f, call))) = words \o more
            BY <2>7, <2>8, InkedJoined
        <3>3. Inked(Spoken(next.blocks)) = (said \o words) \o more
            BY <2>4, <2>10 DEF f
        <3> HIDE DEF words, more, next
        <3>4. (said \o words) \o more = said \o (words \o more)
            BY <1>5, <3>1, ConcatAssociative
        <3> QED
            BY <2>5, <3>2, <3>3, <3>4
    <2> HIDE DEF next
    <2> QED
        BY <2>1, <2>2, <2>9, <2>10, <2>11, <2>12
<1> HIDE DEF T
<1>8. 0 .. n \subseteq T
    BY <1>3, <1>6, <1>7, Upwards
<1>9. n \in T
    BY <1>3, <1>8
<1>10. step[n] = AddCalls(b, calls)
    BY <1>2 DEF AreSteps, n
<1>11. front(n) = calls
    BY <1>1, SubSeqFull DEF n
<1> QED
    BY <1>9, <1>10, <1>11 DEF T, said

-----------------------------------------------------------------------------
(* The tree of a page.                                                      *)

\* Calls one after the other.
LEMMA NoCalls ==
    ASSUME NEW L, NEW last
    PROVE  AreCalls(<<>>, L, last)
<1> DEFINE S == {}
           none == <<>>
<1>1. none \in Seq(S) /\ \A call \in S : IsCall(call, L, last)
    BY EmptySeq
<1> HIDE DEF S, none
<1>2. AreCalls(none, L, last)
    BY <1>1 DEF AreCalls
<1> QED
    BY <1>2 DEF none

LEMMA OneCall ==
    ASSUME NEW L, NEW last, NEW call, IsCall(call, L, last)
    PROVE  AreCalls(<<call>>, L, last)
<1> DEFINE S == {call}
           one == <<call>>
<1>1. one \in Seq(S) /\ \A c \in S : IsCall(c, L, last)
    OBVIOUS
<1> HIDE DEF S, one
<1>2. AreCalls(one, L, last)
    BY <1>1 DEF AreCalls
<1> QED
    BY <1>2 DEF one

\* A call that is no heading.
LEMMA OtherCall ==
    ASSUME NEW L, NEW last, NEW type \in BlockTypes \ {"HEADING"}, NEW text \in Seq(L), NEW at
    PROVE  AreCalls(<<Call(type, 0, text, at)>>, L, last)
<1>1. IsCall(Call(type, 0, text, at), L, last)
    BY DEF IsCall, Call
<1> QED
    BY <1>1, OneCall

\* The calls at the places 1 to n.
LEMMA CallsListed ==
    ASSUME NEW L, NEW last, NEW n \in Nat, NEW calls, calls = [i \in 1 .. n |-> calls[i]],
           \A i \in 1 .. n : IsCall(calls[i], L, last)
    PROVE  AreCalls(calls, L, last)
<1> DEFINE S == {calls[i] : i \in 1 .. n}
<1>1. \A i \in 1 .. n : calls[i] \in S
    OBVIOUS
<1>2. \A call \in S : IsCall(call, L, last)
    OBVIOUS
<1> HIDE DEF S
<1>3. calls \in Seq(S)
    BY <1>1, FunctionIsSeq
<1> QED
    BY <1>2, <1>3 DEF AreCalls

LEMMA CallsFlattened ==
    ASSUME NEW L, NEW last, NEW n \in Nat, NEW parts,
           parts = [k \in 1 .. n |-> parts[k]], \A k \in 1 .. n : AreCalls(parts[k], L, last)
    PROVE  AreCalls(FlattenSeq(parts), L, last)
<1> DEFINE S == UNION {{parts[k][i] : i \in DOMAIN parts[k]} : k \in 1 .. n}
<1>1. ASSUME NEW k \in 1 .. n
      PROVE  /\ parts[k] \in Seq(S)
             /\ \A i \in DOMAIN parts[k] : IsCall(parts[k][i], L, last)
    <2>1. PICK R : parts[k] \in Seq(R) /\ \A call \in R : IsCall(call, L, last)
        BY DEF AreCalls
    <2>2. /\ DOMAIN parts[k] = 1 .. Len(parts[k]) /\ Len(parts[k]) \in Nat
          /\ parts[k] \in [1 .. Len(parts[k]) -> R]
        BY <2>1, LenProperties, ElementOfSeq
    <2>3. \A i \in DOMAIN parts[k] : parts[k][i] \in S
        OBVIOUS
    <2> HIDE DEF S
    <2>4. parts[k] \in [1 .. Len(parts[k]) -> S]
        BY <2>2, <2>3
    <2> QED
        BY <2>1, <2>2, <2>4, SeqDef
<1>2. ASSUME NEW call \in S PROVE IsCall(call, L, last)
    <2>1. PICK k \in 1 .. n : call \in {parts[k][i] : i \in DOMAIN parts[k]}
        OBVIOUS
    <2>2. PICK i \in DOMAIN parts[k] : call = parts[k][i]
        BY <2>1
    <2> QED
        BY <1>1, <2>2
<1> HIDE DEF S
<1> DEFINE V == Seq(S)
<1>3. \A k \in 1 .. n : parts[k] \in V
    BY <1>1
<1> HIDE DEF V
<1>4. parts \in Seq(V)
    BY <1>3, FunctionIsSeq
<1>5. FlattenSeq(parts) \in Seq(S)
    BY <1>4, FlattenedIsSeq DEF V
<1> QED
    BY <1>2, <1>5 DEF AreCalls

LEMMA CallsJoined ==
    ASSUME NEW L, NEW last, NEW s, NEW t, AreCalls(s, L, last), AreCalls(t, L, last)
    PROVE  AreCalls(s \o t, L, last)
<1>1. PICK S : s \in Seq(S) /\ \A call \in S : IsCall(call, L, last)
    BY DEF AreCalls
<1>2. PICK T : t \in Seq(T) /\ \A call \in T : IsCall(call, L, last)
    BY DEF AreCalls
<1>3. s \in Seq(S \cup T) /\ t \in Seq(S \cup T)
    BY <1>1, <1>2, SeqGrows
<1>4. s \o t \in Seq(S \cup T)
    BY <1>3, ConcatProperties
<1> QED
    BY <1>1, <1>2, <1>4 DEF AreCalls

-----------------------------------------------------------------------------
(* The cells of a table.                                                    *)

\* What a node gives, if its children give calls.
LEMMA EmitsCalls ==
    ASSUME NEW nodes, AreNodes(nodes), NEW n \in DOMAIN nodes,
           NEW last \in Nat, Len(nodes) <= last, NEW ofKids,
           \A k \in DOMAIN nodes[n].kids : AreCalls(ofKids[k], Letters, last)
    PROVE  AreCalls(Emit(nodes, n, Texts(nodes, Words), ofKids), Letters, last)
<1> DEFINE kids == nodes[n].kids
           m == Len(kids)
           text == Texts(nodes, Words)
<1>1. /\ m \in Nat /\ DOMAIN kids = 1 .. m /\ \A k \in 1 .. m : kids[k] \in DOMAIN nodes
      /\ n \in 1 .. last
    BY KidsAreNodes
<1>2. \A k \in 1 .. m : text[kids[k]] \in Seq(Words)
    BY <1>1, TextsTyped
<1>3. \A words \in Seq(Words) : words \in Seq(Letters) /\ words \in Seq(Words \cup {Blank})
    BY SeqGrows DEF Letters
<1> HIDE DEF text
<1>4. ASSUME NEW type \in BlockTypes \ {"HEADING"}, NEW words \in Seq(Letters)
      PROVE  AreCalls(<<Call(type, 0, words, n)>>, Letters, last)
    BY OtherCall
<1>5. /\ "PARAGRAPH" \in BlockTypes \ {"HEADING"} /\ "QUOTE" \in BlockTypes \ {"HEADING"}
      /\ "CODE" \in BlockTypes \ {"HEADING"} /\ "LIST_ITEM" \in BlockTypes \ {"HEADING"}
      /\ "TABLE" \in BlockTypes \ {"HEADING"}
    BY DEF BlockTypes
<1>6. ASSUME NEW words \in Seq(Words) PROVE AreCalls(Flush(words, n), Letters, last)
    BY <1>3, <1>4, <1>5, NoCalls DEF Flush
<1>7. ASSUME NEW c \in Nat, NEW texts, texts = [k \in 1 .. c |-> texts[k]],
             \A k \in 1 .. c : texts[k] = <<>> \/ texts[k] \in Seq(Words)
      PROVE  FlattenSeq(texts) \in Seq(Words)
    <2>1. <<>> \in Seq(Words)
        BY EmptySeq
    <2>2. \A k \in 1 .. c : texts[k] \in Seq(Words)
        BY <1>7, <2>1
    <2> QED
        BY <1>7, <2>2, TextsFlattened
<1>8. AreCalls(Walk(nodes, n, text, ofKids), Letters, last)
    <2> DEFINE isInline(k) == nodes[kids[k]].tag \in InlineTags \cup {"#text"}
               breaks == {k \in DOMAIN kids :
                             ~isInline(k) /\ nodes[kids[k]].tag \notin DroppedTags}
               before(k) == Max({0} \cup {b \in breaks : b < k})
               pending(k) ==
                   LET stop == Max({0} \cup {b \in breaks : b < k})
                   IN  FlattenSeq([j \in 1 .. k - 1 |->
                           IF j > stop /\ isInline(j) THEN text[kids[j]] ELSE <<>>])
               parts == [k \in DOMAIN kids |->
                            IF k \in breaks THEN Flush(pending(k), n) \o ofKids[k] ELSE <<>>]
    <2>1. Walk(nodes, n, text, ofKids) = FlattenSeq(parts) \o Flush(pending(m + 1), n)
        BY DEF Walk
    <2>2. ASSUME NEW k \in 1 .. m + 1 PROVE pending(k) \in Seq(Words)
        <3> DEFINE texts == [j \in 1 .. k - 1 |->
                                IF j > before(k) /\ isInline(j) THEN text[kids[j]] ELSE <<>>]
        <3>1. pending(k) = FlattenSeq(texts)
            OBVIOUS
        <3>2. k - 1 \in Nat /\ \A j \in 1 .. k - 1 : j \in 1 .. m
            BY <1>1
        <3> DEFINE c == k - 1
        <3> HIDE DEF before, isInline, m
        <3>3. \A j \in 1 .. c : texts[j] = <<>> \/ texts[j] \in Seq(Words)
            BY <1>2, <3>2
        <3>4. texts = [j \in 1 .. c |-> texts[j]]
            OBVIOUS
        <3>5. c \in Nat
            BY <3>2
        <3> HIDE DEF texts, c, pending
        <3>6. FlattenSeq(texts) \in Seq(Words)
            BY <1>7, <3>3, <3>4, <3>5
        <3> QED
            BY <3>1, <3>6
    <2> HIDE DEF pending, breaks
    <2>3. ASSUME NEW k \in 1 .. m PROVE AreCalls(parts[k], Letters, last)
        <3>1. AreCalls(Flush(pending(k), n), Letters, last)
            <4>1. k \in 1 .. m + 1
                BY <1>1
            <4> QED
                BY <1>6, <2>2, <4>1
        <3>2. AreCalls(Flush(pending(k), n) \o ofKids[k], Letters, last)
            BY <1>1, <3>1, CallsJoined
        <3> QED
            BY <1>1, <3>2, NoCalls
    <2>4. parts = [k \in 1 .. m |-> parts[k]]
        BY <1>1
    <2> HIDE DEF parts
    <2>5. AreCalls(FlattenSeq(parts), Letters, last)
        BY <1>1, <2>3, <2>4, CallsFlattened
    <2>6. AreCalls(Flush(pending(m + 1), n), Letters, last)
        <3>1. m + 1 \in 1 .. m + 1
            BY <1>1
        <3> QED
            BY <1>6, <2>2, <3>1
    <2> QED
        BY <2>1, <2>5, <2>6, CallsJoined
<1> DEFINE tag == nodes[n].tag
           texts == [k \in DOMAIN kids |-> text[kids[k]]]
           all == FlattenSeq(texts)
           owns == [k \in DOMAIN kids |->
                      IF IsBlockChild(nodes[kids[k]]) THEN <<>> ELSE text[kids[k]]]
           own == FlattenSeq(owns)
           parts == [k \in DOMAIN kids |->
                        IF IsBlockChild(nodes[kids[k]]) THEN ofKids[k] ELSE <<>>]
           nested == FlattenSeq(parts)
<1>9. all \in Seq(Words)
    <2>1. texts = [k \in 1 .. m |-> texts[k]] /\ \A k \in 1 .. m : texts[k] \in Seq(Words)
        BY <1>1, <1>2
    <2> HIDE DEF texts
    <2> QED
        BY <1>1, <1>7, <2>1
<1>10. own \in Seq(Words)
    <2>1. /\ owns = [k \in 1 .. m |-> owns[k]]
          /\ \A k \in 1 .. m : owns[k] = <<>> \/ owns[k] \in Seq(Words)
        BY <1>1, <1>2
    <2> HIDE DEF owns
    <2> QED
        BY <1>1, <1>7, <2>1
<1>11. AreCalls(nested, Letters, last)
    <2>1. \A k \in 1 .. m : AreCalls(parts[k], Letters, last)
        BY <1>1, NoCalls
    <2>2. parts = [k \in 1 .. m |-> parts[k]]
        BY <1>1
    <2> HIDE DEF parts
    <2> QED
        BY <1>1, <2>1, <2>2, CallsFlattened
<1> HIDE DEF all, own, nested
<1>12. AreCalls((IF own = <<>> THEN <<>> ELSE <<Call("LIST_ITEM", 0, own, n)>>) \o nested,
                Letters, last)
    <2>1. AreCalls(IF own = <<>> THEN <<>> ELSE <<Call("LIST_ITEM", 0, own, n)>>, Letters, last)
        BY <1>3, <1>4, <1>5, <1>10, NoCalls
    <2> QED
        BY <1>11, <2>1, CallsJoined
<1>13. ASSUME tag \in DOMAIN HeadingTags
       PROVE  AreCalls(<<Call("HEADING", HeadingTags[tag], all, n)>>, Letters, last)
    <2> DEFINE level == HeadingTags[tag]
               call == Call("HEADING", level, all, n)
    <2>1. level \in Nat \ {0}
        BY <1>13 DEF HeadingTags
    <2> HIDE DEF level
    <2>2. /\ call.type = "HEADING" /\ call.level = level /\ call.text = all /\ call.at = n
        BY DEF Call
    <2>3. call.text \in Seq(Letters) /\ call.text \in Seq(Words \cup {Blank})
          /\ call.level \in Nat \ {0} /\ call.at \in 1 .. last /\ call.type \in BlockTypes
        BY <1>1, <1>3, <1>9, <2>1, <2>2 DEF BlockTypes
    <2> HIDE DEF call
    <2>4. IsCall(call, Letters, last)
        BY <2>3 DEF IsCall
    <2>5. AreCalls(<<call>>, Letters, last)
        BY <2>4, OneCall
    <2> QED
        BY <2>5 DEF call, level
<1>14. Texts(nodes, Words \cup {Blank})[n] \in Seq(Letters)
    <2>1. Texts(nodes, Words \cup {Blank})[n] \in Seq(Words \cup {Blank})
        BY TextsTyped
    <2> QED
        BY <2>1, SeqGrows DEF Letters
<1>15. HtmlTable(nodes, n) \in Seq(Letters)
    BY HtmlTableTyped
<1>16. Emit(nodes, n, text, ofKids) =
          CASE tag \in DOMAIN HeadingTags -> <<Call("HEADING", HeadingTags[tag], all, n)>>
            [] tag \in ParagraphTags -> <<Call("PARAGRAPH", 0, all, n)>>
            [] tag = "blockquote" -> <<Call("QUOTE", 0, all, n)>>
            [] tag = "pre" -> <<Call("CODE", 0, Texts(nodes, Words \cup {Blank})[n], n)>>
            [] tag = "li" ->
                   (IF own = <<>> THEN <<>> ELSE <<Call("LIST_ITEM", 0, own, n)>>) \o nested
            [] tag = "table" -> <<Call("TABLE", 0, HtmlTable(nodes, n), n)>>
            [] tag = "hr" -> <<>>
            [] OTHER -> Walk(nodes, n, text, ofKids)
    BY DEF Emit, all, own, nested
<1> HIDE DEF tag
<1>17. AreCalls(Emit(nodes, n, text, ofKids), Letters, last)
    <2>1. /\ AreCalls(<<Call("PARAGRAPH", 0, all, n)>>, Letters, last)
          /\ AreCalls(<<Call("QUOTE", 0, all, n)>>, Letters, last)
        BY <1>3, <1>4, <1>5, <1>9
    <2>2. /\ AreCalls(<<Call("CODE", 0, Texts(nodes, Words \cup {Blank})[n], n)>>, Letters, last)
          /\ AreCalls(<<Call("TABLE", 0, HtmlTable(nodes, n), n)>>, Letters, last)
        BY <1>4, <1>5, <1>14, <1>15
    <2>3. AreCalls(<<>>, Letters, last)
        BY NoCalls
    <2> QED
        BY <1>8, <1>12, <1>13, <1>16, <2>1, <2>2, <2>3
<1> QED
    BY <1>17 DEF text

\* The calls for a page are calls: _walk hands nothing else to the builder.
LEMMA PageCalls ==
    ASSUME NEW nodes, AreNodes(nodes), nodes # <<>>, NEW last \in Nat, Len(nodes) <= last
    PROVE  AreCalls(Calls(nodes), Letters, last)
<1>1. PICK emit :
          /\ Calls(nodes) = emit[1]
          /\ \A m \in DOMAIN nodes :
                emit[m] = Emit(nodes, m, Texts(nodes, Words), OfKids(emit, nodes, m))
    BY CallsGiven
<1> DEFINE T == {m \in DOMAIN nodes : AreCalls(emit[m], Letters, last)}
<1>2. ASSUME NEW m \in DOMAIN nodes, \A k \in DOMAIN nodes[m].kids : nodes[m].kids[k] \in T
      PROVE  m \in T
    <2> DEFINE ofKids == OfKids(emit, nodes, m)
    <2>1. \A k \in DOMAIN nodes[m].kids : AreCalls(ofKids[k], Letters, last)
        BY <1>2 DEF OfKids
    <2>2. emit[m] = Emit(nodes, m, Texts(nodes, Words), ofKids)
        BY <1>1
    <2> HIDE DEF ofKids
    <2>3. AreCalls(Emit(nodes, m, Texts(nodes, Words), ofKids), Letters, last)
        BY <2>1, EmitsCalls
    <2> QED
        BY <2>2, <2>3
<1> HIDE DEF T
<1>3. DOMAIN nodes \subseteq T
    BY <1>2, FromTheLeaves
<1>4. 1 \in DOMAIN nodes
    BY LenProperties, EmptySeq DEF AreNodes
<1> QED
    BY <1>1, <1>3, <1>4 DEF T

-----------------------------------------------------------------------------
(* The sheets of a workbook.                                                *)

\* The calls for a sheet.
LEMMA SheetCallsAreCalls ==
    ASSUME NEW sheet \in Sheets, NEW last
    PROVE  AreCalls(SheetCalls(sheet), Letters, last)
<1> DEFINE cells == CellsOf(sheet)
           headers == HeaderRows(sheet, cells)
           parts == [n \in 1 .. MaxMatrixRows |->
                        IF n \in DataRows(sheet, cells, Min(headers))
                        THEN <<RowCall(sheet, cells, Min(headers), n)>> ELSE <<>>]
<1>1. SheetCalls(sheet) = IF headers = {} THEN <<>> ELSE FlattenSeq(parts)
    BY DEF SheetCalls
<1>2. CASE headers = {}
    BY <1>1, <1>2, NoCalls
<1>3. CASE headers # {}
    <2> DEFINE header == Min(headers)
               columns == HeaderColumns(cells, header)
               c == Cardinality(columns)
    <2>1. c \in Nat
        BY <1>3, HeaderFound
    <2>2. \A place : TextAt(cells, place) \in Letters
        <3>1. \A place \in DOMAIN cells : cells[place] \in XlsxCells
            BY CellsOfTyped
        <3> HIDE DEF cells
        <3>2. \A place \in DOMAIN cells : cells[place].text \in Letters
            BY <3>1 DEF XlsxCells, Letters
        <3> QED
            BY <3>2 DEF TextAt, Letters
    <2> HIDE DEF cells, headers, header
    <2>3. ASSUME NEW n PROVE AreCalls(<<RowCall(sheet, cells, header, n)>>, Letters, last)
        <3> DEFINE first == RowTexts(cells, header, columns)
                   own == RowTexts(cells, n, columns)
                   values == [k \in 1 .. c |-> IF own[k] = Blank THEN EmptyCell ELSE own[k]]
                   text == first \o values
                   at == [sheet |-> sheet.name, row |-> n]
        <3>1. RowCall(sheet, cells, header, n) = Call("TABLE", 0, text, at)
            BY DEF RowCall
        <3>2. \A row : /\ RowTexts(cells, row, columns) =
                              [k \in 1 .. c |-> RowTexts(cells, row, columns)[k]]
                       /\ \A k \in 1 .. c : RowTexts(cells, row, columns)[k] \in Letters
            BY <2>2 DEF RowTexts
        <3> HIDE DEF columns, c
        <3>3. \A k \in 1 .. c : values[k] \in Letters
            BY <3>2 DEF Letters
        <3>4. values = [k \in 1 .. c |-> values[k]]
            OBVIOUS
        <3> HIDE DEF values
        <3>5. values \in Seq(Letters)
            BY <2>1, <3>3, <3>4, FunctionIsSeq
        <3>6. first = [k \in 1 .. c |-> first[k]] /\ \A k \in 1 .. c : first[k] \in Letters
            BY <3>2
        <3> HIDE DEF first
        <3>7. first \in Seq(Letters)
            BY <2>1, <3>6, FunctionIsSeq
        <3>8. text \in Seq(Letters)
            BY <3>5, <3>7, ConcatProperties
        <3>9. "TABLE" \in BlockTypes \ {"HEADING"}
            BY DEF BlockTypes
        <3> HIDE DEF text, at
        <3>10. AreCalls(<<Call("TABLE", 0, text, at)>>, Letters, last)
            BY <3>8, <3>9, OtherCall
        <3> QED
            BY <3>1, <3>10
    <2>4. ASSUME NEW n \in 1 .. MaxMatrixRows PROVE AreCalls(parts[n], Letters, last)
        BY <2>3, NoCalls DEF header
    <2>5. parts = [n \in 1 .. MaxMatrixRows |-> parts[n]]
        OBVIOUS
    <2> HIDE DEF parts
    <2>6. AreCalls(FlattenSeq(parts), Letters, last)
        BY <2>4, <2>5, CallsFlattened, XlsxAssumption
    <2> QED
        BY <1>1, <1>3, <2>6
<1> QED
    BY <1>2, <1>3

-----------------------------------------------------------------------------
(* Calls that become blocks as they are.                                    *)

LEMMA CallsBecomeBlocks ==
    ASSUME NEW L, IsAlphabet(L), NEW last, NEW b, IsTyped(b, L, last),
           NEW calls, AreCalls(calls, L, last), \A k \in DOMAIN calls : IsClean(calls[k])
    PROVE  Become(b.blocks, AddCalls(b, calls).blocks, calls, Len(calls))
<1> DEFINE n == Len(calls)
           old == b.blocks
<1>1. PICK S : calls \in Seq(S) /\ \A call \in S : IsCall(call, L, last)
    BY DEF AreCalls
<1>2. PICK step : AreSteps(step, b, calls)
    BY <1>1, CallSteps
<1>3. n \in Nat /\ DOMAIN calls = 1 .. n /\ \A k \in 1 .. n : calls[k] \in S
    BY <1>1, LenProperties, ElementOfSeq
<1>4. step[0] = b /\ (\A k \in 0 .. n - 1 : step[k + 1] = AddCall(step[k], calls[k + 1]))
      /\ step[n] = AddCalls(b, calls)
    BY <1>2 DEF AreSteps
<1>5. \A c : IsTyped(c, L, last) => \E B : c.blocks \in Seq(B)
    BY DEF IsTyped, Builders
<1>6. Len(old) \in Nat
    BY <1>5, LenProperties
<1> HIDE DEF n, old
<1> DEFINE T == {k \in 0 .. n : /\ IsTyped(step[k], L, last)
                                /\ Become(old, step[k].blocks, calls, k)}
<1>7. 0 \in T
    <2>1. Become(old, step[0].blocks, calls, 0)
        BY <1>4, <1>6 DEF Become, old
    <2> QED
        BY <1>3, <1>4, <2>1
<1>8. ASSUME NEW k \in 0 .. n - 1, k \in T PROVE k + 1 \in T
    <2> DEFINE call == calls[k + 1]
               now == step[k]
               next == AddCall(now, call)
               before == now.blocks
               after == next.blocks
    <2>1. /\ k + 1 \in 1 .. n /\ k + 1 \in 0 .. n /\ k \in Nat /\ k + 1 \in DOMAIN calls
          /\ calls[k + 1] \in S /\ step[k + 1] = next
        BY <1>3, <1>4
    <2>2. IsCall(call, L, last) /\ IsClean(call) /\ IsTyped(now, L, last)
        BY <1>1, <1>8, <2>1
    <2>3. Become(old, before, calls, k)
        BY <1>8
    <2> HIDE DEF call, now
    <2>4. /\ IsTyped(next, L, last)
          /\ Normalize(call.text) # <<>> =>
                  \E block : /\ next.blocks = Append(now.blocks, block)
                             /\ block.type = call.type
                             /\ block.text = Normalize(call.text)
                             /\ block.locator = call.at
        BY <2>2, CallAdded
    <2>5. PICK block : after = Append(before, block) /\ IsMade(block, call)
        BY <2>2, <2>4 DEF IsClean, IsMade
    <2>6. PICK B : before \in Seq(B)
        BY <1>5, <2>2
    <2> HIDE DEF before, after, next
    <2>7. before \in Seq(B \cup {block})
        BY <2>6, SeqGrows
    <2>8. /\ Len(after) = Len(before) + 1 /\ after[Len(before) + 1] = block
          /\ \A i \in 1 .. Len(before) : after[i] = before[i]
        BY <2>5, <2>7, AppendProperties
    <2>9. Len(before) = Len(old) + k
        BY <2>3 DEF Become
    <2>10. Become(old, after, calls, k + 1)
        <3>1. Len(after) = Len(old) + (k + 1)
            BY <1>6, <2>1, <2>8, <2>9
        <3>2. \A i \in 1 .. Len(old) : after[i] = old[i]
            <4>1. \A i \in 1 .. Len(old) : i \in 1 .. Len(before)
                BY <1>6, <2>1, <2>9
            <4> QED
                BY <2>3, <2>8, <4>1 DEF Become
        <3>3. ASSUME NEW i \in 1 .. k + 1 PROVE IsMade(after[Len(old) + i], calls[i])
            <4>1. CASE i = k + 1
                <5>1. Len(old) + i = Len(before) + 1
                    BY <1>6, <2>1, <2>9, <4>1
                <5> QED
                    BY <2>5, <2>8, <4>1, <5>1 DEF call
            <4>2. CASE i # k + 1
                <5>1. i \in 1 .. k /\ Len(old) + i \in 1 .. Len(before)
                    BY <1>6, <2>1, <2>9, <4>2
                <5> QED
                    BY <2>3, <2>8, <5>1 DEF Become
            <4> QED
                BY <4>1, <4>2
        <3> QED
            BY <3>1, <3>2, <3>3 DEF Become
    <2> QED
        BY <2>1, <2>4, <2>10 DEF after, next
<1> HIDE DEF T
<1>9. 0 .. n \subseteq T
    BY <1>3, <1>7, <1>8, Upwards
<1>10. n \in T
    BY <1>3, <1>9
<1> QED
    BY <1>4, <1>10 DEF T, n, old

\* The calls for a page say all of its lines, each at its page, and are headings
\* for the lines in a heading size.
LEMMA PdfCallsMade ==
    ASSUME NEW pages \in PdfPages, NEW p \in DOMAIN pages, NEW last
    PROVE  LET calls == PdfPageCalls(pages, p)
           IN  /\ AreCalls(calls, Words, last)
               /\ \A k \in DOMAIN calls : IsClean(calls[k]) /\ calls[k].at.page = p
               /\ Spoken(calls) = LineWords(pages[p].lines)
               /\ Headings(calls) = LargeWords(pages[p].lines, PdfSizes(pages))
<1> DEFINE sizes == PdfSizes(pages)
           lines == pages[p].lines
           blocks == PdfBlocks(pages, p)
           calls == PdfPageCalls(pages, p)
<1>1. lines \in Seq(PdfLines) /\ IsFiniteSet(sizes) /\ blocks = LogicalBlocks(lines, sizes)
    BY PagesTyped, SizesFinite DEF PdfSizes, PdfBlocks
<1>2. calls = [b \in DOMAIN blocks |-> PdfCall(blocks[b], sizes, [page |-> p, block |-> b])]
    BY DEF PdfPageCalls
<1> HIDE DEF lines, sizes, blocks, calls
<1>3. PICK B : /\ blocks \in Seq(B)
               /\ \A block \in B : IsPageBlock(block, lines, sizes)
               /\ Spoken(blocks) = LineWords(lines)
    BY <1>1, PageBlocks
<1> DEFINE n == Len(blocks)
<1>4. n \in Nat /\ DOMAIN blocks = 1 .. n /\ \A b \in 1 .. n : blocks[b] \in B
    BY <1>3, LenProperties, ElementOfSeq
<1> HIDE DEF n
<1>5. \A b \in 1 .. n : /\ blocks[b].text \in Seq(Words) \ {<<>>}
                        /\ Normalize(blocks[b].text) = blocks[b].text
    <2>1. \A b \in 1 .. n : blocks[b].text \in Seq(Words) \ {<<>>}
        BY <1>3, <1>4 DEF IsPageBlock
    <2> QED
        BY <2>1, WordsNormal
<1>6. DOMAIN calls = 1 .. n /\ calls = [b \in 1 .. n |-> calls[b]]
    BY <1>2, <1>4
<1>7. \A b \in 1 .. n :
          /\ calls[b].text = blocks[b].text /\ calls[b].at = [page |-> p, block |-> b]
          /\ Rounded(blocks[b].size) \in sizes =>
                /\ calls[b].type = "HEADING"
                /\ calls[b].level = 1 + Cardinality({s \in sizes : s > Rounded(blocks[b].size)})
          /\ Rounded(blocks[b].size) \notin sizes => calls[b].type = "PARAGRAPH"
    BY <1>2, <1>4 DEF PdfCall, Call
<1>9. \A b \in 1 .. n : /\ calls[b].text \in Seq(Words) /\ IsClean(calls[b])
                        /\ calls[b].at.page = p /\ Normalize(calls[b].text) # <<>>
    <2> SUFFICES ASSUME NEW b \in 1 .. n
                 PROVE  /\ calls[b].text \in Seq(Words) /\ IsClean(calls[b])
                        /\ calls[b].at.page = p /\ Normalize(calls[b].text) # <<>>
        OBVIOUS
    <2> DEFINE said == blocks[b].text
               call == calls[b]
    <2>1. said \in Seq(Words) /\ said # <<>> /\ Normalize(said) = said
        BY <1>5
    <2>2. call.text = said /\ call.at = [page |-> p, block |-> b]
        BY <1>7
    <2> HIDE DEF said, call
    <2>3. call.at.page = p
        BY <2>2
    <2>4. call.text \in Seq(Words) /\ Normalize(call.text) = call.text /\ call.text # <<>>
        BY <2>1, <2>2
    <2> QED
        BY <2>3, <2>4 DEF IsClean, call
<1>8. \A b \in 1 .. n : IsCall(calls[b], Words, last)
    <2> SUFFICES ASSUME NEW b \in 1 .. n PROVE IsCall(calls[b], Words, last)
        OBVIOUS
    <2> DEFINE call == calls[b]
               above == {s \in sizes : s > Rounded(blocks[b].size)}
    <2>1. call.text \in Seq(Words) /\ Normalize(call.text) # <<>>
        BY <1>9
    <2>2. Cardinality(above) \in Nat
        BY <1>1, FS_Subset, FS_CardinalityType
    <2> DEFINE count == Cardinality(above)
    <2>3. /\ Rounded(blocks[b].size) \in sizes => call.type = "HEADING" /\ call.level = 1 + count
          /\ Rounded(blocks[b].size) \notin sizes => call.type = "PARAGRAPH"
        BY <1>7
    <2>4. call.text \in Seq(Words \cup {Blank})
        BY <2>1, SeqGrows
    <2>5. count \in Nat
        BY <2>2
    <2> HIDE DEF call, count
    <2>6. call.type \in BlockTypes /\ (call.type = "HEADING" => call.level \in Nat \ {0})
        BY <2>3, <2>5 DEF BlockTypes
    <2> QED
        BY <2>1, <2>4, <2>6 DEF IsCall, call
<1>13. AreCalls(calls, Words, last)
    BY <1>4, <1>6, <1>8, CallsListed
<1>10. \A k \in DOMAIN calls : IsClean(calls[k]) /\ calls[k].at.page = p
    BY <1>6, <1>9
<1>11. Spoken(calls) = Spoken(blocks)
    BY <1>4, <1>6, <1>7 DEF Spoken
<1>12. Headings(calls) = LargeWords(lines, sizes)
    <2> DEFINE large == [b \in DOMAIN blocks |->
                            IF Rounded(blocks[b].size) \in sizes THEN blocks[b].text ELSE <<>>]
               heads == [k \in DOMAIN calls |-> HeadingOf(calls[k])]
    <2>1. FlattenSeq(large) = LargeWords(lines, sizes)
        BY <1>1, LargeBlocks
    <2>2. \A b \in 1 .. n : heads[b] = large[b]
        <3> SUFFICES ASSUME NEW b \in 1 .. n PROVE heads[b] = large[b]
            OBVIOUS
        <3>1. CASE Rounded(blocks[b].size) \in sizes
            BY <1>4, <1>6, <1>7, <3>1 DEF HeadingOf, IsHeading
        <3>2. CASE Rounded(blocks[b].size) \notin sizes
            BY <1>4, <1>6, <1>7, <3>2 DEF HeadingOf, IsHeading
        <3> QED
            BY <3>1, <3>2
    <2>3. heads = [b \in 1 .. n |-> heads[b]] /\ large = [b \in 1 .. n |-> large[b]]
        BY <1>4, <1>6
    <2>4. Headings(calls) = FlattenSeq(heads)
        BY DEF Headings
    <2> HIDE DEF large, heads
    <2>5. heads = large
        BY <2>2, <2>3
    <2> QED
        BY <2>1, <2>4, <2>5
<1> QED
    BY <1>3, <1>10, <1>11, <1>12, <1>13 DEF lines, sizes, calls

-----------------------------------------------------------------------------
(* What is known of a document while it is read.                            *)

\* What the texts of the format are made of.
Alphabet == IF Format = "pdf" THEN Words ELSE Letters

OutlineInv ==
    /\ outcome = "loading" => content \in Contents[Format]
    /\ index \in Nat \ {0}
    /\ WellBuilt(builder)
    /\ IsTyped(builder, Alphabet, index)
    /\ WellTree(tree) /\ Len(tree.nodes) <= index
    /\ outcome = "uploaded" \/ Refusals(upload) # {} =>
          /\ builder = Opened /\ content = NoContent
          /\ index = 1 /\ notices = {} /\ tree = NoTree

\* What every step does to the invariant and to the blocks.
OutlineKept == OutlineInv' /\ Continues(builder.blocks, builder'.blocks)

\* The loader hands these calls to the builder and goes on at next.
Reads(calls, next) ==
    /\ AreCalls(calls, Alphabet, next)
    /\ next \in Nat /\ next > index
    /\ Extract(AddCalls(builder, calls), next)

\* A builder is still one when more may be reported.
LEMMA TypedGrows ==
    ASSUME NEW b, NEW L, NEW last \in Nat, NEW next \in Nat, last <= next, IsTyped(b, L, last)
    PROVE  IsTyped(b, L, next)
<1>1. PICK B : b \in Builders(Words, B, 1 .. last) /\ \A block \in B : IsBlockOf(block, L)
    BY DEF IsTyped
<1>2. SUBSET (1 .. last) \subseteq SUBSET (1 .. next)
    OBVIOUS
<1>3. b \in Builders(Words, B, 1 .. next)
    BY <1>1, <1>2 DEF Builders
<1> QED
    BY <1>1, <1>3 DEF IsTyped

LEMMA AlphabetIsOne == IsAlphabet(Alphabet)
BY DEF IsAlphabet, Alphabet, Letters

\* What the blocks say is made of the alphabet.
LEMMA SpokenTyped ==
    ASSUME NEW b, NEW L, NEW last, IsTyped(b, L, last)
    PROVE  Spoken(b.blocks) \in Seq(L)
<1>1. PICK B : b \in Builders(Words, B, 1 .. last) /\ \A block \in B : IsBlockOf(block, L)
    BY DEF IsTyped
<1>2. b.blocks \in Seq(B) /\ Saying(B, L)
    BY <1>1 DEF Builders, Saying, IsBlockOf
<1> QED
    BY <1>2, SpokenJoined

LEMMA CallsSpoken ==
    ASSUME NEW calls, NEW L, NEW last, AreCalls(calls, L, last)
    PROVE  Spoken(calls) \in Seq(L)
<1>1. PICK S : calls \in Seq(S) /\ \A call \in S : IsCall(call, L, last)
    BY DEF AreCalls
<1>2. Saying(S, L)
    BY <1>1 DEF Saying, IsCall
<1> QED
    BY <1>1, <1>2, SpokenJoined

\* Reading keeps the invariant, and says what is read behind what was said.
LEMMA ReadKeeps ==
    ASSUME OutlineInv, VouchedInv, outcome = "loading",
           NEW calls, NEW next, Reads(calls, next),
           WellTree(tree'), Len(tree'.nodes) <= next
    PROVE  /\ OutlineKept
           /\ Inked(Spoken(builder'.blocks)) = Inked(Spoken(builder.blocks)) \o Inked(Spoken(calls))
<1> DEFINE more == AddCalls(builder, calls)
<1>1. /\ builder' = more /\ index' = next /\ upload' = upload /\ content' = content
      /\ outcome' = "loading" /\ Refusals(upload) = {} /\ next \in Nat /\ next > index
    BY DEF Reads, Extract, VouchedInv
<1>2. index \in Nat /\ index <= next
    BY <1>1 DEF OutlineInv
<1>3. IsTyped(builder, Alphabet, next)
    <2>1. IsTyped(builder, Alphabet, index)
        BY DEF OutlineInv
    <2> QED
        BY <1>1, <1>2, <2>1, TypedGrows
<1> DEFINE L == Alphabet
<1>4. IsAlphabet(L) /\ AreCalls(calls, L, next) /\ IsTyped(builder, L, next) /\ WellBuilt(builder)
    BY <1>3, AlphabetIsOne DEF Reads, OutlineInv
<1>5. Alphabet' = L
    BY <1>1 DEF Alphabet, Format
<1> HIDE DEF L
<1>6. /\ WellBuilt(more) /\ Continues(builder.blocks, more.blocks) /\ IsTyped(more, L, next)
      /\ Inked(Spoken(more.blocks)) = Inked(Spoken(builder.blocks)) \o Inked(Spoken(calls))
    BY <1>4, CallsAdded
<1> HIDE DEF more
<1>7. OutlineInv'
    <2>1. next \in Nat \ {0}
        BY <1>1, <1>2
    <2>2. Format' = Format /\ Refusals(upload)' = Refusals(upload)
        BY <1>1 DEF Format
    <2>3. WellBuilt(builder)' /\ IsTyped(builder, Alphabet, index)'
        BY <1>1, <1>5, <1>6
    <2>4. WellTree(tree)' /\ (Len(tree.nodes) <= index)'
        BY <1>1
    <2>5. (outcome = "loading" => content \in Contents[Format])'
        BY <1>1, <2>2 DEF OutlineInv
    <2>6. ~(outcome = "uploaded" \/ Refusals(upload) # {})'
        BY <1>1, <2>2
    <2> QED
        BY <1>1, <2>1, <2>3, <2>4, <2>5, <2>6 DEF OutlineInv
<1> QED
    BY <1>1, <1>6, <1>7 DEF OutlineKept

LEMMA NothingContinues == Continues(builder.blocks, builder.blocks)
BY DEF Continues, Begins

\* A refusal leaves all of it alone.
LEMMA RefuseKeeps ==
    ASSUME OutlineInv, VouchedInv, outcome = "loading",
           NEW reason, reason \notin {"uploaded", "loading"}, Refuse(reason), UNCHANGED tree
    PROVE  OutlineKept /\ builder' = builder /\ outcome' \notin {"uploaded", "loading"}
<1>1. /\ outcome' = reason /\ upload' = upload /\ content' = content /\ index' = index
      /\ builder' = builder /\ notices' = notices /\ tree' = tree
    BY DEF Refuse
<1>2. Alphabet' = Alphabet /\ Refusals(upload)' = Refusals(upload)
    BY <1>1 DEF Alphabet, Format
<1>3. OutlineInv'
    BY <1>1, <1>2 DEF OutlineInv
<1> QED
    BY <1>1, <1>3, NothingContinues DEF OutlineKept

-----------------------------------------------------------------------------
(* What each loader reads.                                                  *)

\* Where the loop over the lines goes on.
LEMMA UntilIsAhead ==
    ASSUME NEW n \in Nat, Len(content) = n, index \in 1 .. n,
           NEW stops, stops \subseteq 1 .. n
    PROVE  Until(stops) \in index + 1 .. n + 1
<1> DEFINE S == {n + 1} \cup {k \in stops : k > index}
           low == Min(S)
<1>1. n + 1 \in Nat /\ n + 1 > index /\ \A k \in stops : k \in Nat /\ k <= n
    OBVIOUS
<1>2. S \in SUBSET Nat /\ S # {} /\ \A k \in S : k > index
    BY <1>1
<1>3. n + 1 \in S
    OBVIOUS
<1> HIDE DEF S
<1>4. low \in S /\ low <= n + 1
    BY <1>2, <1>3, MinIsLeast
<1>5. Until(stops) = low
    BY DEF Until, S
<1> HIDE DEF low
<1>6. low \in Nat /\ low > index /\ low <= n + 1
    BY <1>2, <1>4
<1> QED
    BY <1>1, <1>5, <1>6

\* The words of the lines of a text.
TextBefore(i) == [k \in 1 .. i - 1 |-> content[k].word]

LEMMA TextsJoin ==
    ASSUME content \in Seq(Lines), NEW i \in 1 .. Len(content) + 1,
           NEW j \in i .. Len(content) + 1
    PROVE  /\ TextBefore(i) \in Seq(Words \cup {Blank})
           /\ Text(i, j - 1) \in Seq(Words \cup {Blank})
           /\ TextBefore(j) = TextBefore(i) \o Text(i, j - 1)
<1> DEFINE n == Len(content)
           all == [k \in 1 .. n |-> content[k].word]
           U == Words \cup {Blank}
           last == j - 1
           first == i - 1
<1>1. n \in Nat /\ i \in 1 .. n + 1 /\ j \in i .. n + 1 /\ \A k \in 1 .. n : content[k] \in Lines
    BY LenProperties, ElementOfSeq
<1>2. all = [k \in 1 .. n |-> all[k]] /\ \A k \in 1 .. n : all[k] = content[k].word
    OBVIOUS
<1>3. \A k \in 1 .. n : all[k] \in U
    BY <1>1, <1>2 DEF Lines
<1> HIDE DEF n, all, U
<1>4. all \in Seq(U) /\ Len(all) = n
    BY <1>1, <1>2, <1>3, FunctionIsSeq
<1>5. /\ i \in Nat /\ j \in Nat /\ last \in 0 .. n /\ first \in 0 .. last /\ first + 1 = i
      /\ first \in 0 .. n
    BY <1>1
<1>6. ASSUME NEW m \in 0 .. n, NEW s, s = [k \in 1 .. m |-> s[k]],
             \A k \in 1 .. m : s[k] = content[k].word
      PROVE  s = SubSeq(all, 1, m) /\ s \in Seq(U)
    <2>1. 1 \in 1 .. Len(all) + 1 /\ m \in 1 - 1 .. Len(all) /\ m - 1 + 1 = m
        BY <1>1, <1>4
    <2>2. \A k \in 1 .. m : s[k] = all[1 + k - 1]
        <3>1. \A k \in 1 .. m : k \in 1 .. n /\ 1 + k - 1 = k
            BY <1>1
        <3> QED
            BY <1>2, <1>6, <3>1
    <2>3. IsPart(s, all, 1, m)
        BY <1>6, <2>1, <2>2 DEF IsPart
    <2> QED
        BY <1>4, <2>1, <2>3, PartIsSubSeq
<1> DEFINE s == Text(i, last)
           front == TextBefore(i)
           more == TextBefore(j)
<1>7. s = SubSeq(all, i, last) /\ s \in Seq(U)
    <2> DEFINE count == last - i + 1
    <2>1. s = [k \in 1 .. count |-> s[k]]
          /\ \A k \in 1 .. count : s[k] = content[i + k - 1].word
        BY DEF Text
    <2>2. i \in 1 .. Len(all) + 1 /\ last \in i - 1 .. Len(all)
        BY <1>1, <1>4, <1>5
    <2>3. \A k \in 1 .. count : i + k - 1 \in 1 .. n
        BY <1>1, <1>5
    <2> HIDE DEF s
    <2>4. \A k \in 1 .. count : s[k] = all[i + k - 1]
        BY <1>2, <2>1, <2>3
    <2>5. IsPart(s, all, i, last)
        BY <2>1, <2>4 DEF IsPart
    <2> HIDE DEF last
    <2> QED
        BY <1>4, <2>2, <2>5, PartIsSubSeq
<1>8. front = SubSeq(all, 1, first) /\ front \in Seq(U)
    <2>1. front = [k \in 1 .. first |-> front[k]]
          /\ \A k \in 1 .. first : front[k] = content[k].word
        BY DEF TextBefore
    <2> HIDE DEF front, first
    <2> QED
        BY <1>5, <1>6, <2>1
<1>9. more = SubSeq(all, 1, last)
    <2>1. more = [k \in 1 .. last |-> more[k]]
          /\ \A k \in 1 .. last : more[k] = content[k].word
        BY DEF TextBefore
    <2> HIDE DEF more, last
    <2> QED
        BY <1>5, <1>6, <2>1
<1> HIDE DEF first, last
<1>10. SubSeq(all, 1, first) \o SubSeq(all, first + 1, last) = SubSeq(all, 1, last)
    <2>1. first \in 1 - 1 .. Len(all) /\ last \in first .. Len(all) /\ 1 \in 1 .. Len(all) + 1
        BY <1>1, <1>4, <1>5
    <2> QED
        BY <1>4, <2>1, ConcatAdjacentSubSeq
<1> QED
    BY <1>5, <1>7, <1>8, <1>9, <1>10 DEF U, last

\* A loop over the lines takes some of them at a time, all of what they say.
TakesLines(calls, next) ==
    /\ Reads(calls, next)
    /\ content \in Seq(Lines)
    /\ index \in 1 .. Len(content) + 1
    /\ next \in index .. Len(content) + 1
    /\ Inked(Spoken(calls)) = Inked(Text(index, next - 1))

LEMMA MarkdownReads ==
    ASSUME OutlineInv, ReadMarkdown
    PROVE  \E calls, next : TakesLines(calls, next)
<1> DEFINE n == Len(content)
<1>1. /\ Loading({"md", "txt"}) /\ index <= Len(content)
      /\ content \in Contents[Format] /\ Format \in {"md", "txt"} /\ outcome = "loading"
    BY DEF OutlineInv, Loading, ReadMarkdown, SkipBlank, Code, Heading, Table, Quote, ListItem,
           Paragraph, At
<1>2. /\ content \in Seq(Lines)
      /\ \A k \in DOMAIN content : /\ content[k].kind = "heading" => content[k].level \in Nat \ {0}
                                   /\ content[k].kind = "blank" => content[k].word = Blank
    BY <1>1, MarkdownAssumption
<1>3. n \in Nat /\ DOMAIN content = 1 .. n /\ index \in 1 .. n /\ content[index] \in Lines
      /\ index \in 1 .. n + 1 /\ index + 1 \in index + 1 .. n + 1
    BY <1>1, <1>2, LenProperties, ElementOfSeq DEF OutlineInv
<1>4. Alphabet = Letters
    BY <1>1 DEF Alphabet
<1> HIDE DEF n
<1>5. ASSUME NEW next \in index + 1 .. n + 1
      PROVE  /\ Text(index, next - 1) \in Seq(Words \cup {Blank})
             /\ Text(index, next - 1) \in Seq(Letters)
             /\ next \in Nat /\ next > index /\ next \in index .. n + 1
    <2>1. next \in Nat /\ next > index /\ next \in index .. n + 1
        BY <1>3
    <2>2. Text(index, next - 1) \in Seq(Words \cup {Blank})
        BY <1>2, <1>3, <2>1, TextsJoin DEF n
    <2> QED
        BY <2>1, <2>2, SeqGrows DEF Letters
<1>6. ASSUME NEW call, NEW next \in index + 1 .. n + 1, IsCall(call, Letters, next),
             call.text = Text(index, next - 1), Extract(AddCall(builder, call), next)
      PROVE  \E calls, after : TakesLines(calls, after)
    <2> DEFINE calls == <<call>>
               text == Text(index, next - 1)
    <2>1. AddCalls(builder, calls) = AddCall(builder, call)
        BY FewCalls
    <2>2. AreCalls(calls, Letters, next)
        BY <1>6, OneCall
    <2>3. call.text \in Seq(Letters) /\ next \in Nat /\ next > index /\ next \in index .. n + 1
        BY <1>5, <1>6
    <2>4. Spoken(calls) = call.text
        BY <2>3, SpokenOne
    <2>5. Reads(calls, next)
        BY <1>4, <1>6, <2>1, <2>2, <2>3 DEF Reads
    <2>6. Inked(Spoken(calls)) = Inked(Text(index, next - 1))
        BY <1>6, <2>4
    <2>7. TakesLines(calls, next)
        BY <1>2, <1>3, <2>3, <2>5, <2>6 DEF TakesLines, n
    <2> QED
        BY <2>7
<1>7. ASSUME NEW type \in BlockTypes \ {"HEADING"}, NEW next \in index + 1 .. n + 1,
             Take(type, next)
      PROVE  \E calls, after : TakesLines(calls, after)
    <2> DEFINE text == Text(index, next - 1)
               call == Call(type, 0, text, index)
    <2>1. /\ call.type = type /\ call.text = text
          /\ AddCall(builder, call) = AddBlock(builder, type, text, index)
        BY DEF Call, AddCall
    <2>2. text \in Seq(Letters)
        BY <1>5
    <2>3. Extract(AddBlock(builder, type, text, index), next)
        BY <1>7 DEF Take
    <2> HIDE DEF text, call
    <2>4. IsCall(call, Letters, next)
        BY <1>7, <2>1, <2>2, SMTT(30) DEF IsCall
    <2> QED
        BY <1>6, <1>7, <2>1, <2>3, <2>4 DEF text
<1>8. ASSUME NEW stops, stops \subseteq DOMAIN content PROVE Until(stops) \in index + 1 .. n + 1
    BY <1>3, <1>8, UntilIsAhead, Zenon DEF n
<1>9. CASE SkipBlank
    <2> DEFINE next == index + 1
               none == <<>>
               text == Text(index, next - 1)
    <2>1. Extract(builder, next) /\ content[index].word = Blank
        BY <1>2, <1>3, <1>9 DEF SkipBlank, At
    <2>2. text = <<Blank>>
        <3>1. next - 1 = index /\ next - 1 - index + 1 = 1 /\ \A k \in 1 .. 1 : index + k - 1 = index
            BY <1>3
        <3>2. text = [k \in 1 .. 1 |-> Blank]
            BY <2>1, <3>1 DEF Text
        <3> QED
            BY <3>2
    <2>3. AddCalls(builder, none) = builder /\ AreCalls(none, Letters, next)
        BY FewCalls, NoCalls
    <2>4. Inked(Spoken(none)) = <<>>
        <3>1. [k \in DOMAIN none |-> none[k].text] = <<>>
            OBVIOUS
        <3>2. FlattenSeq(<<>>) = <<>>
            BY FlattenedFew, EmptySeq
        <3> QED
            BY <3>1, <3>2, InkedOfNothing DEF Spoken
    <2>5. Inked(text) = <<>>
        <3> HIDE DEF text
        <3>1. <<Blank>> \in Seq({Blank, EmptyCell})
            OBVIOUS
        <3> QED
            BY <2>2, <3>1, NothingInked
    <2>6. next \in Nat /\ next > index /\ next \in index .. n + 1
        BY <1>3
    <2> HIDE DEF next, none
    <2>7. Reads(none, next)
        BY <1>4, <2>1, <2>3, <2>6 DEF Reads
    <2>8. TakesLines(none, next)
        BY <1>2, <1>3, <2>4, <2>5, <2>6, <2>7 DEF TakesLines, n
    <2> QED
        BY <2>8
<1>10. CASE Code
    <2> DEFINE close == Until({k \in DOMAIN content :
                   content[k].kind = "fence" /\ content[k].word = content[index].word})
    <2>1. close \in index + 1 .. n + 1
        BY <1>8
    <2>2. Take("CODE", CodeEnd(close))
        BY <1>10 DEF Code
    <2> HIDE DEF close
    <2>3. CodeEnd(close) \in index + 1 .. n + 1
        BY <1>3, <2>1 DEF CodeEnd, n
    <2> QED
        BY <1>7, <2>2, <2>3 DEF BlockTypes
<1>11. CASE Heading
    <2> DEFINE next == index + 1
               word == content[index].word
               call == Call("HEADING", content[index].level, <<word>>, index)
    <2>1. content[index].level \in Nat \ {0}
        BY <1>2, <1>3, <1>11 DEF Heading, At
    <2>2. Text(index, next - 1) = <<word>>
        <3>1. next - 1 = index /\ next - 1 - index + 1 = 1 /\ \A k \in 1 .. 1 : index + k - 1 = index
            BY <1>3
        <3>2. Text(index, next - 1) = [k \in 1 .. 1 |-> word]
            BY <3>1 DEF Text
        <3> QED
            BY <3>2
    <2>3. /\ call.type = "HEADING" /\ call.text = <<word>> /\ call.at = index
          /\ call.level = content[index].level
          /\ Extract(AddCall(builder, call), next)
        BY <1>11 DEF Call, AddCall, Heading
    <2>4. next \in index + 1 .. n + 1 /\ index \in 1 .. next
        BY <1>3
    <2>5. <<word>> \in Seq(Words \cup {Blank}) /\ <<word>> \in Seq(Letters)
        BY <1>5, <2>2, <2>4
    <2> HIDE DEF next, call, word
    <2>6. IsCall(call, Letters, next)
        BY <2>1, <2>3, <2>4, <2>5 DEF IsCall, BlockTypes
    <2> QED
        BY <1>6, <2>2, <2>3, <2>4, <2>6
<1>12. CASE Table
    <2> DEFINE next == Until({k \in DOMAIN content : content[k].kind \notin Rows})
    <2>1. next \in index + 1 .. n + 1 /\ Take("TABLE", next)
        BY <1>8, <1>12 DEF Table
    <2> HIDE DEF next
    <2> QED
        BY <1>7, <2>1 DEF BlockTypes
<1>13. CASE Quote
    <2> DEFINE next == Until({k \in DOMAIN content : content[k].kind # "quote"})
    <2>1. next \in index + 1 .. n + 1 /\ Take("QUOTE", next)
        BY <1>8, <1>13 DEF Quote
    <2> HIDE DEF next
    <2> QED
        BY <1>7, <2>1 DEF BlockTypes
<1>14. CASE ListItem
    <2> DEFINE next == Until({k \in DOMAIN content :
                           \/ content[k].kind \in {"blank", "item", "heading"}
                           \/ ~content[k].indented})
    <2>1. next \in index + 1 .. n + 1 /\ Take("LIST_ITEM", next)
        BY <1>8, <1>14 DEF ListItem
    <2> HIDE DEF next
    <2> QED
        BY <1>7, <2>1 DEF BlockTypes
<1>15. CASE Paragraph
    <2> DEFINE next == Until({k \in DOMAIN content :
                           content[k].kind \in
                               {"blank", "heading", "item", "fence", "quote"} \cup Rows})
    <2>1. next \in index + 1 .. n + 1 /\ Take("PARAGRAPH", next)
        BY <1>8, <1>15 DEF Paragraph
    <2> HIDE DEF next
    <2> QED
        BY <1>7, <2>1 DEF BlockTypes
<1> QED
    BY <1>9, <1>10, <1>11, <1>12, <1>13, <1>14, <1>15 DEF ReadMarkdown

\* The loader refuses the document.
Refused == \E reason : reason \notin {"uploaded", "loading"} /\ Refuse(reason)

LEMMA RefusedFor ==
    ASSUME NEW reason, reason \notin {"uploaded", "loading"}, Refuse(reason)
    PROVE  Refused
BY DEF Refused

LEMMA SpokenOfNothing == Spoken(<<>>) = <<>>
<1>1. [k \in DOMAIN <<>> |-> <<>>[k].text] = <<>>
    OBVIOUS
<1>2. FlattenSeq(<<>>) = <<>>
    BY FlattenedFew, EmptySeq
<1> QED
    BY <1>1, <1>2 DEF Spoken

\* To go on without a call is to read no call.
LEMMA NothingRead ==
    ASSUME OutlineInv, Extract(builder, index + 1)
    PROVE  Reads(<<>>, index + 1) /\ Inked(Spoken(<<>>)) = <<>>
<1>1. index + 1 \in Nat /\ index + 1 > index
    BY DEF OutlineInv
<1>2. AddCalls(builder, <<>>) = builder /\ AreCalls(<<>>, Alphabet, index + 1)
    BY FewCalls, NoCalls
<1> QED
    BY <1>1, <1>2, SpokenOfNothing, InkedOfNothing DEF Reads

\* One call.
LEMMA OneRead ==
    ASSUME OutlineInv, NEW call, IsCall(call, Alphabet, index + 1),
           Extract(AddCall(builder, call), index + 1)
    PROVE  Reads(<<call>>, index + 1) /\ Spoken(<<call>>) = call.text
<1>1. index + 1 \in Nat /\ index + 1 > index
    BY DEF OutlineInv
<1>2. AddCalls(builder, <<call>>) = AddCall(builder, call) /\ AreCalls(<<call>>, Alphabet, index + 1)
    BY FewCalls, OneCall
<1>3. call.text \in Seq(Alphabet)
    BY DEF IsCall
<1> QED
    BY <1>1, <1>2, <1>3, SpokenOne DEF Reads

\* An element of a body is refused or read with all it says.
TakesElement(calls) ==
    /\ Reads(calls, index + 1)
    /\ content.body \in Seq(Elements)
    /\ index \in 1 .. Len(content.body)
    /\ Inked(Spoken(calls)) = Inked(Said(content.body[index]))

LEMMA DocxReads ==
    ASSUME OutlineInv, ReadDocx
    PROVE  Refused \/ \E calls : TakesElement(calls)
<1> DEFINE element == content.body[index]
<1>1. outcome = "loading" /\ content \in Contents[Format] /\ Format = "docx"
    BY DEF OutlineInv, ReadDocx, DocxRefused, DocxParagraph, DocxTableElement, DocxSkip, AtElement,
           Loading
<1>2. content.body \in Seq(Elements) /\ Alphabet = Letters
    BY <1>1, DocxAssumption, Zenon DEF Alphabet
<1>3. ASSUME NEW tags, AtElement(tags)
      PROVE  index \in 1 .. Len(content.body) /\ element \in Elements /\ element.tag \in tags
             /\ index \in 1 .. index + 1
    <2>1. index \in Nat \ {0} /\ index <= Len(content.body) /\ Len(content.body) \in Nat
        BY <1>2, <1>3, LenProperties DEF AtElement, OutlineInv
    <2>2. index \in 1 .. Len(content.body)
        BY <2>1
    <2>3. element \in Elements
        BY <1>2, <2>2, ElementOfSeq
    <2>4. index \in 1 .. index + 1
        BY <2>1
    <2> QED
        BY <1>3, <2>2, <2>3, <2>4 DEF AtElement
<1>4. ASSUME NEW tags, AtElement(tags), Inked(Said(element)) = <<>>, Extract(builder, index + 1)
      PROVE  \E calls : TakesElement(calls)
    <2>1. Reads(<<>>, index + 1) /\ Inked(Spoken(<<>>)) = <<>>
        BY <1>4, NothingRead
    <2>2. TakesElement(<<>>)
        BY <1>2, <1>3, <1>4, <2>1 DEF TakesElement
    <2> QED
        BY <2>2
<1>5. ASSUME NEW tags, AtElement(tags), NEW call, IsCall(call, Letters, index + 1),
             Inked(call.text) = Inked(Said(element)), Extract(AddCall(builder, call), index + 1)
      PROVE  \E calls : TakesElement(calls)
    <2>1. Reads(<<call>>, index + 1) /\ Spoken(<<call>>) = call.text
        BY <1>2, <1>5, OneRead
    <2> DEFINE one == <<call>>
    <2>2. TakesElement(one)
        BY <1>2, <1>3, <1>5, <2>1 DEF TakesElement
    <2> QED
        BY <2>2
<1>6. ASSUME NEW tags, AtElement(tags), NEW type \in BlockTypes \ {"HEADING"},
             NEW text \in Seq(Letters), Inked(text) = Inked(Said(element)),
             Extract(AddBlock(builder, type, text, index), index + 1)
      PROVE  \E calls : TakesElement(calls)
    <2> DEFINE call == Call(type, 0, text, index)
    <2>1. /\ call.type = type /\ call.text = text
          /\ AddCall(builder, call) = AddBlock(builder, type, text, index)
        BY DEF Call, AddCall
    <2> HIDE DEF call
    <2>2. IsCall(call, Letters, index + 1)
        BY <1>6, <2>1 DEF IsCall
    <2> QED
        BY <1>5, <1>6, <2>1, <2>2
<1>7. CASE DocxRefused
    BY <1>7, RefusedFor DEF DocxRefused
<1>8. CASE DocxParagraph
    <2> DEFINE level == HeadingLevel(element)
               word == element.word
    <2>1. element \in Elements /\ element.tag = "p" /\ AtElement({"p"}) /\ index \in 1 .. index + 1
        BY <1>3, <1>8 DEF DocxParagraph
    <2>2. /\ element.style \in 0 .. 9 \cup {NotGiven}
          /\ element.outline \in 0 .. 9 \cup {NotGiven}
          /\ word \in Words \cup {Blank}
        <3>1. element \in [tag : {"p"}, word : Words \cup {Blank}, style : 0 .. 9 \cup {NotGiven},
                           outline : 0 .. 9 \cup {NotGiven}, numbered : BOOLEAN]
            BY <2>1 DEF Elements
        <3> HIDE DEF element
        <3> QED
            BY <3>1
    <2>3. level \in Nat
        <3> HIDE DEF element
        <3>1. CASE element.style # NotGiven
            <4>1. {element.style, 6} \in SUBSET Nat /\ {element.style, 6} # {}
                BY <2>2, <3>1 DEF NotGiven
            <4>2. Min({element.style, 6}) \in Nat
                BY <4>1, MinIsLeast
            <4> QED
                BY <3>1, <4>2 DEF HeadingLevel
        <3>2. CASE element.style = NotGiven
            BY <2>2, <3>2 DEF HeadingLevel, NotGiven
        <3> QED
            BY <3>1, <3>2
    <2>4. Said(element) = <<word>>
        BY <2>1 DEF Said
    <2> HIDE DEF level, word
    <2>5. <<word>> \in Seq(Words \cup {Blank}) /\ <<word>> \in Seq(Letters)
        <3>1. word \in Letters
            BY <2>2 DEF Letters
        <3> QED
            BY <2>2, <3>1
    <2>6. CASE word = Blank
        <3>1. <<Blank>> \in Seq({Blank, EmptyCell})
            OBVIOUS
        <3>2. Inked(Said(element)) = <<>>
            BY <2>4, <2>6, <3>1, NothingInked
        <3>3. Extract(builder, index + 1)
            BY <1>8, <2>6 DEF DocxParagraph, word
        <3> QED
            BY <1>4, <2>1, <3>2, <3>3
    <2>7. CASE word # Blank /\ level = 0
        <3>1. Refuse("GovernanceValidationError")
            BY <1>8, <2>7 DEF DocxParagraph, level, word
        <3> QED
            BY <3>1, RefusedFor
    <2>8. CASE word # Blank /\ level # 0 /\ level # NotGiven
        <3> DEFINE call == Call("HEADING", level, <<word>>, index)
        <3>1. /\ call.type = "HEADING" /\ call.text = <<word>> /\ call.at = index
              /\ call.level = level
              /\ AddCall(builder, call) = AddHeading(builder, level, <<word>>, index)
            BY DEF Call, AddCall
        <3>2. Extract(AddHeading(builder, level, <<word>>, index), index + 1)
            BY <1>8, <2>8 DEF DocxParagraph, level, word
        <3> HIDE DEF call
        <3>3. IsCall(call, Letters, index + 1)
            BY <2>1, <2>3, <2>5, <2>8, <3>1 DEF IsCall, BlockTypes
        <3> QED
            BY <1>5, <2>1, <2>4, <3>1, <3>2, <3>3
    <2>9. CASE word # Blank /\ level = NotGiven
        <3> DEFINE type == IF element.numbered THEN "LIST_ITEM" ELSE "PARAGRAPH"
                   text == <<word>>
        <3>1. type \in BlockTypes \ {"HEADING"}
            BY DEF BlockTypes
        <3>2. Extract(AddBlock(builder, type, text, index), index + 1)
            BY <1>8, <2>9 DEF DocxParagraph, level, word, NotGiven
        <3>3. text \in Seq(Letters) /\ Inked(text) = Inked(Said(element))
            BY <2>4, <2>5
        <3> HIDE DEF type, text
        <3> QED
            BY <1>6, <2>1, <3>1, <3>2, <3>3
    <2> QED
        BY <2>6, <2>7, <2>8, <2>9
<1>9. CASE DocxTableElement
    <2>1. element \in Elements /\ element.tag = "tbl" /\ AtElement({"tbl"})
        BY <1>3, <1>9 DEF DocxTableElement
    <2>2. element.rows \in Seq(Seq(Cells) \ {<<>>})
        <3>1. element \in [tag : {"tbl"}, rows : Seq(Seq(Cells) \ {<<>>})]
            BY <2>1 DEF Elements
        <3> HIDE DEF element
        <3> QED
            BY <3>1
    <2> DEFINE text == DocxTable(element.rows)
    <2>3. Said(element) = FlattenSeq([r \in DOMAIN element.rows |->
                [k \in DOMAIN element.rows[r] |-> CellText(element.rows[r][k])]])
        BY <2>1 DEF Said
    <2> DEFINE rows == element.rows
    <2>4. text \in Seq(Letters) /\ Inked(text) = Inked(Said(element))
        <3>1. rows \in Seq(Seq(Cells) \ {<<>>}) /\ text = DocxTable(rows)
              /\ Said(element) = FlattenSeq([r \in DOMAIN rows |->
                    [k \in DOMAIN rows[r] |-> CellText(rows[r][k])]])
            BY <2>2, <2>3
        <3> HIDE DEF rows, text, element
        <3> QED
            BY <3>1, DocxTableSays
    <2>5. Extract(AddBlock(builder, "TABLE", text, index), index + 1)
        BY <1>9 DEF DocxTableElement
    <2> HIDE DEF text
    <2> QED
        BY <1>6, <2>1, <2>4, <2>5 DEF BlockTypes
<1>10. CASE DocxSkip
    <2>1. element.tag = "other" /\ AtElement({"other"}) /\ Extract(builder, index + 1)
        BY <1>3, <1>10 DEF DocxSkip
    <2>2. Said(element) = <<>>
        BY <2>1 DEF Said
    <2> QED
        BY <1>4, <2>1, <2>2, InkedOfNothing
<1> QED
    BY <1>7, <1>8, <1>9, <1>10 DEF ReadDocx

\* A page of a PDF.
TakesPage ==
    /\ Reads(PdfPageCalls(content.pages, index), index + 1)
    /\ content.pages \in PdfPages /\ index \in DOMAIN content.pages
    /\ PdfRefusals(content) = {}
    /\ notices \subseteq notices'
    /\ content.pages[index].lines = <<>> => [about |-> "empty page", at |-> index] \in notices'

LEMMA PdfReads ==
    ASSUME OutlineInv, ReadPdf
    PROVE  Refused \/ TakesPage
<1>1. outcome = "loading" /\ content \in Contents[Format] /\ Format = "pdf"
    BY Zenon DEF OutlineInv, ReadPdf, PdfRefused, PdfPage, Loading
<1>2. content.pages \in PdfPages /\ Alphabet = Words
    BY <1>1, PdfAssumption DEF PdfPages, Alphabet
<1>3. CASE PdfRefused
    <2>1. outcome' \in LoadRefusals
        BY <1>3, ReadableHasText DEF PdfRefused, Refuse
    <2>2. PICK reason : Refuse(reason)
        BY <1>3 DEF PdfRefused
    <2>3. reason \notin {"uploaded", "loading"}
        BY <2>1, <2>2 DEF LoadRefusals, Refuse
    <2> QED
        BY <2>2, <2>3, RefusedFor
<1>4. CASE PdfPage
    <2> DEFINE calls == PdfPageCalls(content.pages, index)
    <2>1. index \in DOMAIN content.pages /\ index + 1 \in Nat /\ index + 1 > index
        <3>1. index \in Nat \ {0} /\ index <= Len(content.pages)
            BY <1>4, Zenon DEF PdfPage, OutlineInv
        <3>2. DOMAIN content.pages = 1 .. Len(content.pages) /\ Len(content.pages) \in Nat
            BY <1>2, PagesTyped
        <3> QED
            BY <3>1, <3>2
    <2>2. AreCalls(calls, Words, index + 1)
        BY <1>2, <2>1, PdfCallsMade
    <2>3. Extract(AddCalls(builder, calls), index + 1)
        BY <1>4, Zenon DEF PdfPage, PdfPageCalls, PdfBlocks, PdfSizes
    <2>4. PdfRefusals(content) = {} /\ notices \subseteq notices'
          /\ (content.pages[index].lines = <<>> =>
                 [about |-> "empty page", at |-> index] \in notices')
        BY <1>4, Zenon DEF PdfPage
    <2> HIDE DEF calls
    <2>5. Reads(calls, index + 1)
        BY <1>2, <2>1, <2>2, <2>3 DEF Reads
    <2> QED
        BY <1>2, <2>1, <2>4, <2>5, Zenon DEF TakesPage, calls
<1> QED
    BY <1>3, <1>4 DEF ReadPdf

\* A sheet of a workbook.
TakesSheet ==
    /\ Reads(SheetCalls(content.sheets[index]), index + 1)
    /\ content.sheets \in Seq(Sheets) /\ index \in 1 .. Len(content.sheets)
    /\ content \in Contents["xlsx"]
    /\ ~IsRefused(content.sheets[index])
    /\ notices' = notices \cup
           {[about |-> about, at |-> index] : about \in SheetNotices(content.sheets[index])}

LEMMA XlsxReads ==
    ASSUME OutlineInv, ReadXlsx
    PROVE  Refused \/ TakesSheet
<1>1. outcome = "loading" /\ content \in Contents[Format] /\ Format = "xlsx"
    BY DEF OutlineInv, ReadXlsx, XlsxRefused, XlsxSheet, Loading
<1>2. content.sheets \in Seq(Sheets) /\ Alphabet = Letters
    BY <1>1, XlsxAssumption DEF Alphabet
<1>3. CASE XlsxRefused
    BY <1>3, RefusedFor DEF XlsxRefused
<1>4. CASE XlsxSheet
    <2> DEFINE sheet == content.sheets[index]
    <2>1. CASE IsRefused(sheet)
        <3>1. Refuse("ExtractionError")
            BY <1>4, <2>1 DEF XlsxSheet
        <3> QED
            BY <3>1, RefusedFor
    <2>2. CASE ~IsRefused(sheet)
        <3>1. /\ Extract(AddCalls(builder, SheetCalls(sheet)), index + 1)
              /\ notices' = notices \cup
                     {[about |-> about, at |-> index] : about \in SheetNotices(sheet)}
            BY <1>4, <2>2 DEF XlsxSheet
        <3>2. index \in 1 .. Len(content.sheets) /\ index + 1 \in Nat /\ index + 1 > index
            BY <1>2, <1>4, LenProperties DEF XlsxSheet, OutlineInv
        <3>3. sheet \in Sheets
            BY <1>2, <3>2, ElementOfSeq
        <3>4. AreCalls(SheetCalls(sheet), Letters, index + 1)
            BY <3>3, SheetCallsAreCalls
        <3> HIDE DEF sheet
        <3>5. Reads(SheetCalls(sheet), index + 1)
            BY <1>2, <3>1, <3>2, <3>4 DEF Reads
        <3> QED
            BY <1>1, <1>2, <2>2, <3>1, <3>2, <3>5 DEF TakesSheet, sheet
    <2> QED
        BY <2>1, <2>2
<1> QED
    BY <1>3, <1>4 DEF ReadXlsx

\* What html.parser reports is refused or put into the tree, and at the end the
\* tree is read.
TakesEvent(calls) ==
    /\ Reads(calls, index + 1)
    /\ WellTree(tree') /\ Len(tree'.nodes) <= index + 1

LEMMA HtmlReads ==
    ASSUME OutlineInv, ReadHtml
    PROVE  (Refused /\ UNCHANGED tree) \/ \E calls : TakesEvent(calls)
<1>1. outcome = "loading" /\ content \in Contents[Format] /\ Format = "html"
    BY DEF OutlineInv, ReadHtml, HtmlStart, HtmlEnd, HtmlData, HtmlFault, HtmlWalk, NextEvent,
           Loading
<1>2. content \in Seq(Events) /\ Alphabet = Letters
    BY <1>1, HtmlAssumption DEF Alphabet
<1>3. ASSUME Refuse("ExtractionError"), UNCHANGED tree PROVE Refused /\ UNCHANGED tree
    BY <1>3, RefusedFor
<1>4. /\ WellTree(tree) /\ Len(tree.nodes) \in Nat /\ Len(tree.nodes) <= index
      /\ index \in Nat \ {0}
    BY LenProperties DEF OutlineInv, WellTree
<1>5. ASSUME NEW t, WellTree(t), Len(t.nodes) = Len(tree.nodes) \/ Len(t.nodes) = Len(tree.nodes) + 1,
             Parsed(t)
      PROVE  \E calls : TakesEvent(calls)
    <2>1. Reads(<<>>, index + 1)
        BY <1>5, NothingRead DEF Parsed
    <2>2. Len(t.nodes) <= index + 1
        BY <1>4, <1>5
    <2>3. TakesEvent(<<>>)
        BY <1>5, <2>1, <2>2 DEF TakesEvent, Parsed
    <2> QED
        BY <2>3
<1>6. ASSUME NEW kinds, NextEvent(kinds)
      PROVE  content[index] \in Events /\ content[index].do \in kinds
    <2>1. index \in 1 .. Len(content)
        BY <1>2, <1>4, <1>6, LenProperties DEF NextEvent
    <2> QED
        BY <1>2, <1>6, <2>1, ElementOfSeq DEF NextEvent
<1>7. CASE HtmlStart
    <2> DEFINE event == content[index]
               started == StartTag(tree, event)
    <2>1. event \in Events /\ event.do \in {"start", "startend"}
        BY <1>6, <1>7 DEF HtmlStart
    <2>2. event.tag \in STRING /\ event.across \in Nat /\ event.down \in Nat
        <3>1. event \notin [do : {"data"}, word : Words \cup {Blank}]
            BY <2>1
        <3>2. event \notin [do : {"fault"}]
            BY <2>1
        <3>3. event \in [do : {"start", "end", "startend"}, tag : STRING \ {"#text"},
                       across : Nat, down : Nat]
            BY <2>1, <3>1, <3>2 DEF Events
        <3> HIDE DEF event
        <3> QED
            BY <3>3
    <2>3. WellTree(started) /\ Len(started.nodes) = Len(tree.nodes) + 1
        BY <1>4, <2>2, StartTagKept
    <2>4. WellTree(EndTag(started, event.tag))
          /\ Len(EndTag(started, event.tag).nodes) = Len(tree.nodes) + 1
        BY <2>3, EndTagKept
    <2>5. CASE Unclosed(tree, event.tag) > MaxDomDepth
        BY <1>3, <1>7, <2>5 DEF HtmlStart
    <2>6. CASE ~(Unclosed(tree, event.tag) > MaxDomDepth)
        <3>1. Parsed(IF event.do = "startend" /\ event.tag \notin VoidTags
                     THEN EndTag(started, event.tag) ELSE started)
            BY <1>7, <2>6 DEF HtmlStart
        <3> QED
            BY <1>5, <2>3, <2>4, <3>1
    <2> QED
        BY <2>5, <2>6
<1>8. CASE HtmlEnd
    BY <1>4, <1>5, <1>8, EndTagKept DEF HtmlEnd
<1>9. CASE HtmlData
    <2> DEFINE node == [Root EXCEPT !.tag = "#text", !.word = content[index].word]
    <2>1. content[index].word \in Words \cup {Blank}
        <3>1. content[index] \in Events /\ content[index].do = "data"
            BY <1>6, <1>9 DEF HtmlData
        <3>2. content[index] \in [do : {"data"}, word : Words \cup {Blank}]
            BY <3>1 DEF Events
        <3> QED
            BY <3>2
    <2>2. node \in HtmlNodes /\ node.kids = <<>>
        BY <2>1, EmptySeq DEF Root, HtmlNodes
    <2> HIDE DEF node
    <2>3. WellTree(WithNode(tree, node)) /\ Len(WithNode(tree, node).nodes) = Len(tree.nodes) + 1
        BY <1>4, <2>2, NodeAdded
    <2> QED
        BY <1>5, <1>9, <2>3 DEF HtmlData, node
<1>10. CASE HtmlFault
    BY <1>3, <1>10 DEF HtmlFault
<1>11. CASE HtmlWalk
    <2>1. AreNodes(tree.nodes) /\ tree.nodes # <<>>
        <3>1. /\ AreNodes(tree.nodes) /\ tree.open \in Seq(Nat) /\ tree.open # <<>>
              /\ \A k \in DOMAIN tree.open : tree.open[k] \in DOMAIN tree.nodes
            BY <1>4 DEF WellTree
        <3>2. 1 \in DOMAIN tree.open
            BY <3>1, LenProperties, EmptySeq
        <3>3. tree.nodes # <<>>
            BY <3>1, <3>2
        <3> QED
            BY <3>1, <3>3
    <2> DEFINE calls == Calls(tree.nodes)
    <2>2. index + 1 \in Nat /\ index + 1 > index /\ Len(tree.nodes) <= index + 1
        BY <1>4
    <2>3. AreCalls(calls, Letters, index + 1)
        BY <2>1, <2>2, PageCalls
    <2>4. Extract(AddCalls(builder, calls), index + 1) /\ tree' = tree
        BY <1>11 DEF HtmlWalk
    <2> HIDE DEF calls
    <2>5. TakesEvent(calls)
        BY <1>2, <1>4, <2>2, <2>3, <2>4 DEF TakesEvent, Reads
    <2> QED
        BY <2>5
<1> QED
    BY <1>7, <1>8, <1>9, <1>10, <1>11 DEF ReadHtml

LEMMA OutlineStep == VouchedInv /\ OutlineInv /\ [Next]_vars => OutlineKept
<1> SUFFICES ASSUME VouchedInv, OutlineInv, [Next]_vars PROVE OutlineKept
    OBVIOUS
<1>1. ASSUME outcome = "loading", Refused, UNCHANGED tree PROVE OutlineKept
    BY <1>1, RefuseKeeps DEF Refused
<1>2. ASSUME outcome = "loading", NEW calls, NEW next, Reads(calls, next), UNCHANGED tree
      PROVE  OutlineKept
    <2>1. WellTree(tree') /\ Len(tree'.nodes) <= next
        <3>1. next \in Nat /\ next > index /\ index \in Nat /\ WellTree(tree)
              /\ Len(tree.nodes) <= index /\ Len(tree.nodes) \in Nat
            BY <1>2, LenProperties DEF Reads, OutlineInv, WellTree
        <3> QED
            BY <1>2, <3>1
    <2> QED
        BY <1>2, <2>1, ReadKeeps
<1>3. CASE Validate
    <2>1. /\ outcome = "uploaded" /\ builder' = builder /\ tree' = tree /\ index' = index
          /\ upload' = upload /\ notices' = notices
        BY <1>3 DEF Validate
    <2>2. /\ Refusals(upload)' = Refusals(upload) /\ Alphabet' = Alphabet /\ Format' = Format
        BY <2>1 DEF Alphabet, Format
    <2>3. CASE Refusals(upload) = {}
        <3>1. content' \in Contents[Format] /\ outcome' = "loading"
            BY <1>3, <2>3 DEF Validate
        <3>2. OutlineInv'
            BY <2>1, <2>2, <2>3, <3>1 DEF OutlineInv
        <3> QED
            BY <2>1, <3>2, NothingContinues DEF OutlineKept
    <2>4. CASE Refusals(upload) # {}
        <3>1. outcome' \in UploadRefusals /\ content' = content
            BY <1>3, <2>4, ChecksTyped, FirstRefusalIsOne DEF Validate, VouchedInv, Refusals
        <3>2. outcome' # "loading"
            BY <3>1 DEF UploadRefusals
        <3>3. OutlineInv'
            BY <2>1, <2>2, <2>4, <3>1, <3>2 DEF OutlineInv
        <3> QED
            BY <2>1, <3>3, NothingContinues DEF OutlineKept
    <2> QED
        BY <2>3, <2>4
<1>4. CASE ReadMarkdown /\ UNCHANGED tree
    <2>1. outcome = "loading"
        BY <1>4 DEF ReadMarkdown, SkipBlank, Code, Heading, Table, Quote, ListItem, Paragraph, At,
                    Loading
    <2> QED
        BY <1>2, <1>4, <2>1, MarkdownReads DEF TakesLines
<1>5. CASE ReadDocx /\ UNCHANGED tree
    <2>1. outcome = "loading"
        BY <1>5 DEF ReadDocx, DocxRefused, DocxParagraph, DocxTableElement, DocxSkip, AtElement,
                    Loading
    <2> QED
        BY <1>1, <1>2, <1>5, <2>1, DocxReads DEF TakesElement
<1>6. CASE ReadPdf /\ UNCHANGED tree
    <2>1. outcome = "loading"
        BY <1>6, Zenon DEF ReadPdf, PdfRefused, PdfPage, Loading
    <2> QED
        BY <1>1, <1>2, <1>6, <2>1, PdfReads, Zenon DEF TakesPage
<1>7. CASE ReadXlsx /\ UNCHANGED tree
    <2>1. outcome = "loading"
        BY <1>7 DEF ReadXlsx, XlsxRefused, XlsxSheet, Loading
    <2> QED
        BY <1>1, <1>2, <1>7, <2>1, XlsxReads DEF TakesSheet
<1>8. CASE ReadHtml
    <2>1. outcome = "loading"
        BY <1>8 DEF ReadHtml, HtmlStart, HtmlEnd, HtmlData, HtmlFault, HtmlWalk, NextEvent, Loading
    <2>2. ASSUME NEW calls, TakesEvent(calls) PROVE OutlineKept
        BY <2>1, <2>2, ReadKeeps DEF TakesEvent
    <2> QED
        BY <1>1, <1>8, <2>1, <2>2, HtmlReads
<1>9. CASE Finish
    <2>1. /\ outcome = "loading" /\ outcome' # "loading" /\ outcome' # "uploaded"
          /\ builder' = builder /\ tree' = tree /\ index' = index
          /\ upload' = upload /\ content' = content
        BY <1>9 DEF Finish
    <2>2. /\ Refusals(upload)' = Refusals(upload) /\ Alphabet' = Alphabet /\ Refusals(upload) = {}
        BY <2>1 DEF Alphabet, Format, VouchedInv
    <2>3. OutlineInv'
        BY <2>1, <2>2 DEF OutlineInv
    <2> QED
        BY <2>1, <2>3, NothingContinues DEF OutlineKept
<1>10. CASE UNCHANGED vars
    <2>1. /\ outcome' = outcome /\ content' = content /\ notices' = notices
          /\ builder' = builder /\ tree' = tree /\ index' = index /\ upload' = upload
        BY <1>10 DEF vars, loaderVars
    <2>2. /\ Refusals(upload)' = Refusals(upload) /\ Alphabet' = Alphabet /\ Format' = Format
        BY <2>1 DEF Alphabet, Format
    <2>3. OutlineInv'
        BY <2>1, <2>2 DEF OutlineInv
    <2> QED
        BY <2>1, <2>3, NothingContinues DEF OutlineKept
<1> QED
    BY <1>3, <1>4, <1>5, <1>6, <1>7, <1>8, <1>9, <1>10 DEF Next

LEMMA OutlineInit == Init => VouchedInv /\ OutlineInv
<1> SUFFICES ASSUME Init PROVE VouchedInv /\ OutlineInv
    OBVIOUS
<1>1. WellTree(tree) /\ Len(tree.nodes) <= index /\ index \in Nat \ {0}
    BY NoTreeIsWell DEF Init, NoTree
<1>2. WellBuilt(builder) /\ IsTyped(builder, Alphabet, index)
    BY OpenedIsWellBuilt, OpenedIsTyped DEF Init
<1> QED
    BY <1>1, <1>2, VouchedInit DEF Init, OutlineInv

\* An upload is never changed.
LEMMA UploadKept == [Next]_vars => upload' = upload
BY Zenon DEF Next, vars, loaderVars, Validate, Finish, ReadMarkdown, SkipBlank, Code, Heading, Table,
       Quote, ListItem, Paragraph, Take, ReadHtml, HtmlStart, HtmlEnd, HtmlData, HtmlFault,
       HtmlWalk, Parsed, ReadDocx, DocxRefused, DocxParagraph, DocxTableElement, DocxSkip, ReadPdf,
       PdfRefused, PdfPage, ReadXlsx, XlsxRefused, XlsxSheet, Extract, Refuse

LEMMA OutlineAlways == Spec => [](VouchedInv /\ OutlineInv)
<1>1. VouchedInv /\ OutlineInv /\ [Next]_vars => (VouchedInv /\ OutlineInv)'
    BY VouchedStep, OutlineStep DEF OutlineKept
<1> QED
    BY <1>1, OutlineInit, PTL DEF Spec

\* Of every upload and every content, whatever its size, the loaders make blocks
\* that CanonicalBlock accepts: with text in them, a level just for a heading and
\* a path of words; and nothing is extracted from an upload that is refused.
THEOREM LoadingTypeOK == Spec => []TypeOK
<1>1. VouchedInv /\ OutlineInv => TypeOK
    <2> SUFFICES ASSUME VouchedInv, OutlineInv PROVE TypeOK
        OBVIOUS
    <2>1. upload \in Uploads /\ index \in Nat
        BY DEF VouchedInv, OutlineInv
    <2>2. PICK B : builder \in Builders(Words, B, 1 .. index)
                   /\ \A block \in B : IsBlockOf(block, Alphabet)
        BY DEF OutlineInv, IsTyped
    <2>3. ASSUME NEW k \in DOMAIN builder.blocks PROVE IsBlock(builder.blocks[k])
        <3>1. builder.blocks \in Seq(B)
            BY <2>2 DEF Builders
        <3>2. builder.blocks[k] \in B
            BY <2>3, <3>1, ElementOfSeq, LenProperties
        <3> QED
            BY <2>2, <3>2 DEF IsBlockOf
    <2>4. builder.path \in Seq([level : Nat, word : Words]) /\ builder.warnings \subseteq 1 .. index
        <3>1. builder.path \in Seq(PathEntries(Words)) /\ builder.warnings \in SUBSET (1 .. index)
            BY <2>2 DEF Builders
        <3>2. PathEntries(Words) \subseteq [level : Nat, word : Words]
            BY DEF PathEntries
        <3> QED
            BY <3>1, <3>2, SeqGrows
    <2>5. Refusals(upload) # {} => builder = Opened /\ content = NoContent
        BY DEF OutlineInv
    <2> QED
        BY <2>1, <2>3, <2>4, <2>5 DEF TypeOK
<1> QED
    BY <1>1, OutlineAlways, PTL

\* In every document, of any format and size, whatever levels its headings skip
\* or take back, each block has the heading path of the outline.
THEOREM OutlineAlwaysFollowed == Spec => []HeadingPathsAreOutline
<1>1. OutlineInv => HeadingPathsAreOutline
    BY DEF OutlineInv, WellBuilt, HeadingPathsAreOutline
<1> QED
    BY <1>1, OutlineAlways, PTL

\* In every document, of any format and size, what is said from the first heading
\* on is in the sections, once and in order; of a workbook every row is.
THEOREM SectionsAlwaysHoldTheText == Spec => []SectionsHoldTheText
<1>1. OutlineInv => SectionsHoldTheText
    <2> SUFFICES ASSUME OutlineInv PROVE SectionsHoldTheText
        OBVIOUS
    <2> DEFINE blocks == builder.blocks
               starts == IF Loading({"xlsx"}) THEN <<1>> ELSE Starts(blocks)
               headed == IF starts = <<>> THEN <<>> ELSE SubSeq(blocks, starts[1], Len(blocks))
    <2>1. PICK B : blocks \in Seq(B) /\ \A block \in B : IsBlockOf(block, Alphabet)
        BY DEF OutlineInv, IsTyped, Builders
    <2>2. Saying(B, Letters) /\ Blank \in Letters
        BY <2>1 DEF Saying, IsBlockOf, IsBlock, Letters
    <2>3. CASE Loading({"xlsx"})
        <3>1. Len(blocks) \in Nat /\ DOMAIN blocks = 1 .. Len(blocks)
            BY <2>1, LenProperties
        <3>2. headed = blocks
            BY <2>1, <2>3, SubSeqFull
        <3>3. Sections = MatrixSections(blocks)
            BY <2>3 DEF Sections
        <3>4. /\ DOMAIN Sections = DOMAIN blocks
              /\ \A k \in DOMAIN blocks : Sections[k].content_hash = blocks[k].text
            BY <3>1, <3>3 DEF MatrixSections
        <3>5. [k \in DOMAIN Sections |-> Sections[k].content_hash] =
                  [k \in DOMAIN headed |-> headed[k].text]
            BY <3>2, <3>4
        <3> QED
            BY <3>5 DEF SectionsHoldTheText
    <2>4. CASE ~Loading({"xlsx"})
        <3>1. Sections = HeadingSections(blocks) /\ starts = Starts(blocks)
            BY <2>4 DEF Sections
        <3>2. Inked(FlattenSeq([k \in DOMAIN HeadingSections(blocks) |->
                        HeadingSections(blocks)[k].content_hash])) = Inked(Spoken(headed))
            <4> HIDE DEF blocks
            <4> QED
                BY <2>1, <2>2, <3>1, HeadedSectionsHold
        <3> QED
            BY <3>1, <3>2 DEF SectionsHoldTheText, Spoken
    <2> QED
        BY <2>3, <2>4
<1> QED
    BY <1>1, OutlineAlways, PTL

\* In one load of a Markdown or DOCX document of any size, what is read later
\* changes no address of a section, and no section but the last one.
THEOREM SectionsAlwaysStable == Spec => SectionsStable
<1> DEFINE Stable ==
               Loading({"md", "docx"}) =>
                   \A k \in DOMAIN Sections :
                       /\ Sections'[k].section = Sections[k].section
                       /\ k < Len(Sections) => Sections'[k] = Sections[k]
<1>1. VouchedInv /\ OutlineInv /\ [Next]_vars => Stable
    <2> SUFFICES ASSUME VouchedInv, OutlineInv, [Next]_vars, Loading({"md", "docx"}),
                        NEW k \in DOMAIN Sections
                 PROVE  /\ Sections'[k].section = Sections[k].section
                        /\ k < Len(Sections) => Sections'[k] = Sections[k]
        OBVIOUS
    <2>1. Sections = HeadingSections(builder.blocks)
        BY DEF Sections, Loading
    <2>2. upload' = upload
        BY UploadKept
    <2>3. Sections' = HeadingSections(builder'.blocks)
        BY <2>2 DEF Sections, Loading, Format
    <2>4. WellBuilt(builder) /\ WellBuilt(builder)' /\ Continues(builder.blocks, builder'.blocks)
        BY OutlineStep DEF OutlineInv, OutlineKept
    <2>5. \A b : WellBuilt(b) => \E B : b.blocks \in Seq(B)
        BY DEF WellBuilt, Builders
    <2>6. PICK B, C : builder.blocks \in Seq(B) /\ builder'.blocks \in Seq(C)
        BY <2>4, <2>5
    <2> QED
        BY <2>1, <2>3, <2>4, <2>6, SectionsContinue
<1> QED
    BY <1>1, OutlineAlways, PTL DEF Spec, SectionsStable

-----------------------------------------------------------------------------
(* What has become of the part that was read.                               *)

\* An upload is accepted, with any content of its format.
Accepted ==
    /\ builder' = Opened /\ index' = 1 /\ notices' = {} /\ tree' = NoTree
    /\ content' \in Contents[Format'] /\ outcome = "uploaded"

ReadsOn ==
    /\ Format \in {"md", "txt"} => \E calls, next : TakesLines(calls, next)
    /\ Format = "html" => ReadHtml /\ outcome' = "loading"
    /\ Format = "docx" => \E calls : TakesElement(calls)
    /\ Format = "pdf" => TakesPage
    /\ Format = "xlsx" => TakesSheet

Stays ==
    /\ builder' = builder /\ index' = index /\ notices' = notices /\ tree' = tree
    /\ content' = content /\ outcome = "loading"

\* How a step may leave a document that is being read.
LEMMA LoadingSteps ==
    ASSUME VouchedInv, OutlineInv, [Next]_vars, outcome' = "loading"
    PROVE  /\ upload' = upload /\ Format' = Format
           /\ \/ Accepted
              \/ Stays
              \/ outcome = "loading" /\ content' = content /\ ReadsOn
<1>1. upload' = upload /\ Format' = Format
    BY UploadKept DEF Format
<1>2. ~Refused
    BY DEF Refused, Refuse
<1>3. CASE Validate
    <2>1. outcome = "uploaded" /\ UNCHANGED <<upload, index, builder, notices, tree>>
        BY <1>3 DEF Validate
    <2>2. Refusals(upload) = {}
        <3>1. "loading" \notin UploadRefusals
            BY DEF UploadRefusals
        <3>2. Refusals(upload) \subseteq UploadRefusals
            BY ChecksTyped, FirstRefusalIsOne DEF VouchedInv, Refusals
        <3> QED
            BY <1>3, <3>1, <3>2 DEF Validate
    <2>3. content' \in Contents[Format]
        BY <1>3, <2>2 DEF Validate
    <2>4. builder = Opened /\ index = 1 /\ notices = {} /\ tree = NoTree
        BY <2>1 DEF OutlineInv
    <2> QED
        BY <1>1, <2>1, <2>3, <2>4 DEF Accepted
<1>4. ASSUME ReadMarkdown \/ ReadHtml \/ ReadDocx \/ ReadPdf \/ ReadXlsx
      PROVE  outcome = "loading" /\ content' = content /\ ReadsOn
    <2>1. outcome = "loading" /\ content' = content
        BY <1>4, ReadStep
    <2>2. CASE ReadMarkdown
        <3>1. Format \in {"md", "txt"}
            BY <2>2 DEF ReadMarkdown, SkipBlank, Code, Heading, Table, Quote, ListItem, Paragraph,
                        At, Loading
        <3> QED
            BY <2>1, <2>2, <3>1, MarkdownReads DEF ReadsOn
    <2>3. CASE ReadHtml
        <3>1. Format = "html"
            BY <2>3 DEF ReadHtml, HtmlStart, HtmlEnd, HtmlData, HtmlFault, HtmlWalk, NextEvent,
                        Loading
        <3> QED
            BY <2>1, <2>3, <3>1 DEF ReadsOn
    <2>4. CASE ReadDocx
        <3>1. Format = "docx"
            BY <2>4 DEF ReadDocx, DocxRefused, DocxParagraph, DocxTableElement, DocxSkip,
                        AtElement, Loading
        <3> QED
            BY <1>2, <2>1, <2>4, <3>1, DocxReads DEF ReadsOn
    <2>5. CASE ReadPdf
        <3>1. Format = "pdf"
            BY <2>5, Zenon DEF ReadPdf, PdfRefused, PdfPage, Loading
        <3> QED
            BY <1>2, <2>1, <2>5, <3>1, PdfReads DEF ReadsOn
    <2>6. CASE ReadXlsx
        <3>1. Format = "xlsx"
            BY <2>6 DEF ReadXlsx, XlsxRefused, XlsxSheet, Loading
        <3> QED
            BY <1>2, <2>1, <2>6, <3>1, XlsxReads DEF ReadsOn
    <2> QED
        BY <1>4, <2>2, <2>3, <2>4, <2>5, <2>6
<1>5. CASE Finish
    BY <1>5 DEF Finish
<1>6. CASE UNCHANGED vars
    <2>1. /\ builder' = builder /\ index' = index /\ notices' = notices /\ tree' = tree
          /\ content' = content /\ outcome' = outcome
        BY <1>6 DEF vars, loaderVars
    <2>2. Stays
        BY <2>1 DEF Stays
    <2> QED
        BY <1>1, <2>2
<1> QED
    BY <1>1, <1>3, <1>4, <1>5, <1>6 DEF Next

\* What the blocks say once the calls are added.
LEMMA CallsSay ==
    ASSUME OutlineInv, NEW calls, NEW next, Reads(calls, next)
    PROVE  Inked(Spoken(AddCalls(builder, calls).blocks)) =
               Inked(Spoken(builder.blocks)) \o Inked(Spoken(calls))
<1>1. IsAlphabet(Alphabet) /\ AreCalls(calls, Alphabet, next) /\ WellBuilt(builder)
    BY AlphabetIsOne DEF Reads, OutlineInv
<1>2. IsTyped(builder, Alphabet, next)
    <2>1. IsTyped(builder, Alphabet, index) /\ index \in Nat /\ next \in Nat /\ index <= next
        BY DEF OutlineInv, Reads
    <2> QED
        BY <2>1, TypedGrows
<1> DEFINE L == Alphabet
           extended == AddCalls(builder, calls)
<1>3. IsAlphabet(L) /\ AreCalls(calls, L, next) /\ IsTyped(builder, L, next) /\ WellBuilt(builder)
    BY <1>1, <1>2
<1> HIDE DEF L
<1>4. /\ WellBuilt(extended) /\ Continues(builder.blocks, extended.blocks)
      /\ IsTyped(extended, L, next)
      /\ Inked(Spoken(extended.blocks)) = Inked(Spoken(builder.blocks)) \o Inked(Spoken(calls))
    BY <1>3, CallsAdded
<1> QED
    BY <1>4

LEMMA SaidMore ==
    ASSUME OutlineInv, NEW calls, NEW next, Reads(calls, next),
           NEW old \in Seq(Letters), NEW more \in Seq(Letters),
           Inked(Spoken(builder.blocks)) = Inked(old), Inked(Spoken(calls)) = Inked(more)
    PROVE  Inked(Spoken(builder'.blocks)) = Inked(old \o more)
<1>1. builder' = AddCalls(builder, calls)
    BY DEF Reads, Extract
<1>2. Inked(Spoken(AddCalls(builder, calls).blocks)) = Inked(Spoken(builder.blocks)) \o Inked(Spoken(calls))
    BY CallsSay
<1>3. Inked(old \o more) = Inked(old) \o Inked(more)
    BY InkedJoined
<1> QED
    BY <1>1, <1>2, <1>3

\* The lines that were read are in the blocks.
MarkdownInv ==
    Loading({"md", "txt"}) =>
        /\ content \in Seq(Lines)
        /\ index \in 1 .. Len(content) + 1
        /\ Inked(Spoken(builder.blocks)) = Inked(TextBefore(index))

LEMMA OpenedSays == Opened.blocks = <<>> /\ Spoken(Opened.blocks) = <<>>
<1>1. Opened.blocks = <<>>
    BY DEF Opened
<1> QED
    BY <1>1, SpokenOfNothing

LEMMA MarkdownInvStep ==
    VouchedInv /\ OutlineInv /\ MarkdownInv /\ [Next]_vars => MarkdownInv'
<1> SUFFICES ASSUME VouchedInv, OutlineInv, MarkdownInv, [Next]_vars, Loading({"md", "txt"})'
             PROVE  /\ content' \in Seq(Lines)
                    /\ index' \in 1 .. Len(content') + 1
                    /\ Inked(Spoken(builder'.blocks)) = Inked(TextBefore(index)')
    BY DEF MarkdownInv
<1>1. outcome' = "loading" /\ Format' \in {"md", "txt"} /\ Format' = Format
    BY LoadingSteps DEF Loading
<1>2. CASE Accepted
    <2>1. content' \in Seq(Lines) /\ Len(content') \in Nat
        BY <1>1, <1>2, MarkdownAssumption, LenProperties DEF Accepted
    <2>2. index' = 1 /\ builder' = Opened
        BY <1>2 DEF Accepted
    <2>3. TextBefore(index)' = <<>>
        <3>1. 1 .. index' - 1 = {}
            BY <2>2
        <3> QED
            BY <3>1 DEF TextBefore
    <2> QED
        BY <2>1, <2>2, <2>3, OpenedSays
<1>3. CASE Stays
    BY <1>1, <1>3 DEF Stays, MarkdownInv, Loading, TextBefore
<1>4. CASE outcome = "loading" /\ content' = content /\ ReadsOn
    <2>1. /\ content \in Seq(Lines) /\ index \in 1 .. Len(content) + 1
          /\ Inked(Spoken(builder.blocks)) = Inked(TextBefore(index))
        BY <1>1, <1>4 DEF MarkdownInv, Loading
    <2>2. PICK calls, next : TakesLines(calls, next)
        BY <1>1, <1>4 DEF ReadsOn
    <2>3. index' = next /\ next \in index .. Len(content) + 1 /\ Reads(calls, next)
          /\ Inked(Spoken(calls)) = Inked(Text(index, next - 1))
        BY <2>2 DEF TakesLines, Reads, Extract
    <2> DEFINE old == TextBefore(index)
               more == Text(index, next - 1)
    <2>4. old \in Seq(Words \cup {Blank}) /\ more \in Seq(Words \cup {Blank})
          /\ TextBefore(next) = old \o more
        BY <2>1, <2>3, TextsJoin
    <2>5. TextBefore(index)' = TextBefore(next)
        BY <1>4, <2>3 DEF TextBefore
    <2> HIDE DEF old, more
    <2>6. old \in Seq(Letters) /\ more \in Seq(Letters)
        BY <2>4, SeqGrows DEF Letters
    <2>7. Inked(Spoken(builder'.blocks)) = Inked(old \o more)
        BY <1>4, <2>1, <2>3, <2>6, SaidMore DEF old, more
    <2>8. Len(content) \in Nat
        BY <2>1, LenProperties
    <2> QED
        BY <1>4, <2>1, <2>3, <2>4, <2>5, <2>7, <2>8
<1> QED
    BY <1>1, <1>2, <1>3, <1>4, LoadingSteps

\* Every line of a text or Markdown document that was read is in the blocks, once
\* and in order, however its lists, fences and tables follow each other.
THEOREM MarkdownAlwaysKept == Spec => [](Loading({"md", "txt"}) => MarkdownKept)
<1>1. Init => MarkdownInv
    BY DEF Init, MarkdownInv, Loading
<1>2. (VouchedInv /\ OutlineInv) /\ MarkdownInv /\ [Next]_vars => MarkdownInv'
    BY MarkdownInvStep
<1>3. MarkdownInv => (Loading({"md", "txt"}) => MarkdownKept)
    BY DEF MarkdownInv, MarkdownKept, Spoken, TextBefore
<1> QED
    BY <1>1, <1>2, <1>3, OutlineAlways, PTL DEF Spec

LEMMA FlattenedToNothing ==
    ASSUME NEW ss
    PROVE  FlattenedTo(ss, 0) = <<>>
<1>1. [k \in 1 .. 0 |-> ss[k]] = <<>>
    OBVIOUS
<1>2. FlattenSeq(<<>>) = <<>>
    BY FlattenedFew, EmptySeq
<1> QED
    BY <1>1, <1>2 DEF FlattenedTo

\* What an element says.
LEMMA SaidTyped ==
    ASSUME NEW element \in Elements
    PROVE  Said(element) \in Seq(Letters)
<1>1. CASE element.tag = "p"
    <2>1. element \in [tag : {"p"}, word : Words \cup {Blank}, style : 0 .. 9 \cup {NotGiven},
                       outline : 0 .. 9 \cup {NotGiven}, numbered : BOOLEAN]
        BY <1>1 DEF Elements
    <2>2. element.word \in Letters
        BY <2>1 DEF Letters
    <2>3. <<element.word>> \in Seq(Letters)
        BY <2>2
    <2> QED
        BY <1>1, <2>3 DEF Said
<1>2. CASE element.tag = "tbl"
    <2>1. element \in [tag : {"tbl"}, rows : Seq(Seq(Cells) \ {<<>>})]
        BY <1>2 DEF Elements
    <2>2. element.rows \in Seq(Seq(Cells) \ {<<>>})
        BY <2>1
    <2> DEFINE rows == element.rows
               said == FlattenSeq([r \in DOMAIN rows |->
                           [k \in DOMAIN rows[r] |-> CellText(rows[r][k])]])
    <2>3. Said(element) = said /\ rows \in Seq(Seq(Cells) \ {<<>>})
        BY <1>2, <2>2 DEF Said
    <2> HIDE DEF rows
    <2>4. said \in Seq(Letters)
        BY <2>3, DocxTableSays
    <2> QED
        BY <2>3, <2>4
<1>3. CASE element.tag \notin {"p", "tbl"}
    BY <1>3, EmptySeq DEF Said
<1> QED
    BY <1>1, <1>2, <1>3

BodySaid(body) == [k \in DOMAIN body |-> Said(body[k])]

LEMMA BodySaidTyped ==
    ASSUME NEW body \in Seq(Elements)
    PROVE  BodySaid(body) \in Seq(Seq(Letters)) /\ Len(BodySaid(body)) = Len(body)
<1> DEFINE n == Len(body)
           s == BodySaid(body)
           V == Seq(Letters)
<1>1. n \in Nat /\ DOMAIN body = 1 .. n /\ \A k \in 1 .. n : body[k] \in Elements
    BY LenProperties, ElementOfSeq
<1>2. s = [k \in 1 .. n |-> s[k]] /\ \A k \in 1 .. n : s[k] \in V
    BY <1>1, SaidTyped DEF BodySaid
<1> HIDE DEF n, s, V
<1>3. s \in Seq(V) /\ Len(s) = n
    BY <1>1, <1>2, FunctionIsSeq
<1> QED
    BY <1>3 DEF n, s, V

\* The elements that were read are in the blocks.
DocxInv ==
    Loading({"docx"}) =>
        /\ content.body \in Seq(Elements)
        /\ index \in 1 .. Len(content.body) + 1
        /\ Inked(Spoken(builder.blocks)) = Inked(FlattenedTo(BodySaid(content.body), index - 1))

LEMMA DocxInvStep ==
    VouchedInv /\ OutlineInv /\ DocxInv /\ [Next]_vars => DocxInv'
<1> SUFFICES ASSUME VouchedInv, OutlineInv, DocxInv, [Next]_vars, Loading({"docx"})'
             PROVE  /\ content'.body \in Seq(Elements)
                    /\ index' \in 1 .. Len(content'.body) + 1
                    /\ Inked(Spoken(builder'.blocks)) =
                           Inked(FlattenedTo(BodySaid(content'.body), index' - 1))
    BY DEF DocxInv
<1>1. outcome' = "loading" /\ Format' = "docx" /\ Format = "docx"
    BY LoadingSteps DEF Loading
<1>2. CASE Accepted
    <2>1. content'.body \in Seq(Elements) /\ Len(content'.body) \in Nat
        BY <1>1, <1>2, DocxAssumption, LenProperties, Zenon DEF Accepted
    <2>2. index' = 1 /\ builder' = Opened /\ index' - 1 = 0
        BY <1>2 DEF Accepted
    <2> QED
        BY <2>1, <2>2, OpenedSays, FlattenedToNothing
<1>3. CASE Stays
    BY <1>1, <1>3 DEF Stays, DocxInv, Loading
<1>4. CASE outcome = "loading" /\ content' = content /\ ReadsOn
    <2>1. /\ content.body \in Seq(Elements) /\ index \in 1 .. Len(content.body) + 1
          /\ Inked(Spoken(builder.blocks)) = Inked(FlattenedTo(BodySaid(content.body), index - 1))
        BY <1>1, <1>4 DEF DocxInv, Loading
    <2>2. PICK calls : TakesElement(calls)
        BY <1>1, <1>4 DEF ReadsOn
    <2> DEFINE said == BodySaid(content.body)
               old == FlattenedTo(said, index - 1)
               more == Said(content.body[index])
               next == index + 1
    <2>3. /\ index' = next /\ Reads(calls, next) /\ index \in 1 .. Len(content.body)
          /\ Inked(Spoken(calls)) = Inked(more)
        BY <2>2 DEF TakesElement, Reads, Extract
    <2>4. Len(content.body) \in Nat /\ DOMAIN content.body = 1 .. Len(content.body)
        BY <2>1, LenProperties
    <2>5. said[index] = more /\ said \in Seq(Seq(Letters)) /\ index \in 1 .. Len(said)
        BY <2>1, <2>3, <2>4, BodySaidTyped DEF BodySaid
    <2>6. index \in Nat /\ next - 1 = index /\ next \in 1 .. Len(content.body) + 1
        BY <2>3, <2>4
    <2> HIDE DEF said, more, next
    <2>7. old \in Seq(Letters) /\ more \in Seq(Letters) /\ FlattenedTo(said, index) = old \o more
        BY <2>5, FlattenedToGrows
    <2> HIDE DEF old
    <2>8. Inked(Spoken(builder.blocks)) = Inked(old)
        BY <2>1 DEF old, said
    <2>9. Inked(Spoken(builder'.blocks)) = Inked(old \o more)
        BY <2>3, <2>7, <2>8, SaidMore
    <2>10. FlattenedTo(BodySaid(content'.body), index' - 1) = FlattenedTo(said, index)
        BY <1>4, <2>3, <2>6 DEF said
    <2> QED
        BY <1>4, <2>1, <2>3, <2>6, <2>7, <2>9, <2>10
<1> QED
    BY <1>1, <1>2, <1>3, <1>4, LoadingSteps

\* Every paragraph and table of a DOCX body that was read is in the blocks, once
\* and in order, merged and spanning cells included.
THEOREM DocxAlwaysKept == Spec => [](Loading({"docx"}) => DocxKept)
<1>1. Init => DocxInv
    BY DEF Init, DocxInv, Loading
<1>2. (VouchedInv /\ OutlineInv) /\ DocxInv /\ [Next]_vars => DocxInv'
    BY DocxInvStep
<1>3. DocxInv => (Loading({"docx"}) => DocxKept)
    <2> SUFFICES ASSUME DocxInv, Loading({"docx"}) PROVE DocxKept
        OBVIOUS
    <2>1. content.body \in Seq(Elements) /\ index \in 1 .. Len(content.body) + 1
        BY DEF DocxInv
    <2>2. DOMAIN content.body = 1 .. Len(content.body) /\ Len(content.body) \in Nat
        BY <2>1, LenProperties
    <2>3. \A k \in 1 .. index - 1 : BodySaid(content.body)[k] = Said(content.body[k])
        BY <2>1, <2>2 DEF BodySaid
    <2>4. [k \in 1 .. index - 1 |-> Said(content.body[k])] =
              [k \in 1 .. index - 1 |-> BodySaid(content.body)[k]]
        BY <2>3
    <2> QED
        BY <2>4 DEF DocxInv, DocxKept, Spoken, FlattenedTo
<1> QED
    BY <1>1, <1>2, <1>3, OutlineAlways, PTL DEF Spec

\* The headings of the old blocks stay, and those of the calls come behind them.
LEMMA HeadingsBecome ==
    ASSUME NEW L, NEW B, Saying(B, L), NEW old \in Seq(B), NEW blocks \in Seq(B),
           NEW S, Saying(S, L), NEW calls \in Seq(S), Become(old, blocks, calls, Len(calls))
    PROVE  Headings(blocks) = Headings(old) \o Headings(calls)
<1> DEFINE n == Len(old)
           m == Len(calls)
           V == Seq(L)
           heads(s) == [k \in DOMAIN s |-> HeadingOf(s[k])]
<1>1. /\ n \in Nat /\ DOMAIN old = 1 .. n /\ \A k \in 1 .. n : old[k] \in B
      /\ m \in Nat /\ DOMAIN calls = 1 .. m /\ \A k \in 1 .. m : calls[k] \in S
      /\ Len(blocks) = n + m /\ DOMAIN blocks = 1 .. n + m
      /\ \A k \in 1 .. n : blocks[k] = old[k]
      /\ \A k \in 1 .. m : blocks[n + k].type = calls[k].type /\ blocks[n + k].text = calls[k].text
    BY LenProperties, ElementOfSeq DEF Become, IsMade
<1>2. \A b : b \in B \/ b \in S => HeadingOf(b) \in V
    BY EmptySeq DEF HeadingOf, Saying
<1> DEFINE mine == heads(old)
           theirs == heads(calls)
           all == heads(blocks)
<1>3. /\ mine = [k \in 1 .. n |-> mine[k]] /\ \A k \in 1 .. n : mine[k] \in V /\ mine[k] = HeadingOf(old[k])
      /\ theirs = [k \in 1 .. m |-> theirs[k]]
      /\ \A k \in 1 .. m : theirs[k] \in V /\ theirs[k] = HeadingOf(calls[k])
      /\ all = [k \in 1 .. n + m |-> all[k]] /\ \A k \in 1 .. n + m : all[k] = HeadingOf(blocks[k])
    BY <1>1, <1>2
<1>4. /\ Headings(old) = FlattenSeq(mine) /\ Headings(calls) = FlattenSeq(theirs)
      /\ Headings(blocks) = FlattenSeq(all)
    BY DEF Headings
<1> HIDE DEF V, mine, theirs, all, n, m
<1>5. mine \in Seq(V) /\ Len(mine) = n /\ theirs \in Seq(V) /\ Len(theirs) = m
    BY <1>1, <1>3, FunctionIsSeq
<1>6. all = mine \o theirs
    <2>1. /\ mine \o theirs \in Seq(V) /\ Len(mine \o theirs) = n + m
          /\ \A k \in 1 .. n + m : (mine \o theirs)[k] = IF k <= n THEN mine[k] ELSE theirs[k - n]
        BY <1>1, <1>5, ConcatProperties
    <2>2. \A k \in 1 .. n + m : all[k] = (mine \o theirs)[k]
        <3> SUFFICES ASSUME NEW k \in 1 .. n + m PROVE all[k] = (mine \o theirs)[k]
            OBVIOUS
        <3>1. CASE k <= n
            <4>1. k \in 1 .. n
                BY <1>1, <3>1
            <4> QED
                BY <1>1, <1>3, <2>1, <3>1, <4>1
        <3>2. CASE ~(k <= n)
            <4>1. k - n \in 1 .. m /\ n + (k - n) = k
                BY <1>1, <3>2
            <4>2. blocks[k].type = calls[k - n].type /\ blocks[k].text = calls[k - n].text
                BY <1>1, <4>1
            <4>3. HeadingOf(blocks[k]) = HeadingOf(calls[k - n])
                BY <4>2 DEF HeadingOf, IsHeading
            <4> QED
                BY <1>3, <2>1, <3>2, <4>1, <4>3
        <3> QED
            BY <3>1, <3>2
    <2>3. mine \o theirs = [k \in 1 .. n + m |-> (mine \o theirs)[k]]
        <3> DEFINE both == mine \o theirs
        <3>1. both \in Seq(V) /\ Len(both) = n + m
            BY <2>1
        <3> HIDE DEF both
        <3>2. both = [k \in 1 .. n + m |-> both[k]]
            BY <3>1
        <3> QED
            BY <3>2 DEF both
    <2> QED
        BY <1>3, <2>2, <2>3
<1>7. FlattenSeq(mine \o theirs) = FlattenSeq(mine) \o FlattenSeq(theirs)
    BY <1>5, FlattenedJoined DEF V
<1> QED
    BY <1>4, <1>6, <1>7

PageWords(pages) == [p \in DOMAIN pages |-> LineWords(pages[p].lines)]

PagesLines(pages) == [p \in DOMAIN pages |-> pages[p].lines]

LEMMA PageWordsTyped ==
    ASSUME NEW pages \in PdfPages
    PROVE  /\ PageWords(pages) \in Seq(Seq(Words)) /\ Len(PageWords(pages)) = Len(pages)
           /\ PagesLines(pages) \in Seq(Seq(PdfLines)) /\ Len(PagesLines(pages)) = Len(pages)
<1> DEFINE n == Len(pages)
           s == PageWords(pages)
           t == PagesLines(pages)
           V == Seq(Words)
           W == Seq(PdfLines)
<1>1. n \in Nat /\ DOMAIN pages = 1 .. n /\ \A p \in 1 .. n : pages[p].lines \in W
    BY PagesTyped
<1>2. /\ s = [k \in 1 .. n |-> s[k]] /\ \A k \in 1 .. n : s[k] \in V
      /\ t = [k \in 1 .. n |-> t[k]] /\ \A k \in 1 .. n : t[k] \in W
    BY <1>1, LineWordsTyped DEF PageWords, PagesLines
<1> HIDE DEF n, s, t, V, W
<1>3. s \in Seq(V) /\ Len(s) = n /\ t \in Seq(W) /\ Len(t) = n
    BY <1>1, <1>2, FunctionIsSeq
<1> QED
    BY <1>3 DEF n, s, t, V, W

\* A page is in the blocks, or is empty and reported.
IsRead(p) ==
    \/ \E k \in DOMAIN builder.blocks : builder.blocks[k].locator.page = p
    \/ content.pages[p].lines = <<>> /\ Reported("empty page", p)

\* The pages that were read are in the blocks, and of their lines the large ones
\* are the headings.
PdfInv ==
    Loading({"pdf"}) =>
        /\ content.pages \in PdfPages
        /\ index \in 1 .. Len(content.pages) + 1
        /\ index > 1 => PdfRefusals(content) = {}
        /\ Inked(Spoken(builder.blocks)) = Inked(FlattenedTo(PageWords(content.pages), index - 1))
        /\ Headings(builder.blocks) =
               LargeWords(FlattenedTo(PagesLines(content.pages), index - 1), PdfSizes(content.pages))
        /\ \A p \in 1 .. index - 1 : IsRead(p)

\* The calls for a page become blocks one by one.
LEMMA PageBecomes ==
    ASSUME OutlineInv, Loading({"pdf"}), TakesPage
    PROVE  LET calls == PdfPageCalls(content.pages, index)
           IN  /\ Become(builder.blocks, builder'.blocks, calls, Len(calls))
               /\ DOMAIN builder.blocks = 1 .. Len(builder.blocks) /\ Len(builder.blocks) \in Nat
               /\ DOMAIN builder'.blocks = 1 .. Len(builder'.blocks)
               /\ DOMAIN calls = 1 .. Len(calls) /\ Len(calls) \in Nat
<1> DEFINE calls == PdfPageCalls(content.pages, index)
           next == index + 1
           extended == AddCalls(builder, calls)
           L == Words
<1>1. /\ content.pages \in PdfPages /\ index \in DOMAIN content.pages /\ Reads(calls, next)
    BY Zenon DEF TakesPage
<1>2. AreCalls(calls, L, next) /\ \A k \in DOMAIN calls : IsClean(calls[k])
    BY <1>1, PdfCallsMade
<1>3. IsTyped(builder, Words, index) /\ index \in Nat /\ next \in Nat /\ index <= next
    BY DEF OutlineInv, Alphabet, Loading
<1>4. builder' = extended
    BY <1>1 DEF Reads, Extract
<1> HIDE DEF next, calls
<1>5. IsTyped(builder, L, next) /\ IsAlphabet(L) /\ WellBuilt(builder)
    BY <1>3, TypedGrows DEF IsAlphabet, Letters, OutlineInv
<1> HIDE DEF L
<1>6. Become(builder.blocks, extended.blocks, calls, Len(calls))
    BY <1>2, <1>5, CallsBecomeBlocks
<1>7. /\ WellBuilt(extended) /\ Continues(builder.blocks, extended.blocks)
      /\ IsTyped(extended, L, next)
      /\ Inked(Spoken(extended.blocks)) = Inked(Spoken(builder.blocks)) \o Inked(Spoken(calls))
    BY <1>2, <1>5, CallsAdded
<1> HIDE DEF extended
<1>8. PICK B : builder.blocks \in Seq(B)
    BY <1>5 DEF IsTyped, Builders
<1>9. PICK C : extended.blocks \in Seq(C)
    BY <1>7 DEF IsTyped, Builders
<1>10. PICK S : calls \in Seq(S)
    BY <1>2 DEF AreCalls
<1>11. /\ DOMAIN builder.blocks = 1 .. Len(builder.blocks) /\ Len(builder.blocks) \in Nat
       /\ DOMAIN extended.blocks = 1 .. Len(extended.blocks)
       /\ DOMAIN calls = 1 .. Len(calls) /\ Len(calls) \in Nat
    BY <1>8, <1>9, <1>10, LenProperties
<1> QED
    BY <1>4, <1>6, <1>11 DEF calls

LEMMA PdfInvReads ==
    ASSUME VouchedInv, OutlineInv, PdfInv, Loading({"pdf"}), TakesPage
    PROVE  /\ Inked(Spoken(builder'.blocks)) = Inked(FlattenedTo(PageWords(content.pages), index))
           /\ Headings(builder'.blocks) =
                  LargeWords(FlattenedTo(PagesLines(content.pages), index), PdfSizes(content.pages))
<1> DEFINE pages == content.pages
           calls == PdfPageCalls(pages, index)
           sizes == PdfSizes(pages)
           words == PageWords(pages)
           lines == PagesLines(pages)
<1>1. /\ pages \in PdfPages /\ index \in DOMAIN pages /\ Reads(calls, index + 1)
      /\ Alphabet = Words
    BY Zenon DEF TakesPage, Alphabet, Loading
<1>2. /\ Inked(Spoken(builder.blocks)) = Inked(FlattenedTo(words, index - 1))
      /\ Headings(builder.blocks) = LargeWords(FlattenedTo(lines, index - 1), sizes)
    BY DEF PdfInv
<1>3. /\ words \in Seq(Seq(Words)) /\ index \in 1 .. Len(words)
      /\ lines \in Seq(Seq(PdfLines)) /\ index \in 1 .. Len(lines)
      /\ words[index] = LineWords(pages[index].lines) /\ lines[index] = pages[index].lines
    BY <1>1, PageWordsTyped, PagesTyped DEF PageWords, PagesLines
<1>4. /\ AreCalls(calls, Words, index + 1)
      /\ \A k \in DOMAIN calls : IsClean(calls[k]) /\ calls[k].at.page = index
      /\ Spoken(calls) = LineWords(pages[index].lines)
      /\ Headings(calls) = LargeWords(pages[index].lines, sizes)
    BY <1>1, PdfCallsMade
<1> DEFINE said == FlattenedTo(words, index - 1)
           front == FlattenedTo(lines, index - 1)
           more == words[index]
           here == lines[index]
           next == index + 1
           extended == AddCalls(builder, calls)
<1>5. /\ said \in Seq(Words) /\ more \in Seq(Words) /\ FlattenedTo(words, index) = said \o more
      /\ front \in Seq(PdfLines) /\ here \in Seq(PdfLines)
      /\ FlattenedTo(lines, index) = front \o here
    <2> HIDE DEF words, lines
    <2> QED
        BY <1>3, FlattenedToGrows
<1>6. /\ Inked(Spoken(builder.blocks)) = Inked(said) /\ Inked(Spoken(calls)) = Inked(more)
      /\ Headings(builder.blocks) = LargeWords(front, sizes)
      /\ Headings(calls) = LargeWords(here, sizes)
      /\ Reads(calls, next) /\ AreCalls(calls, Words, next)
      /\ \A k \in DOMAIN calls : IsClean(calls[k])
    BY <1>1, <1>2, <1>3, <1>4
<1>7. builder' = extended
    BY <1>1 DEF Reads, Extract
<1>8. IsTyped(builder, Words, index) /\ index \in Nat /\ next \in Nat /\ index <= next
    BY <1>1 DEF OutlineInv
<1> HIDE DEF words, lines, said, front, more, here, calls, sizes, next, pages
<1>9. said \in Seq(Letters) /\ more \in Seq(Letters)
    BY <1>5, SeqGrows DEF Letters
<1>10. Inked(Spoken(builder'.blocks)) = Inked(said \o more)
    BY <1>6, <1>9, SaidMore
<1>11. IsTyped(builder, Words, next) /\ IsAlphabet(Words)
    BY <1>8, TypedGrows DEF IsAlphabet, Letters
<1>12. Become(builder.blocks, extended.blocks, calls, Len(calls))
    BY <1>6, <1>11, CallsBecomeBlocks
<1>13. Headings(extended.blocks) = Headings(builder.blocks) \o Headings(calls)
    <2> DEFINE L == Words
    <2>1. /\ IsAlphabet(L) /\ AreCalls(calls, L, next) /\ IsTyped(builder, L, next)
          /\ WellBuilt(builder)
        BY <1>6, <1>11 DEF OutlineInv
    <2> HIDE DEF L
    <2>2. /\ WellBuilt(extended) /\ Continues(builder.blocks, extended.blocks)
          /\ IsTyped(extended, L, next)
          /\ Inked(Spoken(extended.blocks)) = Inked(Spoken(builder.blocks)) \o Inked(Spoken(calls))
        BY <2>1, CallsAdded
    <2> HIDE DEF extended
    <2>3. PICK B : builder.blocks \in Seq(B) /\ \A block \in B : IsBlockOf(block, L)
        BY <2>1 DEF IsTyped, Builders
    <2>4. PICK C : extended.blocks \in Seq(C) /\ \A block \in C : IsBlockOf(block, L)
        BY <2>2 DEF IsTyped, Builders
    <2>5. PICK S : calls \in Seq(S) /\ \A call \in S : IsCall(call, L, next)
        BY <2>1 DEF AreCalls
    <2> DEFINE D == B \cup C
    <2>6. Saying(D, L) /\ Saying(S, L)
        BY <2>3, <2>4, <2>5 DEF Saying, IsBlockOf, IsCall
    <2>7. builder.blocks \in Seq(D) /\ extended.blocks \in Seq(D)
        <3>1. B \subseteq D /\ C \subseteq D
            OBVIOUS
        <3> HIDE DEF D
        <3> QED
            BY <2>3, <2>4, <3>1, SeqGrows
    <2> HIDE DEF D
    <2> DEFINE old == builder.blocks
               blocks == extended.blocks
    <2>8. /\ old \in Seq(D) /\ blocks \in Seq(D) /\ Saying(D, L) /\ Saying(S, L) /\ calls \in Seq(S)
          /\ Become(old, blocks, calls, Len(calls))
        BY <1>12, <2>5, <2>6, <2>7
    <2> HIDE DEF old, blocks
    <2>9. Headings(blocks) = Headings(old) \o Headings(calls)
        BY <2>8, HeadingsBecome
    <2> QED
        BY <2>9 DEF old, blocks
<1>14. LargeWords(front \o here, sizes) = LargeWords(front, sizes) \o LargeWords(here, sizes)
    BY <1>5, LargeWordsJoined
<1> QED
    BY <1>5, <1>6, <1>7, <1>10, <1>13, <1>14 DEF words, lines, said, front, more, here, sizes, pages

\* The page is in the blocks afterwards, and those before it still are.
LEMMA PagesStayRead ==
    ASSUME OutlineInv, PdfInv, Loading({"pdf"}), TakesPage, content' = content,
           NEW p \in 1 .. index
    PROVE  IsRead(p)'
<1> DEFINE pages == content.pages
           calls == PdfPageCalls(pages, index)
           old == builder.blocks
           blocks == builder'.blocks
           n == Len(old)
           m == Len(calls)
<1>1. /\ Become(old, blocks, calls, m) /\ DOMAIN old = 1 .. n /\ n \in Nat
      /\ DOMAIN blocks = 1 .. Len(blocks) /\ DOMAIN calls = 1 .. m /\ m \in Nat
    BY PageBecomes
<1>2. /\ DOMAIN blocks = 1 .. n + m
      /\ \A i \in 1 .. n : blocks[i] = old[i]
      /\ \A i \in 1 .. m : blocks[n + i].locator = calls[i].at
    BY <1>1 DEF Become, IsMade
<1>3. /\ pages \in PdfPages /\ index \in DOMAIN pages /\ notices \subseteq notices'
      /\ (pages[index].lines = <<>> => [about |-> "empty page", at |-> index] \in notices')
      /\ index \in Nat
    BY DEF TakesPage, OutlineInv
<1>4. /\ \A k \in DOMAIN calls : calls[k].at.page = index
      /\ Spoken(calls) = LineWords(pages[index].lines)
    BY <1>3, PdfCallsMade
<1> HIDE DEF calls, n, m
<1>5. CASE p # index
    <2>1. p \in 1 .. index - 1
        <3>1. index \in Nat
            BY <1>3
        <3> QED
            BY <1>5, <3>1
    <2>2. IsRead(p)
        BY <2>1 DEF PdfInv
    <2>3. CASE \E k \in DOMAIN old : old[k].locator.page = p
        <3>1. PICK k \in DOMAIN old : old[k].locator.page = p
            BY <2>3
        <3>2. k \in DOMAIN blocks /\ blocks[k].locator.page = p
            BY <1>1, <1>2, <3>1
        <3> QED
            BY <3>2 DEF IsRead
    <2>4. CASE pages[p].lines = <<>> /\ Reported("empty page", p)
        BY <1>3, <2>4 DEF IsRead, Reported
    <2> QED
        BY <2>2, <2>3, <2>4 DEF IsRead
<1>6. CASE p = index /\ pages[index].lines = <<>>
    BY <1>3, <1>6 DEF IsRead, Reported
<1>7. CASE p = index /\ pages[index].lines # <<>>
    <2>1. calls # <<>>
        <3>1. pages[index].lines \in Seq(PdfLines)
            BY <1>3, PagesTyped
        <3>2. Len(pages[index].lines) # 0 /\ LineWords(pages[index].lines) \in Seq(Words)
              /\ Len(LineWords(pages[index].lines)) # 0
            BY <1>7, <3>1, LineWordsTyped, EmptySeq
        <3>3. LineWords(pages[index].lines) # <<>>
            BY <3>2, EmptySeq
        <3> QED
            BY <1>4, <3>3, SpokenOfNothing
    <2>2. m # 0
        <3>1. calls \in Seq({calls[k] : k \in 1 .. m})
            <4>1. AreCalls(calls, Words, 0)
                BY <1>3, PdfCallsMade DEF calls
            <4>2. PICK S : calls \in Seq(S)
                BY <4>1 DEF AreCalls
            <4>3. m = Len(calls)
                BY DEF m
            <4> QED
                BY <1>1, <4>2, <4>3
        <3> QED
            BY <2>1, <3>1, EmptySeq DEF m
    <2>3. 1 \in 1 .. m /\ n + 1 \in DOMAIN blocks /\ blocks[n + 1].locator = calls[1].at
        <3>1. m \in Nat /\ n \in Nat
            BY <1>1
        <3>2. 1 \in 1 .. m /\ n + 1 \in 1 .. n + m
            BY <2>2, <3>1
        <3> QED
            BY <1>2, <3>2
    <2>4. blocks[n + 1].locator.page = index
        BY <1>1, <1>4, <2>3
    <2> QED
        BY <1>7, <2>3, <2>4 DEF IsRead
<1> QED
    BY <1>5, <1>6, <1>7

LEMMA NothingLarge == ASSUME NEW sizes PROVE LargeWords(<<>>, sizes) = <<>> /\ Headings(<<>>) = <<>>
<1>1. /\ [k \in DOMAIN <<>> |-> LargeWord(<<>>[k], sizes)] = <<>>
      /\ [k \in DOMAIN <<>> |-> HeadingOf(<<>>[k])] = <<>>
    OBVIOUS
<1>2. FlattenSeq(<<>>) = <<>>
    BY FlattenedFew, EmptySeq
<1> QED
    BY <1>1, <1>2 DEF LargeWords, Headings

LEMMA PdfInvStep ==
    VouchedInv /\ OutlineInv /\ PdfInv /\ [Next]_vars => PdfInv'
<1> SUFFICES ASSUME VouchedInv, OutlineInv, PdfInv, [Next]_vars, Loading({"pdf"})'
             PROVE  PdfInv'
    BY DEF PdfInv
<1>1. outcome' = "loading" /\ Format' = "pdf" /\ Format = "pdf"
    BY LoadingSteps DEF Loading
<1>2. CASE Accepted
    <2>1. content'.pages \in PdfPages /\ Len(content'.pages) \in Nat
        BY <1>1, <1>2, PdfAssumption, LenProperties DEF Accepted, PdfPages
    <2>2. index' = 1 /\ builder' = Opened /\ index' - 1 = 0 /\ index' \in 1 .. Len(content'.pages) + 1
          /\ 1 .. index' - 1 = {} /\ ~(index' > 1)
        BY <1>2, <2>1 DEF Accepted
    <2>3. /\ Inked(Spoken(builder'.blocks)) = Inked(FlattenedTo(PageWords(content'.pages), index' - 1))
          /\ Headings(builder'.blocks) =
                 LargeWords(FlattenedTo(PagesLines(content'.pages), index' - 1), PdfSizes(content'.pages))
        BY <2>2, OpenedSays, FlattenedToNothing, NothingLarge
    <2> QED
        BY <2>1, <2>2, <2>3 DEF PdfInv
<1>3. CASE Stays
    BY <1>1, <1>3 DEF Stays, PdfInv, Loading, IsRead, Reported
<1>4. CASE outcome = "loading" /\ content' = content /\ ReadsOn
    <2>1. TakesPage /\ Loading({"pdf"})
        BY <1>1, <1>4 DEF ReadsOn, Loading
    <2>2. /\ content.pages \in PdfPages /\ index \in DOMAIN content.pages
          /\ PdfRefusals(content) = {} /\ index' = index + 1
        BY <2>1 DEF TakesPage, Reads, Extract
    <2>3. Len(content.pages) \in Nat /\ DOMAIN content.pages = 1 .. Len(content.pages)
        BY <2>2, PagesTyped
    <2>4. index' - 1 = index /\ index' \in 1 .. Len(content.pages) + 1
        BY <2>2, <2>3
    <2>5. \A p \in 1 .. index : IsRead(p)'
        BY <1>4, <2>1, PagesStayRead
    <2> QED
        BY <1>4, <2>1, <2>2, <2>4, <2>5, PdfInvReads DEF PdfInv
<1> QED
    BY <1>1, <1>2, <1>3, <1>4, LoadingSteps

LEMMA PdfInvAlways == Spec => []((VouchedInv /\ OutlineInv) /\ PdfInv)
<1>1. Init => PdfInv
    BY DEF Init, PdfInv, Loading
<1>2. (VouchedInv /\ OutlineInv) /\ PdfInv /\ [Next]_vars => PdfInv'
    BY PdfInvStep
<1> QED
    BY <1>1, <1>2, OutlineAlways, PTL DEF Spec

\* Every line of a PDF page that was read is in the blocks, once and in order,
\* and a page without a block has no text and no image and is reported.
THEOREM PdfAlwaysKept == Spec => [](Loading({"pdf"}) => PdfKept)
<1>1. (VouchedInv /\ OutlineInv) /\ PdfInv => (Loading({"pdf"}) => PdfKept)
    <2> SUFFICES ASSUME OutlineInv, PdfInv, Loading({"pdf"}) PROVE PdfKept
        OBVIOUS
    <2> DEFINE pages == content.pages
               words == PageWords(pages)
               said == FlattenedTo(words, index - 1)
               n == index - 1
    <2>1. /\ pages \in PdfPages /\ index \in 1 .. Len(pages) + 1
          /\ Inked(Spoken(builder.blocks)) = Inked(said)
          /\ \A p \in 1 .. n : IsRead(p)
          /\ index > 1 => PdfRefusals(content) = {}
        BY DEF PdfInv
    <2>2. DOMAIN pages = 1 .. Len(pages) /\ Len(pages) \in Nat
        BY <2>1, PagesTyped
    <2>3. words \in Seq(Seq(Words)) /\ n \in 0 .. Len(words)
        BY <2>1, <2>2, PageWordsTyped
    <2>4. said \in Seq(Words)
        BY <2>3, FlattenedToSplits
    <2>5. Spoken(builder.blocks) \in Seq(Words)
        BY SpokenTyped DEF OutlineInv, Alphabet, Loading
    <2>6. Spoken(builder.blocks) = said
        BY <2>1, <2>4, <2>5, WordsInked
    <2>7. [p \in 1 .. n |-> [k \in DOMAIN pages[p].lines |-> pages[p].lines[k].word]] =
              [p \in 1 .. n |-> words[p]]
        <3>1. \A p \in 1 .. n : words[p] = [k \in DOMAIN pages[p].lines |-> pages[p].lines[k].word]
            BY <2>1, <2>2 DEF PageWords, LineWords
        <3> HIDE DEF n, words, pages
        <3> QED
            BY <3>1
    <2>8. ASSUME NEW p \in 1 .. n, \A k \in DOMAIN builder.blocks : builder.blocks[k].locator.page # p
          PROVE  [about |-> "empty page", at |-> p] \in notices /\ ~content.pages[p].image
        <3>1. pages[p].lines = <<>> /\ Reported("empty page", p)
            BY <2>1, <2>8 DEF IsRead
        <3>2. p \in DOMAIN pages /\ index > 1
            BY <2>1, <2>2
        <3>3. ImageOnlyPages(pages) = {}
            BY <2>1, <3>2, ReadableHasText
        <3> QED
            BY <3>1, <3>2, <3>3 DEF ImageOnlyPages, Reported
    <2> QED
        BY <2>6, <2>7, <2>8 DEF PdfKept, Spoken, FlattenedTo
<1> QED
    BY <1>1, PdfInvAlways, PTL

\* However the lines of a PDF are sized and spread over its pages, and however
\* long they are, at most half of its characters are in headings, from a body of
\* 0.06 of a point on.
THEOREM HeadingsAlwaysTheMinority == Spec => []HeadingsAreTheMinority
<1>1. (VouchedInv /\ OutlineInv) /\ PdfInv => HeadingsAreTheMinority
    <2> SUFFICES ASSUME PdfInv, Loading({"pdf"}), BodySize(PageLines(content.pages)) >= 60
                 PROVE  2 * Characters(Headings(builder.blocks)) <= TotalWeight(PageLines(content.pages))
        BY DEF HeadingsAreTheMinority, Headings, HeadingOf
    <2> DEFINE pages == content.pages
               lines == PagesLines(pages)
               front == FlattenedTo(lines, index - 1)
    <2>1. /\ pages \in PdfPages /\ index \in 1 .. Len(pages) + 1
          /\ Headings(builder.blocks) = LargeWords(front, PdfSizes(pages))
        BY DEF PdfInv
    <2>2. lines \in Seq(Seq(PdfLines)) /\ index - 1 \in 0 .. Len(lines)
        BY <2>1, PageWordsTyped, PagesTyped
    <2>3. FlattenSeq(lines) = PageLines(pages)
        BY DEF PageLines, PagesLines
    <2> HIDE DEF lines
    <2>4. PICK rest \in Seq(PdfLines) : FlattenSeq(lines) = front \o rest
        BY <2>2, FlattenedToSplits
    <2>5. front \in Seq(PdfLines)
        BY <2>2, FlattenedToSplits
    <2> HIDE DEF front
    <2>6. 2 * Characters(LargeWords(front, HeadingSizes(front \o rest))) <= TotalWeight(front \o rest)
        BY <2>3, <2>4, <2>5, LargeIsTheMinority
    <2> QED
        BY <2>1, <2>3, <2>4, <2>6 DEF PdfSizes
<1> QED
    BY <1>1, PdfInvAlways, PTL

-----------------------------------------------------------------------------
(* The values of a sheet and the blocks of its rows.                        *)

\* A row of values below the header gets a block, and what gets none is reported.
LEMMA RowsBelow ==
    ASSUME NEW sheet \in Sheets, ~IsRefused(sheet)
    PROVE  /\ HeadersMeant(sheet) = HeaderRows(sheet, CellsOf(sheet))
           /\ HeadersMeant(sheet) = {} => "no header" \in SheetNotices(sheet)
           /\ HeadersMeant(sheet) # {} =>
                  \A n \in RowsMeant(sheet) :
                      /\ n > HeaderOf(sheet) => n \in RowsOf(sheet)
                      /\ n < HeaderOf(sheet) => "preamble" \in SheetNotices(sheet)
<1> DEFINE cells == CellsOf(sheet)
           headers == HeaderRows(sheet, cells)
           header == HeaderOf(sheet)
<1>1. ~IsBadSheet(sheet)
    BY DEF IsRefused
<1>2. /\ HeadersMeant(sheet) = headers
      /\ \A n \in RowsMeant(sheet) : n \in ToSet(RowNumbers(sheet)) /\ Populated(cells, n) # {}
    BY <1>1, HeadersAgree
<1>3. ASSUME headers = {} PROVE "no header" \in SheetNotices(sheet)
    BY <1>3 DEF SheetNotices, Check
<1>4. ASSUME headers # {}, NEW n \in RowsMeant(sheet), n < header
      PROVE  "preamble" \in SheetNotices(sheet)
    BY <1>2, <1>4 DEF SheetNotices, Check, HeaderOf
<1>5. ASSUME headers # {}, NEW n \in RowsMeant(sheet), n > header
      PROVE  n \in RowsOf(sheet)
    <2>1. ~HasStray(sheet, cells, header)
        BY <1>5 DEF IsRefused, HeaderOf
    <2>2. PICK column \in Populated(cells, n) : TRUE
        BY <1>2, <1>5
    <2>3. column \in HeaderColumns(cells, header)
        BY <1>2, <1>5, <2>1 DEF HasStray
    <2>4. TextAt(cells, <<n, column>>) \in Words
        BY TextsAt
    <2>5. TextAt(cells, <<n, column>>) # EmptyCell
        BY <2>4, EmptyCellAssumption
    <2> HIDE DEF cells, header
    <2>6. \E c \in HeaderColumns(cells, header) : TextAt(cells, <<n, c>>) # EmptyCell
        BY <2>3, <2>5
    <2> QED
        BY <1>2, <1>5, <2>6 DEF RowsOf, DataRows, cells, header
<1> QED
    BY <1>2, <1>3, <1>4, <1>5

\* The calls for a sheet become blocks one by one, each for a row of it.
LEMMA SheetBecomes ==
    ASSUME OutlineInv, Loading({"xlsx"}), TakesSheet
    PROVE  LET sheet == content.sheets[index]
               old == builder.blocks
               blocks == builder'.blocks
           IN  /\ sheet \in Sheets /\ ~IsRefused(sheet)
               /\ \A i \in DOMAIN old : i \in DOMAIN blocks /\ blocks[i] = old[i]
               /\ \A i \in DOMAIN blocks : i \in DOMAIN old \/ IsRowOf(blocks[i], sheet)
               /\ HeaderRows(sheet, CellsOf(sheet)) # {} =>
                      \A n \in RowsOf(sheet) : \E i \in DOMAIN blocks :
                          IsRowOf(blocks[i], sheet) /\ blocks[i].locator.row = n
<1> DEFINE sheet == content.sheets[index]
           calls == SheetCalls(sheet)
           next == index + 1
           extended == AddCalls(builder, calls)
           old == builder.blocks
           blocks == builder'.blocks
           n == Len(old)
           m == Len(calls)
           L == Letters
<1>1. /\ sheet \in Sheets /\ ~IsRefused(sheet) /\ Reads(calls, next) /\ index \in Nat
      /\ Format = "xlsx"
    <2>1. content.sheets \in Seq(Sheets) /\ index \in 1 .. Len(content.sheets)
        BY DEF TakesSheet
    <2>2. sheet \in Sheets
        BY <2>1, ElementOfSeq
    <2> QED
        BY <2>2 DEF TakesSheet, OutlineInv, Loading
<1> HIDE DEF sheet
<1>2. AreCalls(calls, L, next)
    BY <1>1, SheetCallsAreCalls
<1>3. IsTyped(builder, L, index) /\ index \in Nat /\ next \in Nat /\ index <= next
    BY <1>1 DEF OutlineInv, Alphabet
<1>4. builder' = extended
    BY <1>1 DEF Reads, Extract
<1>5. \A k \in DOMAIN calls : IsClean(calls[k])
    <2> SUFFICES ASSUME NEW k \in DOMAIN calls PROVE IsClean(calls[k])
        OBVIOUS
    <2>1. /\ HeaderRows(sheet, CellsOf(sheet)) # {}
          /\ \E row \in RowsOf(sheet) : calls[k] = CallOf(sheet, row)
        BY <1>1, CallsOfRows
    <2>2. PICK row \in RowsOf(sheet) : calls[k] = CallOf(sheet, row)
        BY <2>1
    <2>3. IsClean(CallOf(sheet, row))
        BY <1>1, <2>1, RowIsPaired
    <2> QED
        BY <2>2, <2>3
<1> HIDE DEF next
<1>6. IsTyped(builder, L, next) /\ IsAlphabet(L) /\ WellBuilt(builder)
    BY <1>3, TypedGrows DEF IsAlphabet, Letters, OutlineInv
<1>7. \A k \in DOMAIN calls :
          /\ HeaderRows(sheet, CellsOf(sheet)) # {}
          /\ \E row \in RowsOf(sheet) : calls[k] = CallOf(sheet, row)
    BY <1>1, CallsOfRows
<1>8. \A row \in RowsOf(sheet) : HeaderRows(sheet, CellsOf(sheet)) # {} =>
          \E k \in DOMAIN calls : calls[k] = CallOf(sheet, row)
    BY <1>1, CallsOfRows
<1> HIDE DEF L, calls
<1>9. Become(builder.blocks, extended.blocks, calls, Len(calls))
    BY <1>2, <1>5, <1>6, CallsBecomeBlocks
<1>10. /\ WellBuilt(extended) /\ Continues(builder.blocks, extended.blocks)
       /\ IsTyped(extended, L, next)
       /\ Inked(Spoken(extended.blocks)) = Inked(Spoken(builder.blocks)) \o Inked(Spoken(calls))
    BY <1>2, <1>6, CallsAdded
<1> HIDE DEF extended
<1>11. PICK B : builder.blocks \in Seq(B)
    BY <1>6 DEF IsTyped, Builders
<1>12. PICK C : extended.blocks \in Seq(C)
    BY <1>10 DEF IsTyped, Builders
<1>13. PICK S : calls \in Seq(S)
    BY <1>2 DEF AreCalls
<1>14. /\ DOMAIN old = 1 .. n /\ n \in Nat
       /\ DOMAIN blocks = 1 .. Len(blocks)
       /\ DOMAIN calls = 1 .. m /\ m \in Nat
    BY <1>4, <1>11, <1>12, <1>13, LenProperties
<1>15. Become(old, blocks, calls, m)
    BY <1>4, <1>9
<1> HIDE DEF old, blocks, n, m
<1>16. /\ Len(blocks) = n + m
       /\ \A i \in 1 .. n : blocks[i] = old[i]
       /\ \A i \in 1 .. m : IsMade(blocks[n + i], calls[i])
    BY <1>15 DEF Become, n
<1>17. DOMAIN blocks = 1 .. n + m
    BY <1>14, <1>16
<1>18. \A i \in DOMAIN old : i \in DOMAIN blocks /\ blocks[i] = old[i]
    BY <1>14, <1>16, <1>17
<1>19. ASSUME NEW k \in 1 .. m, NEW row \in RowsOf(sheet), calls[k] = CallOf(sheet, row)
       PROVE  /\ n + k \in DOMAIN blocks
              /\ IsRowOf(blocks[n + k], sheet) /\ blocks[n + k].locator.row = row
    <2> DEFINE block == blocks[n + k]
    <2>1. n + k \in DOMAIN blocks
        BY <1>14, <1>17
    <2>2. IsMade(block, calls[k])
        BY <1>16
    <2> HIDE DEF block
    <2>3. HeaderRows(sheet, CellsOf(sheet)) # {}
        BY <1>7, <1>14
    <2>4. CallOf(sheet, row).at = [sheet |-> sheet.name, row |-> row]
        BY <1>1, <2>3, RowIsPaired
    <2>5. block.text = CallOf(sheet, row).text /\ block.locator = CallOf(sheet, row).at
        BY <1>19, <2>2 DEF IsMade
    <2>6. block.locator.row = row /\ block.locator.sheet = sheet.name
        BY <2>4, <2>5
    <2>7. block.locator.row \in RowsOf(sheet) /\ block.text = CallOf(sheet, block.locator.row).text
        BY <2>5, <2>6
    <2>8. Pairs(block, sheet)
        BY <1>1, <2>3, <2>7, PairedRow
    <2> QED
        BY <2>1, <2>6, <2>8 DEF IsRowOf, block
<1>20. ASSUME NEW i \in DOMAIN blocks, i \notin DOMAIN old PROVE IsRowOf(blocks[i], sheet)
    <2> DEFINE k == i - n
    <2>1. k \in 1 .. m /\ n + k = i
        BY <1>14, <1>17, <1>20
    <2> HIDE DEF k
    <2>2. PICK row \in RowsOf(sheet) : calls[k] = CallOf(sheet, row)
        BY <1>7, <1>14, <2>1
    <2>3. IsRowOf(blocks[n + k], sheet)
        BY <1>19, <2>1, <2>2
    <2> QED
        BY <2>1, <2>3
<1>21. ASSUME HeaderRows(sheet, CellsOf(sheet)) # {}, NEW row \in RowsOf(sheet)
       PROVE  \E i \in DOMAIN blocks : IsRowOf(blocks[i], sheet) /\ blocks[i].locator.row = row
    <2>1. PICK k \in 1 .. m : calls[k] = CallOf(sheet, row)
        BY <1>8, <1>14, <1>21
    <2> QED
        BY <1>19, <2>1
<1> QED
    BY <1>1, <1>18, <1>20, <1>21 DEF sheet, old, blocks

\* Every row of values of the sheet is in a block or reported.
IsKept(s) ==
    LET sheet == content.sheets[s]
    IN  IF HeadersMeant(sheet) = {} THEN Reported("no header", s)
        ELSE \A n \in RowsMeant(sheet) :
                 /\ n > Min(HeadersMeant(sheet)) =>
                        \E b \in DOMAIN builder.blocks :
                            /\ IsRowOf(builder.blocks[b], sheet)
                            /\ builder.blocks[b].locator.row = n
                 /\ n < Min(HeadersMeant(sheet)) => Reported("preamble", s)

\* The rows of the sheets that were read are in the blocks, and nothing else is.
XlsxInv ==
    Loading({"xlsx"}) =>
        /\ content.sheets \in Seq(Sheets)
        /\ index \in 1 .. Len(content.sheets) + 1
        /\ XlsxColumnsKept
        /\ \A s \in 1 .. index - 1 : IsKept(s)

LEMMA SheetsStayRead ==
    ASSUME OutlineInv, XlsxInv, Loading({"xlsx"}), TakesSheet, content' = content
    PROVE  /\ \A b \in DOMAIN builder'.blocks : \E s \in 1 .. index :
                  IsRowOf(builder'.blocks[b], content.sheets[s])
           /\ \A s \in 1 .. index : IsKept(s)'
<1> DEFINE sheet == content.sheets[index]
           old == builder.blocks
           blocks == builder'.blocks
<1>1. /\ sheet \in Sheets /\ ~IsRefused(sheet)
      /\ \A i \in DOMAIN old : i \in DOMAIN blocks /\ blocks[i] = old[i]
      /\ \A i \in DOMAIN blocks : i \in DOMAIN old \/ IsRowOf(blocks[i], sheet)
      /\ HeaderRows(sheet, CellsOf(sheet)) # {} =>
             \A n \in RowsOf(sheet) : \E i \in DOMAIN blocks :
                 IsRowOf(blocks[i], sheet) /\ blocks[i].locator.row = n
    BY SheetBecomes
<1>2. index \in Nat \ {0}
    BY DEF OutlineInv
<1>3. /\ index \in 1 .. index /\ 1 .. index - 1 \subseteq 1 .. index
      /\ \A s \in 1 .. index : s = index \/ s \in 1 .. index - 1
      /\ index' = index + 1 /\ index' - 1 = index
    BY <1>2 DEF TakesSheet, Reads, Extract
<1>4. /\ \A b \in DOMAIN old : \E s \in 1 .. index - 1 : IsRowOf(old[b], content.sheets[s])
      /\ \A s \in 1 .. index - 1 : IsKept(s)
    BY DEF XlsxInv, XlsxColumnsKept
<1>5. notices' = notices \cup {[about |-> about, at |-> index] : about \in SheetNotices(sheet)}
    BY DEF TakesSheet
<1>6. \A about, s : Reported(about, s) => Reported(about, s)'
    BY <1>5 DEF Reported
<1>8. ASSUME NEW b \in DOMAIN blocks PROVE \E s \in 1 .. index : IsRowOf(blocks[b], content.sheets[s])
    <2>1. CASE b \in DOMAIN old
        <3>1. PICK s \in 1 .. index - 1 : IsRowOf(old[b], content.sheets[s])
            BY <1>4, <2>1
        <3>2. blocks[b] = old[b]
            BY <1>1, <2>1
        <3> QED
            BY <1>3, <3>1, <3>2
    <2>2. CASE b \notin DOMAIN old
        BY <1>1, <1>3, <2>2
    <2> QED
        BY <2>1, <2>2
<1>9. ASSUME NEW s \in 1 .. index, s # index PROVE IsKept(s)'
    <2> DEFINE other == content.sheets[s]
               headers == HeadersMeant(other)
    <2>1. IsKept(s)
        BY <1>3, <1>4, <1>9
    <2>2. CASE headers = {}
        <3>1. Reported("no header", s)'
            BY <1>6, <2>1, <2>2 DEF IsKept
        <3> QED
            BY <2>2, <3>1 DEF IsKept
    <2>3. CASE headers # {}
        <3>1. ASSUME NEW n \in RowsMeant(other)
              PROVE  /\ n > Min(headers) => \E b \in DOMAIN blocks :
                            IsRowOf(blocks[b], other) /\ blocks[b].locator.row = n
                     /\ n < Min(headers) => Reported("preamble", s)'
            <4>1. /\ n > Min(headers) => \E b \in DOMAIN old :
                            IsRowOf(old[b], other) /\ old[b].locator.row = n
                  /\ n < Min(headers) => Reported("preamble", s)
                BY <2>1, <2>3 DEF IsKept
            <4> QED
                BY <1>1, <1>6, <4>1
        <3> QED
            BY <2>3, <3>1 DEF IsKept
    <2> QED
        BY <2>2, <2>3
<1>10. ASSUME NEW s, s = index PROVE IsKept(s)'
    <2> DEFINE headers == HeadersMeant(sheet)
    <2>1. /\ headers = HeaderRows(sheet, CellsOf(sheet))
          /\ headers = {} => "no header" \in SheetNotices(sheet)
          /\ headers # {} => \A n \in RowsMeant(sheet) :
                 /\ n > HeaderOf(sheet) => n \in RowsOf(sheet)
                 /\ n < HeaderOf(sheet) => "preamble" \in SheetNotices(sheet)
        BY <1>1, RowsBelow
    <2>2. Min(headers) = HeaderOf(sheet)
        BY <2>1 DEF HeaderOf
    <2>3. CASE headers = {}
        <3>1. [about |-> "no header", at |-> index] \in notices'
            BY <1>5, <2>1, <2>3
        <3> QED
            BY <1>10, <2>3, <3>1 DEF IsKept, Reported
    <2>4. CASE headers # {}
        <3>1. ASSUME NEW n \in RowsMeant(sheet)
              PROVE  /\ n > Min(headers) => \E b \in DOMAIN blocks :
                            IsRowOf(blocks[b], sheet) /\ blocks[b].locator.row = n
                     /\ n < Min(headers) => [about |-> "preamble", at |-> index] \in notices'
            BY <1>1, <1>5, <2>1, <2>2, <2>4
        <3> QED
            BY <1>10, <2>4, <3>1 DEF IsKept, Reported
    <2> QED
        BY <2>3, <2>4
<1> QED
    BY <1>3, <1>8, <1>9, <1>10

LEMMA XlsxInvStep ==
    VouchedInv /\ OutlineInv /\ XlsxInv /\ [Next]_vars => XlsxInv'
<1> SUFFICES ASSUME VouchedInv, OutlineInv, XlsxInv, [Next]_vars, Loading({"xlsx"})'
             PROVE  XlsxInv'
    BY DEF XlsxInv
<1>1. outcome' = "loading" /\ Format' = "xlsx" /\ Format = "xlsx"
    BY LoadingSteps DEF Loading
<1>2. CASE Accepted
    <2>1. content'.sheets \in Seq(Sheets)
        BY <1>1, <1>2, XlsxAssumption DEF Accepted
    <2>2. Len(content'.sheets) \in Nat
        BY <2>1, LenProperties
    <2>3. index' = 1 /\ index' \in 1 .. Len(content'.sheets) + 1 /\ 1 .. index' - 1 = {}
        BY <1>2, <2>2 DEF Accepted
    <2>4. builder'.blocks = <<>>
        BY <1>2, OpenedSays DEF Accepted
    <2>5. DOMAIN builder'.blocks = {}
        BY <2>4
    <2> QED
        BY <2>1, <2>3, <2>5 DEF XlsxInv, XlsxColumnsKept
<1>3. CASE Stays
    <2>1. Loading({"xlsx"})
        BY <1>1, <1>3 DEF Stays, Loading
    <2>2. builder' = builder /\ index' = index /\ content' = content /\ notices' = notices
        BY <1>3 DEF Stays
    <2>3. XlsxColumnsKept'
        BY <2>1, <2>2 DEF XlsxInv, XlsxColumnsKept
    <2>4. ASSUME NEW s, IsKept(s) PROVE IsKept(s)'
        BY <2>2, <2>4 DEF IsKept, Reported
    <2> QED
        BY <2>1, <2>2, <2>3, <2>4 DEF XlsxInv
<1>4. CASE outcome = "loading" /\ content' = content /\ ReadsOn
    <2>1. TakesSheet /\ Loading({"xlsx"})
        BY <1>1, <1>4 DEF ReadsOn, Loading
    <2>2. /\ content.sheets \in Seq(Sheets) /\ index \in 1 .. Len(content.sheets)
          /\ index' = index + 1
        BY <2>1 DEF TakesSheet, Reads, Extract
    <2>3. Len(content.sheets) \in Nat
        BY <2>2, LenProperties
    <2>4. index' - 1 = index /\ index' \in 1 .. Len(content.sheets) + 1
        BY <2>2, <2>3
    <2>5. /\ \A b \in DOMAIN builder'.blocks : \E s \in 1 .. index :
                 IsRowOf(builder'.blocks[b], content.sheets[s])
          /\ \A s \in 1 .. index : IsKept(s)'
        BY <1>4, <2>1, SheetsStayRead
    <2>6. XlsxColumnsKept'
        BY <1>4, <2>4, <2>5 DEF XlsxColumnsKept
    <2> QED
        BY <1>4, <2>2, <2>4, <2>5, <2>6 DEF XlsxInv
<1> QED
    BY <1>1, <1>2, <1>3, <1>4, LoadingSteps

LEMMA XlsxInvAlways == Spec => []((VouchedInv /\ OutlineInv) /\ XlsxInv)
<1>1. Init => XlsxInv
    BY DEF Init, XlsxInv, Loading
<1>2. (VouchedInv /\ OutlineInv) /\ XlsxInv /\ [Next]_vars => XlsxInv'
    BY XlsxInvStep
<1> QED
    BY <1>1, <1>2, OutlineAlways, PTL DEF Spec

\* Every row of a matrix that has a value below the header is in a block under it,
\* and one above the header, or a sheet without one, is reported.
THEOREM XlsxAlwaysKept == Spec => [](Loading({"xlsx"}) => XlsxValuesKept)
<1>1. XlsxInv => (Loading({"xlsx"}) => XlsxValuesKept)
    BY DEF XlsxInv, XlsxValuesKept, IsKept, HeadersMeant, RowsMeant
<1> QED
    BY <1>1, XlsxInvAlways, PTL

\* Whatever cells of a page or of a matrix are merged, left out or put after the
\* others, each value of a table is read in its own column.
THEOREM ColumnsAlwaysKept == Spec => []ColumnsKept
<1>1. (VouchedInv /\ OutlineInv) /\ XlsxInv => ColumnsKept
    <2> SUFFICES ASSUME OutlineInv, XlsxInv PROVE ColumnsKept
        OBVIOUS
    <2>1. Loading({"xlsx"}) => XlsxColumnsKept
        BY DEF XlsxInv
    <2>2. HtmlColumnsKept
        BY PagesKeepColumns DEF OutlineInv
    <2> QED
        BY <2>1, <2>2 DEF ColumnsKept
<1> QED
    BY <1>1, XlsxInvAlways, PTL

-----------------------------------------------------------------------------
(* How often the calls for the nodes of a page say a word.                  *)

\* Calls that may be made one after the other are elements of one set.
LEMMA CallsShared ==
    ASSUME NEW L, NEW last, NEW n \in Nat, NEW parts,
           \A k \in 1 .. n : AreCalls(parts[k], L, last)
    PROVE  \E S : /\ \A k \in 1 .. n : parts[k] \in Seq(S)
                  /\ \A call \in S : IsCall(call, L, last)
<1> DEFINE S == UNION {{parts[k][i] : i \in DOMAIN parts[k]} : k \in 1 .. n}
<1>1. ASSUME NEW k \in 1 .. n
      PROVE  /\ parts[k] \in Seq(S)
             /\ \A i \in DOMAIN parts[k] : IsCall(parts[k][i], L, last)
    <2>1. PICK R : parts[k] \in Seq(R) /\ \A call \in R : IsCall(call, L, last)
        BY DEF AreCalls
    <2>2. /\ DOMAIN parts[k] = 1 .. Len(parts[k]) /\ Len(parts[k]) \in Nat
          /\ parts[k] \in [1 .. Len(parts[k]) -> R]
        BY <2>1, LenProperties, ElementOfSeq
    <2>3. \A i \in DOMAIN parts[k] : parts[k][i] \in S
        OBVIOUS
    <2> HIDE DEF S
    <2>4. parts[k] \in [1 .. Len(parts[k]) -> S]
        BY <2>2, <2>3
    <2> QED
        BY <2>1, <2>2, <2>4, SeqDef
<1>2. ASSUME NEW call \in S PROVE IsCall(call, L, last)
    <2>1. PICK k \in 1 .. n : call \in {parts[k][i] : i \in DOMAIN parts[k]}
        OBVIOUS
    <2>2. PICK i \in DOMAIN parts[k] : call = parts[k][i]
        BY <2>1
    <2> QED
        BY <1>1, <2>2
<1> HIDE DEF S
<1> QED
    BY <1>1, <1>2

\* Calls that the builder takes, by what they say.
AreCounted(w, last, calls, least, most) ==
    /\ AreCalls(calls, Letters, last)
    /\ Counted(w, Spoken(calls), least, most)

LEMMA NoCallCounted ==
    ASSUME NEW w, NEW last
    PROVE  AreCounted(w, last, <<>>, {}, {})
<1>1. Spoken(<<>>) = <<>>
    <2>1. Spoken(<<>>) = FlattenSeq(<<>>)
        BY DEF Spoken
    <2> QED
        BY <2>1, FlattenedFew, EmptySeq
<1> QED
    BY <1>1, NoCalls, CountedFew DEF AreCounted

LEMMA OneCallCounted ==
    ASSUME NEW w, NEW last, NEW least, NEW most, NEW type, NEW level, NEW text, NEW at,
           AreCalls(<<Call(type, level, text, at)>>, Letters, last),
           Counted(w, text, least, most)
    PROVE  AreCounted(w, last, <<Call(type, level, text, at)>>, least, most)
<1> DEFINE call == Call(type, level, text, at)
<1>1. call.text = text
    BY DEF Call
<1>2. text \in Seq(Letters)
    BY DEF Counted
<1> HIDE DEF call
<1>3. Spoken(<<call>>) = text
    BY <1>1, <1>2, SpokenOne
<1> QED
    BY <1>3 DEF AreCounted, call

LEMMA CallsCountedJoined ==
    ASSUME NEW w, NEW last, NEW s, NEW ls, NEW ms, AreCounted(w, last, s, ls, ms),
           NEW t, NEW lt, NEW mt, AreCounted(w, last, t, lt, mt), ms \cap mt = {}
    PROVE  AreCounted(w, last, s \o t, ls \cup lt, ms \cup mt)
<1>1. PICK S : s \in Seq(S) /\ \A call \in S : IsCall(call, Letters, last)
    BY DEF AreCalls, AreCounted
<1>2. PICK T : t \in Seq(T) /\ \A call \in T : IsCall(call, Letters, last)
    BY DEF AreCalls, AreCounted
<1> DEFINE R == S \cup T
<1>3. s \in Seq(R) /\ t \in Seq(R) /\ \A call \in R : IsCall(call, Letters, last)
    BY <1>1, <1>2, SeqGrows
<1> HIDE DEF R
<1>7. Saying(R, Letters)
    <2>1. ASSUME NEW call \in R PROVE call.text \in Seq(Letters)
        BY <1>3 DEF IsCall
    <2> QED
        BY <2>1 DEF Saying
<1>4. Spoken(s \o t) = Spoken(s) \o Spoken(t)
    BY <1>3, <1>7, SpokenJoined
<1>5. AreCalls(s \o t, Letters, last)
    BY CallsJoined DEF AreCounted
<1>6. Counted(w, Spoken(s) \o Spoken(t), ls \cup lt, ms \cup mt)
    BY CountedJoined DEF AreCounted
<1> QED
    BY <1>4, <1>5, <1>6 DEF AreCounted

\* Parts that have no node in common, each of a text or of calls, say together
\* what each of them does.
AreParts(kind, w, last, parts, least, most, n) ==
    /\ parts = [k \in 1 .. n |-> parts[k]]
    /\ \A k \in 1 .. n : IF kind = "calls" THEN AreCounted(w, last, parts[k], least[k], most[k])
                         ELSE Counted(w, parts[k], least[k], most[k])
    /\ \A j, k \in 1 .. n : j # k => most[j] \cap most[k] = {}

LEMMA TextsCounted ==
    ASSUME NEW w, NEW last, NEW n \in Nat, NEW parts, NEW least, NEW most,
           AreParts("text", w, last, parts, least, most, n)
    PROVE  Counted(w, FlattenSeq(parts), Together(least, n),
                                         Together(most, n))
<1>1. "text" # "calls"
    OBVIOUS
<1>2. ArePieces("text", Letters, w, parts, least, most, n)
    BY <1>1 DEF AreParts, ArePieces, CountedAs, Counted
<1>3. CountedAs("text", w, FlattenSeq(parts), Together(least, n),
                                              Together(most, n))
    BY <1>2, PiecesCounted
<1> QED
    BY <1>1, <1>3 DEF CountedAs

LEMMA CallsCounted ==
    ASSUME NEW w, NEW last, NEW n \in Nat, NEW parts, NEW least, NEW most,
           AreParts("calls", w, last, parts, least, most, n)
    PROVE  AreCounted(w, last, FlattenSeq(parts), Together(least, n),
                                                  Together(most, n))
<1>1. /\ parts = [k \in 1 .. n |-> parts[k]]
      /\ \A k \in 1 .. n : AreCalls(parts[k], Letters, last)
      /\ \A k \in 1 .. n : Counted(w, Spoken(parts[k]), least[k], most[k])
    BY DEF AreParts, AreCounted
<1>2. PICK S : /\ \A k \in 1 .. n : parts[k] \in Seq(S)
               /\ \A call \in S : IsCall(call, Letters, last)
    BY <1>1, CallsShared
<1>6. Saying(S, Letters)
    <2>1. ASSUME NEW call \in S PROVE call.text \in Seq(Letters)
        BY <1>2 DEF IsCall
    <2> QED
        BY <2>1 DEF Saying
<1>3. ArePieces("calls", S, w, parts, least, most, n)
    BY <1>1, <1>2, <1>6 DEF AreParts, ArePieces, CountedAs
<1>4. CountedAs("calls", w, FlattenSeq(parts), Together(least, n),
                                               Together(most, n))
    BY <1>3, PiecesCounted
<1>5. AreCalls(FlattenSeq(parts), Letters, last)
    BY <1>1, CallsFlattened
<1> QED
    BY <1>4, <1>5 DEF CountedAs, AreCounted

-----------------------------------------------------------------------------
(* What the children of a node give.                                        *)

\* What a node makes of some of its children: a text with all that is shown of
\* them, or calls with what is safe.
Yields(kind, nodes, w, last, n, part, places) ==
    IF kind = "calls"
    THEN AreCounted(w, last, part, SafeIn(nodes, w, n, places), ShownIn(nodes, w, n, places))
    ELSE Counted(w, part, ShownIn(nodes, w, n, places), ShownIn(nodes, w, n, places))

LEMMA GivesNothing ==
    ASSUME NEW kind, NEW nodes, NEW w, NEW last, NEW n
    PROVE  Yields(kind, nodes, w, last, n, <<>>, {})
<1>1. ShownIn(nodes, w, n, {}) = {} /\ SafeIn(nodes, w, n, {}) = {}
    BY DEF ShownIn, SafeIn
<1> QED
    BY <1>1, NoCallCounted, CountedFew DEF Yields

\* Children that are dropped are given by nothing.
LEMMA GivesDropped ==
    ASSUME NEW kind, NEW nodes, IsFamily(nodes), NEW w, NEW last, NEW n \in DOMAIN nodes,
           NEW k \in DOMAIN nodes[n].kids, nodes[nodes[n].kids[k]].tag \in DroppedTags
    PROVE  Yields(kind, nodes, w, last, n, <<>>, {k})
<1>1. nodes[n].kids[k] \in DOMAIN nodes /\ nodes[nodes[n].kids[k]].tag # "#text"
    BY KidsAreNodes DEF IsFamily, DroppedTags
<1>2. Shown(nodes, w, nodes[n].kids[k]) = {}
    BY <1>1, ShownSplit
<1>3. ShownIn(nodes, w, n, {k}) = {} /\ SafeIn(nodes, w, n, {k}) = {}
    BY <1>2 DEF ShownIn, SafeIn, Safe
<1> QED
    BY <1>3, NoCallCounted, CountedFew DEF Yields

\* Parts of different children give together what each of them gives.
LEMMA GivesTogether ==
    ASSUME NEW kind \in {"text", "calls"}, NEW nodes, IsFamily(nodes), NEW w, NEW last,
           NEW n \in DOMAIN nodes, NEW c \in Nat, NEW parts, NEW places,
           parts = [k \in 1 .. c |-> parts[k]],
           \A k \in 1 .. c : places[k] \in SUBSET DOMAIN nodes[n].kids,
           \A j, k \in 1 .. c : j # k => places[j] \cap places[k] = {},
           \A k \in 1 .. c : Yields(kind, nodes, w, last, n, parts[k], places[k])
    PROVE  Yields(kind, nodes, w, last, n, FlattenSeq(parts), Together(places, c))
<1> DEFINE all == [k \in 1 .. c |-> ShownIn(nodes, w, n, places[k])]
           safe == [k \in 1 .. c |-> SafeIn(nodes, w, n, places[k])]
<1>1. \A k \in 1 .. c : /\ all[k] = ShownIn(nodes, w, n, places[k])
                        /\ safe[k] = SafeIn(nodes, w, n, places[k])
    OBVIOUS
<1> HIDE DEF all, safe
<1>2. ASSUME NEW j \in 1 .. c, NEW k \in 1 .. c, j # k PROVE all[j] \cap all[k] = {}
    <2> DEFINE some == places[j]
               others == places[k]
    <2>1. some \cap others = {}
        BY <1>2
    <2>2. some \in SUBSET DOMAIN nodes[n].kids /\ others \in SUBSET DOMAIN nodes[n].kids
        OBVIOUS
    <2>3. all[j] = ShownIn(nodes, w, n, some) /\ all[k] = ShownIn(nodes, w, n, others)
        BY <1>1
    <2> HIDE DEF some, others
    <2>4. ShownIn(nodes, w, n, some) \cap ShownIn(nodes, w, n, others) = {}
        BY <2>1, <2>2, ShownApart
    <2> QED
        BY <2>3, <2>4
<1>3. /\ Together(all, c) = ShownIn(nodes, w, n, Together(places, c))
      /\ Together(safe, c) = SafeIn(nodes, w, n, Together(places, c))
    <2>1. Together(all, c) = ShownIn(nodes, w, n, Together(places, c))
        BY <1>1 DEF Together, ShownIn
    <2>2. Together(safe, c) = SafeIn(nodes, w, n, Together(places, c))
        BY <1>1 DEF Together, SafeIn
    <2> QED
        BY <2>1, <2>2
<1>4. CASE kind = "calls"
    <2>1. AreParts(kind, w, last, parts, safe, all, c)
        BY <1>1, <1>2, <1>4 DEF AreParts, Yields
    <2> QED
        BY <1>3, <1>4, <2>1, CallsCounted DEF Yields
<1>5. CASE kind = "text"
    <2>1. AreParts(kind, w, last, parts, all, all, c)
        BY <1>1, <1>2, <1>5 DEF AreParts, Yields
    <2> QED
        BY <1>3, <1>5, <2>1, TextsCounted DEF Yields
<1> QED
    BY <1>4, <1>5

\* What is taken of some children, one by one.
LEMMA GivesSome ==
    ASSUME NEW kind \in {"text", "calls"}, NEW nodes, IsFamily(nodes), NEW w, NEW last,
           NEW n \in DOMAIN nodes, NEW c \in Nat, NEW parts, NEW some,
           some \in SUBSET DOMAIN nodes[n].kids, some \in SUBSET (1 .. c),
           parts = [k \in 1 .. c |-> parts[k]],
           \A k \in 1 .. c : IF k \in some THEN Yields(kind, nodes, w, last, n, parts[k], {k})
                             ELSE parts[k] = <<>>
    PROVE  Yields(kind, nodes, w, last, n, FlattenSeq(parts), some)
<1> DEFINE places == [k \in 1 .. c |-> IF k \in some THEN {k} ELSE {}]
<1>1. /\ \A k \in some : k \in 1 .. c /\ places[k] = {k}
      /\ \A k \in 1 .. c : k \notin some => places[k] = {}
    OBVIOUS
<1> HIDE DEF places
<1>2. \A k \in 1 .. c : places[k] \in SUBSET DOMAIN nodes[n].kids
    BY <1>1
<1>3. \A j, k \in 1 .. c : j # k => places[j] \cap places[k] = {}
    <2> SUFFICES ASSUME NEW j \in 1 .. c, NEW k \in 1 .. c, j # k
                 PROVE  places[j] \cap places[k] = {}
        OBVIOUS
    <2>1. places[j] \subseteq {j} /\ places[k] \subseteq {k}
        BY <1>1
    <2> QED
        BY <2>1
<1>4. ASSUME NEW k \in 1 .. c PROVE Yields(kind, nodes, w, last, n, parts[k], places[k])
    <2>1. CASE k \in some
        <3>1. places[k] = {k} /\ Yields(kind, nodes, w, last, n, parts[k], {k})
            BY <1>1, <2>1
        <3> QED
            BY <3>1
    <2>2. CASE k \notin some
        <3>1. places[k] = {} /\ parts[k] = <<>>
            BY <1>1, <2>2
        <3> QED
            BY <3>1, GivesNothing
    <2> QED
        BY <2>1, <2>2
<1>5. Together(places, c) = some
    <2>1. ASSUME NEW k \in Together(places, c) PROVE k \in some
        <3>1. PICK j \in 1 .. c : k \in places[j]
            BY <2>1 DEF Together
        <3>2. j \in some
            BY <1>1, <3>1
        <3> QED
            BY <1>1, <3>1, <3>2
    <2>2. ASSUME NEW k \in some PROVE k \in Together(places, c)
        BY <1>1 DEF Together
    <2> QED
        BY <2>1, <2>2
<1> QED
    BY <1>2, <1>3, <1>4, <1>5, GivesTogether

\* A child that gives its text, or its calls.
LEMMA GivesChild ==
    ASSUME NEW nodes, NEW w, NEW last, NEW n, NEW k
    PROVE  LET child == nodes[n].kids[k]
           IN  /\ \A part : Counted(w, part, Shown(nodes, w, child), Shown(nodes, w, child)) =>
                      Yields("text", nodes, w, last, n, part, {k})
               /\ \A part :
                      AreCounted(w, last, part, Safe(nodes, w, child), Shown(nodes, w, child)) =>
                      Yields("calls", nodes, w, last, n, part, {k})
<1>1. /\ ShownIn(nodes, w, n, {k}) = Shown(nodes, w, nodes[n].kids[k])
      /\ SafeIn(nodes, w, n, {k}) = Safe(nodes, w, nodes[n].kids[k])
    BY DEF ShownIn, SafeIn
<1> QED
    BY <1>1 DEF Yields

\* The text under a node has each text that is shown once.
LEMMA TextsExact ==
    ASSUME NEW nodes, IsFamily(nodes), NEW among \in SUBSET Letters, NEW w \in among,
           NEW n \in DOMAIN nodes
    PROVE  Counted(w, Texts(nodes, among)[n], Shown(nodes, w, n), Shown(nodes, w, n))
<1> DEFINE text == Texts(nodes, among)
           T == {m \in DOMAIN nodes :
                    Counted(w, text[m], Shown(nodes, w, m), Shown(nodes, w, m))}
<1>1. AreNodes(nodes)
    BY DEF IsFamily
<1>2. ASSUME NEW m \in DOMAIN nodes, \A k \in DOMAIN nodes[m].kids : nodes[m].kids[k] \in T
      PROVE  m \in T
    <2> DEFINE ofKids == OfKids(text, nodes, m)
               c == Len(nodes[m].kids)
               tag == nodes[m].tag
    <2>1. c \in Nat /\ DOMAIN nodes[m].kids = 1 .. c
        BY <1>1, KidsAreNodes
    <2>2. text[m] = TextOf(nodes[m], among, ofKids)
        BY <1>1, TextsGiven
    <2>3. \A k \in 1 .. c : ofKids[k] = text[nodes[m].kids[k]]
        BY <2>1 DEF OfKids
    <2>4. ofKids = [k \in 1 .. c |-> ofKids[k]]
        BY <2>1 DEF OfKids
    <2>5. \A k \in 1 .. c : Counted(w, text[nodes[m].kids[k]], Shown(nodes, w, nodes[m].kids[k]),
                                    Shown(nodes, w, nodes[m].kids[k]))
        BY <1>2, <2>1
    <2> HIDE DEF ofKids, text, c, T
    <2>6. Counted(w, text[m], Shown(nodes, w, m), Shown(nodes, w, m))
        <3>1. CASE tag = "#text"
            <4>1. text[m] = IF nodes[m].word \in among THEN <<nodes[m].word>> ELSE <<>>
                BY <2>2, <3>1 DEF TextOf, DroppedTags
            <4>2. Shown(nodes, w, m) = IF nodes[m].word = w THEN {m} ELSE {}
                BY <3>1, ShownOfText
            <4>3. w \in Letters /\ (nodes[m].word \in among => nodes[m].word \in Letters)
                OBVIOUS
            <4> QED
                BY <4>1, <4>2, <4>3, CountedFew
        <3>2. CASE tag \in DroppedTags
            <4>1. tag # "#text"
                BY <3>2 DEF DroppedTags
            <4>2. text[m] = <<>>
                BY <2>2, <3>2, <4>1 DEF TextOf
            <4>3. Shown(nodes, w, m) = {}
                BY <3>2, <4>1, ShownSplit
            <4> QED
                BY <4>2, <4>3, CountedFew
        <3>3. CASE tag # "#text" /\ tag \notin DroppedTags
            <4>1. text[m] = FlattenSeq(ofKids)
                BY <2>2, <3>3 DEF TextOf
            <4>2. \A k \in 1 .. c : Yields("text", nodes, w, 1, m, ofKids[k], {k})
                BY <2>3, <2>5, GivesChild
            <4>3. Yields("text", nodes, w, 1, m, FlattenSeq(ofKids), 1 .. c)
                BY <2>1, <2>4, <4>2, GivesSome
            <4>4. Shown(nodes, w, m) = ShownIn(nodes, w, m, 1 .. c)
                BY <2>1, <3>3, ShownSplit
            <4> QED
                BY <4>1, <4>3, <4>4 DEF Yields
        <3> QED
            BY <3>1, <3>2, <3>3
    <2> QED
        BY <2>6 DEF T
<1> HIDE DEF T
<1>3. DOMAIN nodes \subseteq T
    BY <1>1, <1>2, FromTheLeaves
<1> QED
    BY <1>3 DEF T

\* A call with a text says what the text does.
LEMMA GivesCall ==
    ASSUME NEW nodes, IsFamily(nodes), NEW w, NEW last, NEW n \in DOMAIN nodes, NEW places,
           NEW text, Yields("text", nodes, w, last, n, text, places),
           NEW type, NEW level, NEW at, AreCalls(<<Call(type, level, text, at)>>, Letters, last)
    PROVE  Yields("calls", nodes, w, last, n, <<Call(type, level, text, at)>>, places)
<1> DEFINE all == ShownIn(nodes, w, n, places)
           safe == SafeIn(nodes, w, n, places)
<1>1. IsFiniteSet(all) /\ safe \subseteq all
    BY ShownFinite DEF IsFamily
<1>2. Counted(w, text, all, all)
    BY DEF Yields
<1> HIDE DEF all, safe
<1>3. Counted(w, text, safe, all)
    BY <1>1, <1>2, CountedWider
<1>4. AreCounted(w, last, <<Call(type, level, text, at)>>, safe, all)
    BY <1>3, OneCallCounted
<1> QED
    BY <1>4 DEF Yields, all, safe

\* A text that is empty needs no call.
LEMMA GivesCallUnlessEmpty ==
    ASSUME NEW nodes, IsFamily(nodes), NEW w, NEW last, NEW n \in DOMAIN nodes, NEW places,
           NEW text, Yields("text", nodes, w, last, n, text, places),
           NEW type \in BlockTypes \ {"HEADING"}, NEW at
    PROVE  Yields("calls", nodes, w, last, n,
                 IF text = <<>> THEN <<>> ELSE <<Call(type, 0, text, at)>>, places)
<1>1. Counted(w, text, ShownIn(nodes, w, n, places), ShownIn(nodes, w, n, places))
    BY DEF Yields
<1>2. CASE text = <<>>
    <2> DEFINE all == ShownIn(nodes, w, n, places)
               safe == SafeIn(nodes, w, n, places)
    <2>1. IsFiniteSet(all) /\ safe \subseteq all
        BY ShownFinite DEF IsFamily
    <2> HIDE DEF all, safe
    <2>2. Counted(w, <<>>, safe, all)
        BY <1>1, <1>2, <2>1, CountedWider DEF all
    <2>3. Spoken(<<>>) = <<>> /\ AreCalls(<<>>, Letters, last)
        BY SpokenOfNothing, NoCalls
    <2>4. AreCounted(w, last, <<>>, safe, all)
        BY <2>2, <2>3 DEF AreCounted
    <2> QED
        BY <1>2, <2>4 DEF Yields, all, safe
<1>3. CASE text # <<>>
    <2>1. text \in Seq(Letters)
        BY <1>1 DEF Counted
    <2>2. AreCalls(<<Call(type, 0, text, at)>>, Letters, last)
        BY <2>1, OtherCall
    <2>3. Yields("calls", nodes, w, last, n, <<Call(type, 0, text, at)>>, places)
        BY <2>2, GivesCall
    <2> QED
        BY <1>3, <2>3
<1> QED
    BY <1>2, <1>3

LEMMA GivesJoined ==
    ASSUME NEW nodes, IsFamily(nodes), NEW w, NEW last, NEW n \in DOMAIN nodes,
           NEW some \in SUBSET DOMAIN nodes[n].kids, NEW others \in SUBSET DOMAIN nodes[n].kids,
           some \cap others = {},
           NEW s, Yields("calls", nodes, w, last, n, s, some),
           NEW t, Yields("calls", nodes, w, last, n, t, others)
    PROVE  Yields("calls", nodes, w, last, n, s \o t, some \cup others)
<1> DEFINE both == some \cup others
<1>1. /\ ShownIn(nodes, w, n, both) = ShownIn(nodes, w, n, some) \cup ShownIn(nodes, w, n, others)
      /\ SafeIn(nodes, w, n, both) = SafeIn(nodes, w, n, some) \cup SafeIn(nodes, w, n, others)
      /\ ShownIn(nodes, w, n, some) \cap ShownIn(nodes, w, n, others) = {}
    <2>1. ShownIn(nodes, w, n, both) = ShownIn(nodes, w, n, some) \cup ShownIn(nodes, w, n, others)
        BY DEF ShownIn
    <2>2. SafeIn(nodes, w, n, both) = SafeIn(nodes, w, n, some) \cup SafeIn(nodes, w, n, others)
        BY DEF SafeIn
    <2>3. ShownIn(nodes, w, n, some) \cap ShownIn(nodes, w, n, others) = {}
        BY ShownApart
    <2> QED
        BY <2>1, <2>2, <2>3
<1> HIDE DEF both
<1>2. /\ AreCounted(w, last, s, SafeIn(nodes, w, n, some), ShownIn(nodes, w, n, some))
      /\ AreCounted(w, last, t, SafeIn(nodes, w, n, others), ShownIn(nodes, w, n, others))
    BY DEF Yields
<1>3. AreCounted(w, last, s \o t, SafeIn(nodes, w, n, some) \cup SafeIn(nodes, w, n, others),
                                  ShownIn(nodes, w, n, some) \cup ShownIn(nodes, w, n, others))
    BY <1>1, <1>2, CallsCountedJoined
<1>4. Yields("calls", nodes, w, last, n, s \o t, both)
    BY <1>1, <1>3 DEF Yields
<1> QED
    BY <1>4 DEF both

\* The text of each child is given by Texts.
LEMMA KidGivesText ==
    ASSUME NEW nodes, IsFamily(nodes), NEW w \in Words, NEW last, NEW n \in DOMAIN nodes,
           NEW k \in DOMAIN nodes[n].kids
    PROVE  Yields("text", nodes, w, last, n, Texts(nodes, Words)[nodes[n].kids[k]], {k})
<1> DEFINE child == nodes[n].kids[k]
           text == Texts(nodes, Words)[child]
<1>1. child \in DOMAIN nodes /\ Words \in SUBSET Letters
    BY KidsAreNodes DEF IsFamily, Letters
<1>2. Counted(w, text, Shown(nodes, w, child), Shown(nodes, w, child))
    <2> HIDE DEF child
    <2> QED
        BY <1>1, TextsExact
<1> HIDE DEF text
<1>3. Yields("text", nodes, w, last, n, text, {k})
    BY <1>2, GivesChild
<1> QED
    BY <1>3 DEF text

-----------------------------------------------------------------------------
(* The walk over the children of a container.                               *)

\* _walk gives what all children give: the text of each that is inline, the calls
\* of each other one.
LEMMA WalkGives ==
    ASSUME NEW nodes, IsFamily(nodes), NEW w \in Words, NEW last, NEW n \in DOMAIN nodes,
           NEW ofKids,
           \A k \in DOMAIN nodes[n].kids :
               nodes[nodes[n].kids[k]].tag \notin DroppedTags \cup {"#text"} =>
                   Yields("calls", nodes, w, last, n, ofKids[k], {k})
    PROVE  Yields("calls", nodes, w, last, n, Walk(nodes, n, Texts(nodes, Words), ofKids),
                 DOMAIN nodes[n].kids)
<1> DEFINE kids == nodes[n].kids
           m == Len(kids)
           text == Texts(nodes, Words)
           isInline(k) == nodes[kids[k]].tag \in InlineTags \cup {"#text"}
           inline == {k \in DOMAIN kids : isInline(k)}
           breaks == {k \in DOMAIN kids : ~isInline(k) /\ nodes[kids[k]].tag \notin DroppedTags}
           texts(k) == [j \in 1 .. k - 1 |->
                           IF j > BreakBefore(breaks, k) /\ isInline(j) THEN text[kids[j]] ELSE <<>>]
           pending(k) == FlattenSeq(texts(k))
           waiting(k) == Waiting(breaks, inline, k)
           parts == [k \in DOMAIN kids |->
                        IF k \in breaks THEN Flush(pending(k), n) \o ofKids[k] ELSE <<>>]
           places == [k \in 1 .. m |->
                        IF k \in breaks THEN waiting(k) \cup {k}
                        ELSE IF k \in inline THEN {} ELSE {k}]
<1>1. m \in Nat /\ DOMAIN kids = 1 .. m
    BY KidsAreNodes DEF IsFamily
<1>2. Walk(nodes, n, text, ofKids) = FlattenSeq(parts) \o Flush(pending(m + 1), n)
    BY DEF Walk, BreakBefore
<1>3. \A k \in 1 .. m : Yields("text", nodes, w, last, n, text[kids[k]], {k})
    BY <1>1, KidGivesText
<1>4. ASSUME NEW k \in 1 .. m, k \notin breaks, k \notin inline
      PROVE  Yields("calls", nodes, w, last, n, <<>>, {k})
    <2>1. nodes[kids[k]].tag \in DroppedTags
        BY <1>1, <1>4
    <2> QED
        BY <1>1, <2>1, GivesDropped
<1>5. ASSUME NEW k \in breaks PROVE Yields("calls", nodes, w, last, n, ofKids[k], {k})
    OBVIOUS
<1>6. /\ breaks \in SUBSET (1 .. m) /\ inline \in SUBSET (1 .. m) /\ breaks \cap inline = {}
      /\ \A k \in 1 .. m : isInline(k) <=> k \in inline
    BY <1>1
<1> HIDE DEF text, breaks, inline, isInline
<1>7. /\ \A k \in 1 .. m + 1 : waiting(k) \in SUBSET (1 .. m) /\ waiting(k) \in SUBSET inline
      /\ \A j \in breaks, k \in 1 .. m + 1 : j < k => waiting(j) \cap waiting(k) = {}
      /\ \A i \in inline : \E k \in breaks \cup {m + 1} : i \in waiting(k)
    BY <1>1, <1>6, WaitingOnce
<1>8. ASSUME NEW k \in 1 .. m + 1
      PROVE  Yields("calls", nodes, w, last, n, Flush(pending(k), n), waiting(k))
    <2> DEFINE c == k - 1
               said == texts(k)
               some == waiting(k)
    <2>1. c \in Nat /\ c <= m /\ 1 .. c \subseteq 1 .. m
        BY <1>1
    <2>2. /\ some \in SUBSET DOMAIN kids /\ some \in SUBSET (1 .. c)
          /\ \A j \in 1 .. c : j \in some <=> j > BreakBefore(breaks, k) /\ j \in inline
        BY <1>1, <1>7 DEF Waiting
    <2>3. \A j \in 1 .. c : said[j] = IF j \in some THEN text[kids[j]] ELSE <<>>
        BY <1>6, <2>1, <2>2
    <2>4. said = [j \in 1 .. c |-> said[j]]
        OBVIOUS
    <2> HIDE DEF said, some, c
    <2>5. \A j \in 1 .. c : IF j \in some THEN Yields("text", nodes, w, last, n, said[j], {j})
                            ELSE said[j] = <<>>
        BY <1>3, <2>1, <2>3
    <2>6. Yields("text", nodes, w, last, n, FlattenSeq(said), some)
        BY <2>1, <2>2, <2>4, <2>5, GivesSome
    <2> DEFINE flat == FlattenSeq(said)
    <2> HIDE DEF flat
    <2>7. Yields("calls", nodes, w, last, n,
                IF flat = <<>> THEN <<>> ELSE <<Call("PARAGRAPH", 0, flat, n)>>, some)
        BY <2>6, GivesCallUnlessEmpty DEF flat, BlockTypes
    <2> QED
        BY <2>7 DEF Flush, flat, said, some
<1> HIDE DEF pending, waiting
<1>9. ASSUME NEW k \in 1 .. m PROVE places[k] \in SUBSET (1 .. m)
    BY <1>7
<1>10. ASSUME NEW k \in 1 .. m PROVE Yields("calls", nodes, w, last, n, parts[k], places[k])
    <2>1. CASE k \in breaks
        <3> DEFINE some == waiting(k)
                   others == {k}
                   s == Flush(pending(k), n)
                   t == ofKids[k]
        <3>1. /\ some \in SUBSET DOMAIN kids /\ others \in SUBSET DOMAIN kids
              /\ some \cap others = {} /\ k \in 1 .. m + 1
            BY <1>1, <1>6, <1>7, <2>1
        <3>2. parts[k] = s \o t /\ places[k] = some \cup others
            BY <1>1, <2>1
        <3>3. Yields("calls", nodes, w, last, n, s, some)
            BY <1>8, <3>1
        <3>4. Yields("calls", nodes, w, last, n, t, others)
            BY <1>5, <2>1
        <3> HIDE DEF some, others, s, t, parts, places
        <3>5. Yields("calls", nodes, w, last, n, s \o t, some \cup others)
            BY <3>1, <3>3, <3>4, GivesJoined
        <3> QED
            BY <3>2, <3>5
    <2>2. CASE k \notin breaks
        <3>1. parts[k] = <<>> /\ places[k] = IF k \in inline THEN {} ELSE {k}
            BY <1>1, <2>2
        <3> QED
            BY <1>4, <2>2, <3>1, GivesNothing
    <2> QED
        BY <2>1, <2>2
<1>11. ASSUME NEW j \in 1 .. m, NEW k \in 1 .. m, j # k PROVE places[j] \cap places[k] = {}
    <2>1. ASSUME NEW a \in 1 .. m, NEW b \in 1 .. m, a < b PROVE places[a] \cap places[b] = {}
        <3>1. CASE a \in breaks /\ b \in breaks
            <4>1. waiting(a) \cap waiting(b) = {}
                BY <1>7, <2>1, <3>1
            <4>2. a \notin waiting(b) /\ b \notin waiting(a) /\ a # b
                BY <1>6, <1>7, <2>1, <3>1
            <4>3. places[a] = waiting(a) \cup {a} /\ places[b] = waiting(b) \cup {b}
                BY <3>1
            <4> HIDE DEF places
            <4> QED
                BY <4>1, <4>2, <4>3
        <3>2. CASE a \notin breaks
            <4>1. places[a] = {} \/ (places[a] = {a} /\ a \notin inline)
                BY <3>2
            <4>2. a \notin inline => a \notin places[b]
                BY <1>7, <2>1
            <4> QED
                BY <4>1, <4>2
        <3>3. CASE b \notin breaks
            <4>1. places[b] = {} \/ (places[b] = {b} /\ b \notin inline)
                BY <3>3
            <4>2. b \notin inline => b \notin places[a]
                BY <1>7, <2>1
            <4> QED
                BY <4>1, <4>2
        <3> QED
            BY <3>1, <3>2, <3>3
    <2>2. j < k \/ k < j
        BY <1>11
    <2> HIDE DEF places
    <2> QED
        BY <2>1, <2>2
<1>12. /\ Together(places, m) \cup waiting(m + 1) = 1 .. m
       /\ Together(places, m) \in SUBSET (1 .. m) /\ waiting(m + 1) \in SUBSET (1 .. m)
       /\ Together(places, m) \cap waiting(m + 1) = {}
    <2>1. m + 1 \in 1 .. m + 1 /\ \A k \in 1 .. m : k < m + 1 /\ k \in 1 .. m + 1
        BY <1>1
    <2>2. ASSUME NEW i \in 1 .. m PROVE i \in Together(places, m) \cup waiting(m + 1)
        <3>1. CASE i \in inline
            <4>1. PICK k \in breaks \cup {m + 1} : i \in waiting(k)
                BY <1>7, <3>1
            <4>2. CASE k = m + 1
                BY <4>1, <4>2
            <4>3. CASE k \in breaks
                <5>1. k \in 1 .. m /\ i \in places[k]
                    BY <1>6, <4>1, <4>3
                <5> HIDE DEF places
                <5> QED
                    BY <5>1 DEF Together
            <4> QED
                BY <4>1, <4>2, <4>3
        <3>2. CASE i \notin inline
            <4>1. i \in places[i]
                BY <3>2
            <4> HIDE DEF places
            <4> QED
                BY <4>1 DEF Together
        <3> QED
            BY <3>1, <3>2
    <2>3. ASSUME NEW i \in Together(places, m) PROVE i \in 1 .. m /\ i \notin waiting(m + 1)
        <3>1. PICK k \in 1 .. m : i \in places[k]
            BY DEF Together
        <3>2. i \in 1 .. m
            BY <1>9, <3>1
        <3>3. CASE k \in breaks
            <4>1. i \in waiting(k) \/ i \notin inline
                BY <1>6, <3>1, <3>3
            <4>2. waiting(k) \cap waiting(m + 1) = {}
                BY <1>7, <2>1, <3>3
            <4> QED
                BY <1>7, <2>1, <3>2, <4>1, <4>2
        <3>4. CASE k \notin breaks
            <4>1. i \notin inline
                BY <3>1, <3>4
            <4> QED
                BY <1>7, <2>1, <3>2, <4>1
        <3> QED
            BY <3>2, <3>3, <3>4
    <2>4. waiting(m + 1) \in SUBSET (1 .. m)
        BY <1>7, <2>1
    <2> HIDE DEF places
    <2> QED
        BY <2>2, <2>3, <2>4
<1>13. parts = [k \in 1 .. m |-> parts[k]]
    BY <1>1
<1> HIDE DEF parts, places
<1>14. Yields("calls", nodes, w, last, n, FlattenSeq(parts), Together(places, m))
    BY <1>1, <1>9, <1>10, <1>11, <1>13, GivesTogether
<1>15. Yields("calls", nodes, w, last, n, Flush(pending(m + 1), n), waiting(m + 1))
    <2>1. m + 1 \in 1 .. m + 1
        BY <1>1
    <2> QED
        BY <1>8, <2>1
<1> DEFINE some == Together(places, m)
           others == waiting(m + 1)
           s == FlattenSeq(parts)
           t == Flush(pending(m + 1), n)
<1>16. some \cup others = DOMAIN kids /\ some \cap others = {}
       /\ some \in SUBSET DOMAIN kids /\ others \in SUBSET DOMAIN kids
    BY <1>1, <1>12
<1>17. Yields("calls", nodes, w, last, n, s, some) /\ Yields("calls", nodes, w, last, n, t, others)
    BY <1>14, <1>15
<1>18. Walk(nodes, n, text, ofKids) = s \o t
    BY <1>2
<1> HIDE DEF some, others, s, t
<1>19. Yields("calls", nodes, w, last, n, s \o t, some \cup others)
    BY <1>16, <1>17, GivesJoined
<1> QED
    BY <1>16, <1>18, <1>19 DEF text

-----------------------------------------------------------------------------
(* Tables, lists and whole pages.                                           *)

LEMMA PlaceCounted ==
    ASSUME NEW nodes, IsFamily(nodes), NEW w \in Words, NEW table \in DOMAIN nodes,
           NEW row, NEW column
    PROVE  LET shown == ShownThere(nodes, w, table, row, column)
           IN  Counted(w, ShownAt(nodes, table, row, column), shown, shown)
<1> DEFINE placed == Placed(nodes, table)
           here == CellsAt(nodes, table, row, column)
           shown == ShownThere(nodes, w, table, row, column)
           text == IF here = {} THEN <<>> ELSE Texts(nodes, Words)[placed[Min(here)].node]
<1>1. ShownAt(nodes, table, row, column) = IF text = <<>> THEN <<EmptyCell>> ELSE text
    BY DEF ShownAt, CellsAt
<1>2. /\ DOMAIN placed \subseteq Nat
      /\ \A k \in DOMAIN placed : placed[k].node \in DOMAIN nodes
      /\ \A i, j \in DOMAIN placed : i # j =>
            ~(placed[i].row = placed[j].row /\ placed[i].column = placed[j].column)
    BY TableFilled
<1>3. /\ here \in SUBSET DOMAIN placed
      /\ \A k \in here : placed[k].row = row /\ placed[k].column = column
      /\ shown = UNION {Shown(nodes, w, placed[k].node) : k \in here}
    BY DEF CellsAt, ShownThere
<1> HIDE DEF placed, here, shown
<1>4. Counted(w, text, shown, shown)
    <2>1. CASE here = {}
        <3>1. shown = {} /\ text = <<>>
            BY <1>3, <2>1
        <3> HIDE DEF text
        <3> QED
            BY <3>1, CountedFew
    <2>2. CASE here # {}
        <3> DEFINE k == Min(here)
                   n == placed[k].node
        <3>1. k \in here
            BY <1>2, <1>3, <2>2, MinIsLeast
        <3>2. text = Texts(nodes, Words)[n]
            BY <2>2
        <3> HIDE DEF k, text
        <3>3. here = {k}
            BY <1>2, <1>3, <3>1
        <3>4. shown = Shown(nodes, w, n) /\ n \in DOMAIN nodes
            BY <1>2, <1>3, <3>1, <3>3
        <3> HIDE DEF n
        <3> DEFINE among == Words
        <3>5. among \in SUBSET Letters /\ w \in among
            BY DEF Letters
        <3> HIDE DEF among
        <3>6. Counted(w, Texts(nodes, among)[n], Shown(nodes, w, n), Shown(nodes, w, n))
            BY <3>4, <3>5, TextsExact
        <3> QED
            BY <3>2, <3>4, <3>6 DEF among
    <2> QED
        BY <2>1, <2>2
<1>5. ASSUME text = <<>> PROVE Counted(w, <<EmptyCell>>, shown, shown)
    <2>1. EmptyCell # w /\ EmptyCell \in Letters
        BY EmptyCellAssumption DEF Letters
    <2>2. Counted(w, <<EmptyCell>>, {}, {}) /\ Occurrences(<<>>, w) = 0
        BY <2>1, CountedFew, OccurrencesFew
    <2>3. Occurrences(<<EmptyCell>>, w) = 0
        BY <2>1, OccurrencesFew
    <2> HIDE DEF text
    <2> QED
        BY <1>4, <1>5, <2>2, <2>3 DEF Counted
<1> HIDE DEF text
<1>6. Counted(w, IF text = <<>> THEN <<EmptyCell>> ELSE text, shown, shown)
    BY <1>4, <1>5
<1> QED
    BY <1>1, <1>6 DEF shown

\* The grid of a table has each text that is safe in it once.
LEMMA TableCounted ==
    ASSUME NEW nodes, IsFamily(nodes), NEW w \in Words, NEW table \in DOMAIN nodes,
           nodes[table].tag = "table"
    PROVE  Counted(w, HtmlTable(nodes, table), Safe(nodes, w, table), Shown(nodes, w, table))
<1> DEFINE height == TableHeight(nodes, table)
           width == TableWidth(nodes, table)
           shown(row, column) == ShownAt(nodes, table, row, column)
           there(row, column) == ShownThere(nodes, w, table, row, column)
           line(row) == [column \in 1 .. width |-> shown(row, column)]
           sets(row) == [column \in 1 .. width |-> there(row, column)]
           lines == [row \in 1 .. height |-> FlattenSeq(line(row))]
           unions == [row \in 1 .. height |-> Together(sets(row), width)]
           all == UNION {UNION {there(row, column) : column \in 1 .. width} : row \in 1 .. height}
<1>1. HtmlTable(nodes, table) = FlattenSeq(lines)
    BY TableOfPlaces
<1>2. height \in Nat /\ width \in Nat
    BY TableSize DEF IsFamily
<1>3. \A row, column : Counted(w, shown(row, column), there(row, column), there(row, column))
    BY PlaceCounted
<1>4. \A r1, c1, r2, c2 : ~(r1 = r2 /\ c1 = c2) => there(r1, c1) \cap there(r2, c2) = {}
    BY PlacesApart
<1>5. all \subseteq Shown(nodes, w, table) /\ Safe(nodes, w, table) \subseteq all
    BY PlacesTogether
<1> HIDE DEF height, width, shown, there
<1>6. ASSUME NEW row PROVE Counted(w, FlattenSeq(line(row)), Together(sets(row), width),
                                   Together(sets(row), width))
    <2> DEFINE parts == line(row)
               most == sets(row)
    <2>1. /\ parts = [k \in 1 .. width |-> parts[k]]
          /\ \A k \in 1 .. width : Counted(w, parts[k], most[k], most[k])
          /\ \A j, k \in 1 .. width : j # k => most[j] \cap most[k] = {}
        BY <1>3, <1>4
    <2> HIDE DEF parts, most
    <2>2. AreParts("text", w, 0, parts, most, most, width)
        BY <2>1 DEF AreParts
    <2>3. Counted(w, FlattenSeq(parts), Together(most, width), Together(most, width))
        BY <1>2, <2>2, TextsCounted
    <2> QED
        BY <2>3 DEF parts, most
<1>7. \A row : Together(sets(row), width) = UNION {there(row, column) : column \in 1 .. width}
    BY DEF Together
<1>8. \A r1, r2 : r1 # r2 => Together(sets(r1), width) \cap Together(sets(r2), width) = {}
    <2> DEFINE of(row) == Together(sets(row), width)
    <2>1. \A row : of(row) = UNION {there(row, column) : column \in 1 .. width}
        BY <1>7
    <2> HIDE DEF of
    <2>2. ASSUME NEW r1, NEW r2, r1 # r2, NEW x \in of(r1), x \in of(r2) PROVE FALSE
        <3>1. PICK c1 \in 1 .. width : x \in there(r1, c1)
            BY <2>1
        <3>2. PICK c2 \in 1 .. width : x \in there(r2, c2)
            BY <2>1, <2>2
        <3> QED
            BY <1>4, <2>2, <3>1, <3>2
    <2>3. \A r1, r2 : r1 # r2 => of(r1) \cap of(r2) = {}
        BY <2>2
    <2> QED
        BY <2>3 DEF of
<1> HIDE DEF line, sets
<1>9. Counted(w, FlattenSeq(lines), Together(unions, height), Together(unions, height))
    <2>1. /\ lines = [k \in 1 .. height |-> lines[k]]
          /\ \A k \in 1 .. height : Counted(w, lines[k], unions[k], unions[k])
          /\ \A j, k \in 1 .. height : j # k => unions[j] \cap unions[k] = {}
        BY <1>6, <1>8
    <2> HIDE DEF lines, unions
    <2>2. AreParts("text", w, 0, lines, unions, unions, height)
        BY <2>1 DEF AreParts
    <2> QED
        BY <1>2, <2>2, TextsCounted
<1>10. Together(unions, height) = all
    <2> DEFINE of(row) == UNION {there(row, column) : column \in 1 .. width}
    <2>1. unions = [row \in 1 .. height |-> of(row)]
        BY <1>7
    <2> HIDE DEF unions, of
    <2>2. Together(unions, height) = UNION {of(row) : row \in 1 .. height}
        BY <2>1 DEF Together
    <2> QED
        BY <2>2 DEF of
<1> HIDE DEF lines, unions, all
<1>11. Safe(nodes, w, table) \subseteq Together(unions, height)
       /\ Together(unions, height) \subseteq Shown(nodes, w, table)
       /\ IsFiniteSet(Shown(nodes, w, table))
    BY <1>5, <1>10, ShownFinite DEF IsFamily
<1> QED
    BY <1>1, <1>9, <1>11, CountedWider

\* What a node gives of all its children is what is shown under it.
LEMMA GivesAll ==
    ASSUME NEW nodes, IsFamily(nodes), NEW w, NEW last, NEW n \in DOMAIN nodes,
           nodes[n].tag \notin DroppedTags \cup {"#text"},
           NEW calls, Yields("calls", nodes, w, last, n, calls, DOMAIN nodes[n].kids)
    PROVE  AreCounted(w, last, calls, Safe(nodes, w, n), Shown(nodes, w, n))
<1> DEFINE places == DOMAIN nodes[n].kids
<1>1. /\ AreCounted(w, last, calls, SafeIn(nodes, w, n, places), ShownIn(nodes, w, n, places))
      /\ Shown(nodes, w, n) = ShownIn(nodes, w, n, places)
      /\ Safe(nodes, w, n) \subseteq SafeIn(nodes, w, n, places)
    BY ShownSplit DEF Yields
<1>2. IsFiniteSet(Shown(nodes, w, n))
    BY ShownFinite DEF IsFamily
<1> HIDE DEF places
<1> QED
    BY <1>1, <1>2, CountedWider DEF AreCounted

\* A call with all that is shown, or all that is safe, under a node.
LEMMA CallOfNode ==
    ASSUME NEW nodes, IsFamily(nodes), NEW w, NEW last, NEW n \in DOMAIN nodes,
           NEW type \in BlockTypes \ {"HEADING"}, NEW text, NEW at,
           NEW least, Safe(nodes, w, n) \subseteq least,
           Counted(w, text, least, Shown(nodes, w, n))
    PROVE  AreCounted(w, last, <<Call(type, 0, text, at)>>, Safe(nodes, w, n), Shown(nodes, w, n))
<1>1. Counted(w, text, Safe(nodes, w, n), Shown(nodes, w, n)) /\ text \in Seq(Letters)
    BY CountedWider DEF Counted
<1>2. AreCalls(<<Call(type, 0, text, at)>>, Letters, last)
    BY <1>1, OtherCall
<1> QED
    BY <1>1, <1>2, OneCallCounted

LEMMA ItemGives ==
    ASSUME NEW nodes, IsFamily(nodes), NEW w \in Words, NEW last, NEW n \in DOMAIN nodes,
           NEW ofKids,
           \A k \in DOMAIN nodes[n].kids :
               nodes[nodes[n].kids[k]].tag \notin DroppedTags \cup {"#text"} =>
                   Yields("calls", nodes, w, last, n, ofKids[k], {k})
    PROVE  Yields("calls", nodes, w, last, n, ItemCalls(nodes, n, Texts(nodes, Words), ofKids),
                 DOMAIN nodes[n].kids)
<1> DEFINE kids == nodes[n].kids
           c == Len(kids)
           text == Texts(nodes, Words)
           some == {k \in DOMAIN kids : ~IsBlockChild(nodes[kids[k]])}
           others == {k \in DOMAIN kids : IsBlockChild(nodes[kids[k]])}
           owns == [k \in DOMAIN kids |->
                       IF IsBlockChild(nodes[kids[k]]) THEN <<>> ELSE text[kids[k]]]
           parts == [k \in DOMAIN kids |->
                        IF IsBlockChild(nodes[kids[k]]) THEN ofKids[k] ELSE <<>>]
           own == FlattenSeq(owns)
           said == IF own = <<>> THEN <<>> ELSE <<Call("LIST_ITEM", 0, own, n)>>
<1>1. c \in Nat /\ DOMAIN kids = 1 .. c
    BY KidsAreNodes DEF IsFamily
<1>2. ItemCalls(nodes, n, text, ofKids) = said \o FlattenSeq(parts)
    BY DEF ItemCalls
<1>3. \A k \in 1 .. c : Yields("text", nodes, w, last, n, text[kids[k]], {k})
    BY <1>1, KidGivesText
<1>4. \A k \in others : Yields("calls", nodes, w, last, n, ofKids[k], {k})
    <2>1. \A k \in others : nodes[kids[k]].tag \notin DroppedTags \cup {"#text"}
        BY DEF IsBlockChild, ListTags, DroppedTags
    <2> QED
        BY <2>1
<1> HIDE DEF text
<1>5. /\ some \in SUBSET (1 .. c) /\ others \in SUBSET (1 .. c) /\ some \cap others = {}
      /\ some \cup others = 1 .. c
      /\ owns = [k \in 1 .. c |-> owns[k]] /\ parts = [k \in 1 .. c |-> parts[k]]
    BY <1>1
<1>6. \A k \in 1 .. c : IF k \in some THEN Yields("text", nodes, w, last, n, owns[k], {k})
                        ELSE owns[k] = <<>>
    BY <1>1, <1>3
<1>7. \A k \in 1 .. c : IF k \in others THEN Yields("calls", nodes, w, last, n, parts[k], {k})
                        ELSE parts[k] = <<>>
    BY <1>1, <1>4
<1> HIDE DEF owns, parts, some, others, c
<1>8. Yields("text", nodes, w, last, n, FlattenSeq(owns), some)
    BY <1>1, <1>5, <1>6, GivesSome
<1>9. Yields("calls", nodes, w, last, n, FlattenSeq(parts), others)
    BY <1>1, <1>5, <1>7, GivesSome
<1> HIDE DEF own
<1>10. Yields("calls", nodes, w, last, n, said, some)
    <2>1. Yields("text", nodes, w, last, n, own, some)
        BY <1>8 DEF own
    <2>2. "LIST_ITEM" \in BlockTypes \ {"HEADING"}
        BY DEF BlockTypes
    <2> QED
        BY <2>1, <2>2, GivesCallUnlessEmpty
<1> HIDE DEF said
<1> DEFINE flat == FlattenSeq(parts)
<1> HIDE DEF flat
<1>11. Yields("calls", nodes, w, last, n, said \o flat, some \cup others)
    <2>1. Yields("calls", nodes, w, last, n, flat, others)
        BY <1>9 DEF flat
    <2> QED
        BY <1>1, <1>5, <1>10, <2>1, GivesJoined
<1> QED
    BY <1>1, <1>2, <1>5, <1>11 DEF text, flat

\* What is made of all the text of the children of a node.
LEMMA AllGives ==
    ASSUME NEW nodes, IsFamily(nodes), NEW w \in Words, NEW last, NEW n \in DOMAIN nodes
    PROVE  LET kids == nodes[n].kids
               all == FlattenSeq([k \in DOMAIN kids |-> Texts(nodes, Words)[kids[k]]])
           IN  all \in Seq(Words) /\ Yields("text", nodes, w, last, n, all, DOMAIN kids)
<1> DEFINE kids == nodes[n].kids
           c == Len(kids)
           text == Texts(nodes, Words)
           texts == [k \in DOMAIN kids |-> text[kids[k]]]
           places == DOMAIN kids
<1>1. AreNodes(nodes)
    BY DEF IsFamily
<1>2. c \in Nat /\ places = 1 .. c /\ \A k \in 1 .. c : kids[k] \in DOMAIN nodes
    BY <1>1, KidsAreNodes
<1>3. \A k \in 1 .. c : Yields("text", nodes, w, last, n, text[kids[k]], {k})
    BY <1>2, KidGivesText
<1>4. \A k \in 1 .. c : text[kids[k]] \in Seq(Words)
    BY <1>1, <1>2, TextsTyped
<1> HIDE DEF text
<1>5. /\ texts = [k \in 1 .. c |-> texts[k]]
      /\ \A k \in 1 .. c : texts[k] \in Seq(Words)
      /\ \A k \in 1 .. c : IF k \in places THEN Yields("text", nodes, w, last, n, texts[k], {k})
                           ELSE texts[k] = <<>>
    BY <1>2, <1>3, <1>4
<1>6. places \in SUBSET DOMAIN nodes[n].kids /\ places \in SUBSET (1 .. c)
    BY <1>2
<1> HIDE DEF texts, places, c
<1>7. FlattenSeq(texts) \in Seq(Words)
    BY <1>2, <1>5, TextsFlattened
<1>8. Yields("text", nodes, w, last, n, FlattenSeq(texts), places)
    BY <1>2, <1>5, <1>6, GivesSome
<1> QED
    BY <1>7, <1>8 DEF texts, text, places

LEMMA HeadingCall ==
    ASSUME NEW last, NEW words \in Seq(Words), NEW level \in Nat \ {0}, NEW at \in 1 .. last
    PROVE  AreCalls(<<Call("HEADING", level, words, at)>>, Letters, last)
<1> DEFINE call == Call("HEADING", level, words, at)
<1>1. words \in Seq(Letters) /\ words \in Seq(Words \cup {Blank})
    BY SeqGrows DEF Letters
<1>2. /\ call.type = "HEADING" /\ call.level = level /\ call.text = words /\ call.at = at
    BY DEF Call
<1>3. call.type \in BlockTypes
    BY <1>2 DEF BlockTypes
<1> HIDE DEF call
<1>4. IsCall(call, Letters, last)
    BY <1>1, <1>2, <1>3 DEF IsCall
<1>5. AreCalls(<<call>>, Letters, last)
    BY <1>4, OneCall
<1> QED
    BY <1>5 DEF call

\* The calls for a node say all that is safe under it, and no more than is shown.
LEMMA EmitGives ==
    ASSUME NEW nodes, IsFamily(nodes), NEW w \in Words,
           NEW last \in Nat, Len(nodes) <= last, NEW n \in DOMAIN nodes,
           nodes[n].tag \notin DroppedTags \cup {"#text"}, NEW ofKids,
           \A k \in DOMAIN nodes[n].kids :
               nodes[nodes[n].kids[k]].tag \notin DroppedTags \cup {"#text"} =>
                   Yields("calls", nodes, w, last, n, ofKids[k], {k})
    PROVE  AreCounted(w, last, Emit(nodes, n, Texts(nodes, Words), ofKids),
                      Safe(nodes, w, n), Shown(nodes, w, n))
<1> DEFINE tag == nodes[n].tag
           kids == nodes[n].kids
           places == DOMAIN kids
           text == Texts(nodes, Words)
           all == FlattenSeq([k \in DOMAIN kids |-> text[kids[k]]])
           raw == Texts(nodes, Words \cup {Blank})[n]
           item == ItemCalls(nodes, n, text, ofKids)
           walk == Walk(nodes, n, text, ofKids)
           Says(calls) == AreCounted(w, last, calls, Safe(nodes, w, n), Shown(nodes, w, n))
<1>1. AreNodes(nodes)
    BY DEF IsFamily
<1>2. n \in 1 .. last
    BY <1>1, KidsAreNodes
<1>3. all \in Seq(Words) /\ Yields("text", nodes, w, last, n, all, places)
    BY AllGives
<1>4. Yields("calls", nodes, w, last, n, item, places)
    BY ItemGives
<1>5. Yields("calls", nodes, w, last, n, walk, places)
    BY WalkGives
<1>6. Emit(nodes, n, text, ofKids) =
          CASE tag \in DOMAIN HeadingTags -> <<Call("HEADING", HeadingTags[tag], all, n)>>
            [] tag \in ParagraphTags -> <<Call("PARAGRAPH", 0, all, n)>>
            [] tag = "blockquote" -> <<Call("QUOTE", 0, all, n)>>
            [] tag = "pre" -> <<Call("CODE", 0, raw, n)>>
            [] tag = "li" -> item
            [] tag = "table" -> <<Call("TABLE", 0, HtmlTable(nodes, n), n)>>
            [] tag = "hr" -> <<>>
            [] OTHER -> walk
    BY DEF Emit, ItemCalls
<1>7. \A calls : Yields("calls", nodes, w, last, n, calls, places) => Says(calls)
    BY GivesAll
<1>8. /\ "PARAGRAPH" \in BlockTypes \ {"HEADING"} /\ "QUOTE" \in BlockTypes \ {"HEADING"}
      /\ "CODE" \in BlockTypes \ {"HEADING"} /\ "TABLE" \in BlockTypes \ {"HEADING"}
    BY DEF BlockTypes
<1>9. IsFiniteSet(Shown(nodes, w, n)) /\ Safe(nodes, w, n) \subseteq Shown(nodes, w, n)
    BY <1>1, ShownFinite
<1> HIDE DEF all, item, walk, Says
<1>10. ASSUME NEW type, NEW level, AreCalls(<<Call(type, level, all, n)>>, Letters, last)
       PROVE  Says(<<Call(type, level, all, n)>>)
    <2> HIDE DEF places
    <2>1. Yields("calls", nodes, w, last, n, <<Call(type, level, all, n)>>, places)
        BY <1>3, <1>10, GivesCall
    <2> QED
        BY <1>7, <2>1
<1>11. ASSUME NEW type \in BlockTypes \ {"HEADING"} PROVE Says(<<Call(type, 0, all, n)>>)
    <2>1. all \in Seq(Letters)
        BY <1>3, SeqGrows DEF Letters
    <2>2. AreCalls(<<Call(type, 0, all, n)>>, Letters, last)
        BY <2>1, OtherCall
    <2> QED
        BY <1>10, <2>2
<1>12. ASSUME tag \in DOMAIN HeadingTags
       PROVE  Says(<<Call("HEADING", HeadingTags[tag], all, n)>>)
    <2> DEFINE level == HeadingTags[tag]
    <2>1. level \in Nat \ {0}
        BY <1>12 DEF HeadingTags
    <2> HIDE DEF level
    <2>2. AreCalls(<<Call("HEADING", level, all, n)>>, Letters, last)
        BY <1>2, <1>3, <2>1, HeadingCall
    <2>3. Says(<<Call("HEADING", level, all, n)>>)
        BY <1>10, <2>2
    <2> QED
        BY <2>3 DEF level
<1>13. Says(<<Call("CODE", 0, raw, n)>>)
    <2> DEFINE among == Words \cup {Blank}
    <2>1. among \in SUBSET Letters /\ w \in among
        BY DEF Letters
    <2> HIDE DEF among
    <2>2. Counted(w, Texts(nodes, among)[n], Shown(nodes, w, n), Shown(nodes, w, n))
        BY <2>1, TextsExact
    <2>3. Counted(w, raw, Shown(nodes, w, n), Shown(nodes, w, n))
        BY <2>2 DEF among
    <2> HIDE DEF raw
    <2> QED
        BY <1>8, <1>9, <2>3, CallOfNode DEF Says
<1>14. ASSUME tag = "table" PROVE Says(<<Call("TABLE", 0, HtmlTable(nodes, n), n)>>)
    <2>1. Counted(w, HtmlTable(nodes, n), Safe(nodes, w, n), Shown(nodes, w, n))
        BY <1>14, TableCounted
    <2> QED
        BY <1>8, <2>1, CallOfNode DEF Says
<1>15. ASSUME tag = "hr" PROVE Says(<<>>)
    <2>1. places = {}
        BY <1>15 DEF IsFamily, Childless, VoidTags
    <2>2. Yields("calls", nodes, w, last, n, <<>>, places)
        BY <2>1, GivesNothing
    <2> QED
        BY <1>7, <2>2
<1>16. Says(item) /\ Says(walk)
    BY <1>4, <1>5, <1>7
<1> HIDE DEF tag
<1>17. Says(Emit(nodes, n, text, ofKids))
    BY <1>6, <1>8, <1>11, <1>12, <1>13, <1>14, <1>15, <1>16
<1> QED
    BY <1>17 DEF Says, text

\* The calls for a page say all that is safe in it, and no more than is shown.
LEMMA PageCounted ==
    ASSUME NEW nodes, IsFamily(nodes), NEW w \in Words, NEW last \in Nat, Len(nodes) <= last
    PROVE  AreCounted(w, last, Calls(nodes), Safe(nodes, w, 1), Shown(nodes, w, 1))
<1>1. AreNodes(nodes) /\ nodes # <<>> /\ nodes[1].tag \notin DroppedTags \cup {"#text"}
    BY DEF IsFamily, DroppedTags
<1>2. PICK emit :
          /\ Calls(nodes) = emit[1]
          /\ \A m \in DOMAIN nodes :
                emit[m] = Emit(nodes, m, Texts(nodes, Words), OfKids(emit, nodes, m))
    BY <1>1, CallsGiven
<1> DEFINE T == {m \in DOMAIN nodes :
                    nodes[m].tag \notin DroppedTags \cup {"#text"} =>
                        AreCounted(w, last, emit[m], Safe(nodes, w, m), Shown(nodes, w, m))}
<1>3. ASSUME NEW m \in DOMAIN nodes, \A k \in DOMAIN nodes[m].kids : nodes[m].kids[k] \in T
      PROVE  m \in T
    <2> SUFFICES ASSUME nodes[m].tag \notin DroppedTags \cup {"#text"}
                 PROVE  AreCounted(w, last, emit[m], Safe(nodes, w, m), Shown(nodes, w, m))
        OBVIOUS
    <2> DEFINE ofKids == OfKids(emit, nodes, m)
    <2>1. ASSUME NEW k \in DOMAIN nodes[m].kids,
                 nodes[nodes[m].kids[k]].tag \notin DroppedTags \cup {"#text"}
          PROVE  Yields("calls", nodes, w, last, m, ofKids[k], {k})
        <3> DEFINE kid == nodes[m].kids[k]
        <3>1. ofKids[k] = emit[kid]
            BY DEF OfKids
        <3>2. AreCounted(w, last, emit[kid], Safe(nodes, w, kid), Shown(nodes, w, kid))
            BY <1>3, <2>1
        <3> HIDE DEF ofKids
        <3> QED
            BY <3>1, <3>2, GivesChild
    <2>2. emit[m] = Emit(nodes, m, Texts(nodes, Words), ofKids)
        BY <1>2
    <2> HIDE DEF ofKids
    <2>3. AreCounted(w, last, Emit(nodes, m, Texts(nodes, Words), ofKids),
                     Safe(nodes, w, m), Shown(nodes, w, m))
        BY <2>1, EmitGives
    <2> QED
        BY <2>2, <2>3
<1> HIDE DEF T
<1>4. DOMAIN nodes \subseteq T
    BY <1>1, <1>3, FromTheLeaves
<1>5. 1 \in DOMAIN nodes
    BY <1>1, LenProperties, EmptySeq DEF AreNodes
<1> QED
    BY <1>1, <1>2, <1>4, <1>5 DEF T

\* While a page is parsed its tree grows and there is no block; once the tree is
\* walked the blocks say what the calls for it do.
HtmlInv ==
    Loading({"html"}) =>
        /\ content \in Seq(Events)
        /\ index \in 1 .. Len(content) + 2
        /\ IsGrown(tree)
        /\ index <= Len(content) + 1 => builder.blocks = <<>>
        /\ index = Len(content) + 2 =>
              Inked(Spoken(builder.blocks)) = Inked(Spoken(Calls(tree.nodes)))

\* The parser takes an event, or the tree is walked.
LEMMA HtmlInvReads ==
    ASSUME OutlineInv, HtmlInv, Loading({"html"}), ReadHtml, outcome' = "loading",
           content' = content
    PROVE  HtmlInv'
<1>1. /\ content \in Seq(Events) /\ index \in 1 .. Len(content) + 2 /\ IsGrown(tree)
      /\ index <= Len(content) + 1 => builder.blocks = <<>>
    BY DEF HtmlInv
<1>2. Len(content) \in Nat
    BY <1>1, LenProperties
<1>3. ASSUME NEW t, IsGrown(t), Parsed(t), index <= Len(content) PROVE HtmlInv'
    <2>1. tree' = t /\ builder' = builder /\ index' = index + 1 /\ builder.blocks = <<>>
        BY <1>1, <1>2, <1>3 DEF Parsed, Extract
    <2>2. index' \in 1 .. Len(content) + 2 /\ index' # Len(content) + 2
        BY <1>1, <1>2, <1>3, <2>1
    <2>3. (IsGrown(tree))'
        BY <1>3, <2>1
    <2>4. (builder.blocks = <<>>)'
        BY <2>1
    <2> QED
        BY <1>1, <2>2, <2>3, <2>4 DEF HtmlInv
<1>4. ASSUME NEW kinds, NextEvent(kinds)
      PROVE  content[index] \in Events /\ content[index].do \in kinds /\ index <= Len(content)
    <2>1. index \in 1 .. Len(content)
        BY <1>1, <1>2, <1>4 DEF NextEvent
    <2> QED
        BY <1>1, <1>4, <2>1, ElementOfSeq DEF NextEvent
<1>5. ASSUME Refuse("ExtractionError") PROVE FALSE
    BY <1>5 DEF Refuse
<1>6. CASE HtmlStart
    <2> DEFINE event == content[index]
               started == StartTag(tree, event)
    <2>1. event \in Events /\ event.do \in {"start", "startend"} /\ index <= Len(content)
        BY <1>4, <1>6 DEF HtmlStart
    <2>2. event.tag \in STRING /\ event.tag # "#text" /\ event.across \in Nat /\ event.down \in Nat
        <3>1. event \notin [do : {"data"}, word : Words \cup {Blank}]
            BY <2>1
        <3>2. event \notin [do : {"fault"}]
            BY <2>1
        <3>3. event \in [do : {"start", "end", "startend"}, tag : STRING \ {"#text"},
                         across : Nat, down : Nat]
            BY <2>1, <3>1, <3>2 DEF Events
        <3> HIDE DEF event
        <3> QED
            BY <3>3
    <2>3. IsGrown(started)
        BY <1>1, <2>2, GrownByStart
    <2>4. IsGrown(EndTag(started, event.tag))
        BY <2>3, GrownByEnd
    <2>5. Parsed(IF event.do = "startend" /\ event.tag \notin VoidTags
                 THEN EndTag(started, event.tag) ELSE started)
        BY <1>5, <1>6 DEF HtmlStart
    <2> HIDE DEF event, started
    <2> QED
        BY <1>3, <2>1, <2>3, <2>4, <2>5
<1>7. CASE HtmlEnd
    <2>1. IsGrown(EndTag(tree, content[index].tag))
        BY <1>1, GrownByEnd
    <2> QED
        BY <1>3, <1>4, <1>7, <2>1 DEF HtmlEnd
<1>8. CASE HtmlData
    <2> DEFINE node == [Root EXCEPT !.tag = "#text", !.word = content[index].word]
    <2>1. content[index].word \in Words \cup {Blank}
        <3>1. content[index] \in Events /\ content[index].do = "data"
            BY <1>4, <1>8 DEF HtmlData
        <3>2. content[index] \in [do : {"data"}, word : Words \cup {Blank}]
            BY <3>1 DEF Events
        <3> QED
            BY <3>2
    <2>2. /\ node \in HtmlNodes /\ node.kids = <<>>
          /\ node.across \in Nat \ {0} /\ node.down \in Nat \ {0}
        <3>1. node \in HtmlNodes /\ node.kids = <<>>
            BY <2>1, EmptySeq DEF Root, HtmlNodes
        <3>2. node.across = 1 /\ node.down = 1
            BY DEF Root
        <3> QED
            BY <3>1, <3>2
    <2>3. Parsed(WithNode(tree, node)) /\ index <= Len(content)
        BY <1>4, <1>8 DEF HtmlData
    <2> HIDE DEF node
    <2>4. IsGrown(WithNode(tree, node))
        BY <1>1, <2>2, GrownByNode
    <2> QED
        BY <1>3, <2>3, <2>4
<1>9. CASE HtmlFault
    BY <1>5, <1>9 DEF HtmlFault
<1>10. CASE HtmlWalk
    <2> DEFINE calls == Calls(tree.nodes)
    <2>1. /\ index = Len(content) + 1 /\ builder' = AddCalls(builder, calls)
          /\ index' = index + 1 /\ tree' = tree
        BY <1>10 DEF HtmlWalk, Extract
    <2>2. /\ AreNodes(tree.nodes) /\ tree.nodes # <<>> /\ Len(tree.nodes) <= index + 1
          /\ index + 1 \in Nat /\ index + 1 > index
        <3>1. Len(tree.nodes) \in Nat /\ Len(tree.nodes) <= index /\ index \in Nat
            BY LenProperties DEF OutlineInv, WellTree
        <3>2. AreNodes(tree.nodes) /\ tree.nodes # <<>>
            BY <1>1 DEF IsGrown, IsFamily
        <3> QED
            BY <3>1, <3>2
    <2>3. AreCalls(calls, Letters, index + 1)
        BY <2>2, PageCalls
    <2>4. Reads(calls, index + 1)
        BY <1>10, <2>2, <2>3 DEF Reads, HtmlWalk, Alphabet, Loading
    <2>5. Spoken(calls) \in Seq(Letters)
        BY <2>3, CallsSpoken
    <2> HIDE DEF calls
    <2>6. Inked(Spoken(builder'.blocks)) = Inked(Spoken(builder.blocks)) \o Inked(Spoken(calls))
        BY <2>1, <2>4, CallsSay
    <2>7. Inked(Spoken(builder.blocks)) = <<>>
        BY <1>1, <1>2, <2>1, SpokenOfNothing, InkedOfNothing
    <2> DEFINE said == Inked(Spoken(calls))
    <2>8. said \in Seq(Letters)
        BY <2>5, InkedIsSeq
    <2>9. <<>> \o said = said
        BY <2>8, ConcatEmptySeq
    <2>10. Inked(Spoken(builder'.blocks)) = said
        BY <2>6, <2>7, <2>9
    <2>11. index' = Len(content) + 2 /\ index' \in 1 .. Len(content) + 2
           /\ ~(index' <= Len(content) + 1)
        BY <1>2, <2>1
    <2>12. IsGrown(tree)' /\ Calls(tree.nodes)' = calls
        BY <1>1, <2>1 DEF calls
    <2> QED
        BY <1>1, <2>10, <2>11, <2>12 DEF HtmlInv
<1> QED
    BY <1>6, <1>7, <1>8, <1>9, <1>10 DEF ReadHtml

LEMMA HtmlInvStep ==
    VouchedInv /\ OutlineInv /\ HtmlInv /\ [Next]_vars => HtmlInv'
<1> SUFFICES ASSUME VouchedInv, OutlineInv, HtmlInv, [Next]_vars, Loading({"html"})'
             PROVE  HtmlInv'
    BY DEF HtmlInv
<1>1. outcome' = "loading" /\ Format' = "html" /\ Format = "html"
    BY LoadingSteps DEF Loading
<1>2. CASE Accepted
    <2>1. content' \in Seq(Events)
        BY <1>1, <1>2, HtmlAssumption DEF Accepted
    <2>2. index' = 1 /\ builder'.blocks = <<>> /\ tree' = NoTree
        BY <1>2, OpenedSays DEF Accepted
    <2>3. Len(content') \in Nat
        BY <2>1, LenProperties
    <2>4. index' \in 1 .. Len(content') + 2 /\ index' # Len(content') + 2
        BY <2>2, <2>3
    <2>5. IsGrown(tree)'
        BY <2>2, NoTreeIsGrown
    <2> QED
        BY <2>1, <2>2, <2>4, <2>5 DEF HtmlInv
<1>3. CASE Stays
    <2>1. Loading({"html"})
        BY <1>1, <1>3 DEF Stays, Loading
    <2>2. builder' = builder /\ index' = index /\ content' = content /\ tree' = tree
        BY <1>3 DEF Stays
    <2> QED
        BY <2>1, <2>2 DEF HtmlInv
<1>4. CASE outcome = "loading" /\ content' = content /\ ReadsOn
    <2>1. Loading({"html"}) /\ ReadHtml
        BY <1>1, <1>4 DEF ReadsOn, Loading
    <2> QED
        BY <1>1, <1>4, <2>1, HtmlInvReads
<1> QED
    BY <1>1, <1>2, <1>3, <1>4, LoadingSteps

\* What HtmlKept calls seen and safe is shown and safe under the document.
LEMMA SeenIsShown ==
    ASSUME NEW nodes, IsFamily(nodes), NEW w
    PROVE  LET seen == {n \in TextNodes(nodes) : ~IsWithin(nodes, n, DroppedTags)}
               safe == {n \in seen : IsInCells(nodes, n)}
           IN  /\ {n \in seen : nodes[n].word = w} = Shown(nodes, w, 1)
               /\ {n \in safe : nodes[n].word = w} = Safe(nodes, w, 1)
<1> DEFINE seen == {n \in TextNodes(nodes) : ~IsWithin(nodes, n, DroppedTags)}
           safe == {n \in seen : IsInCells(nodes, n)}
<1>1. ASSUME NEW n \in DOMAIN nodes
      PROVE  Holds(nodes, 1, n) /\ \A m \in Above(nodes)[n] : m >= 1
    <2>1. n \in Nat
        BY LenProperties DEF IsFamily, AreNodes
    <2> QED
        BY <2>1, AboveOrdered DEF Holds
<1>2. ASSUME NEW n \in DOMAIN nodes
      PROVE  /\ IsWithin(nodes, n, DroppedTags) <=>
                    ~ \A m \in Above(nodes)[n] : m >= 1 => nodes[m].tag \notin DroppedTags
             /\ IsInCells(nodes, n) <=>
                    \A t \in Above(nodes)[n] :
                        t >= 1 /\ nodes[t].tag = "table" => IsInCell(nodes, t, n)
    <2>1. IsWithin(nodes, n, DroppedTags) <=>
              ~ \A m \in Above(nodes)[n] : m >= 1 => nodes[m].tag \notin DroppedTags
        BY <1>1 DEF IsWithin
    <2>2. IsInCells(nodes, n) <=>
              \A t \in Above(nodes)[n] : nodes[t].tag = "table" => IsInCell(nodes, t, n)
        BY DEF IsInCells, IsInCell
    <2> QED
        BY <1>1, <2>1, <2>2
<1>3. {n \in seen : nodes[n].word = w} = Shown(nodes, w, 1)
    BY <1>1, <1>2 DEF Shown, TextNodes
<1>4. {n \in safe : nodes[n].word = w} = Safe(nodes, w, 1)
    BY <1>1, <1>2 DEF Safe, Shown, TextNodes
<1> QED
    BY <1>3, <1>4

\* Text of a page is lost only within a dropped element, or in a table outside its
\* cells, and none is doubled, however its elements are nested, closed or spanned.
THEOREM HtmlAlwaysKept == Spec => [](Loading({"html"}) => HtmlKept)
<1>1. Init => HtmlInv
    BY DEF Init, HtmlInv, Loading
<1>2. (VouchedInv /\ OutlineInv) /\ HtmlInv /\ [Next]_vars => HtmlInv'
    BY HtmlInvStep
<1>3. (VouchedInv /\ OutlineInv) /\ HtmlInv => (Loading({"html"}) => HtmlKept)
    <2> SUFFICES ASSUME OutlineInv, HtmlInv, Loading({"html"}), HtmlRead, NEW word \in Words
                 PROVE  LET nodes == tree.nodes
                            said == FlattenSeq([k \in DOMAIN builder.blocks |->
                                                   builder.blocks[k].text])
                            seen == {n \in TextNodes(nodes) : ~IsWithin(nodes, n, DroppedTags)}
                            safe == {n \in seen : IsInCells(nodes, n)}
                        IN  /\ Cardinality({n \in safe : nodes[n].word = word})
                                   <= Occurrences(said, word)
                            /\ Occurrences(said, word)
                                   <= Cardinality({n \in seen : nodes[n].word = word})
        BY DEF HtmlKept
    <2> DEFINE nodes == tree.nodes
               said == Spoken(builder.blocks)
               calls == Calls(nodes)
               last == Len(nodes)
    <2>1. IsFamily(nodes) /\ Inked(said) = Inked(Spoken(calls))
        BY DEF HtmlInv, HtmlRead, IsGrown
    <2>2. last \in Nat /\ last <= last
        BY <2>1, LenProperties DEF IsFamily, AreNodes
    <2> HIDE DEF nodes, last
    <2>3. AreCounted(word, last, calls, Safe(nodes, word, 1), Shown(nodes, word, 1))
        BY <2>1, <2>2, PageCounted DEF last
    <2>4. /\ Cardinality(Safe(nodes, word, 1)) <= Occurrences(Spoken(calls), word)
          /\ Occurrences(Spoken(calls), word) <= Cardinality(Shown(nodes, word, 1))
          /\ Spoken(calls) \in Seq(Letters)
        BY <2>3 DEF AreCounted, Counted
    <2>5. said \in Seq(Letters)
        BY SpokenTyped DEF OutlineInv, Alphabet, Loading
    <2> HIDE DEF said, calls
    <2>6. Occurrences(said, word) = Occurrences(Spoken(calls), word)
        <3>1. Occurrences(Inked(said), word) = Occurrences(said, word)
            BY <2>5, OccurrencesInked
        <3>2. Occurrences(Inked(Spoken(calls)), word) = Occurrences(Spoken(calls), word)
            BY <2>4, OccurrencesInked
        <3> QED
            BY <2>1, <3>1, <3>2
    <2> DEFINE seen == {n \in TextNodes(nodes) : ~IsWithin(nodes, n, DroppedTags)}
               safe == {n \in seen : IsInCells(nodes, n)}
    <2>7. /\ {n \in seen : nodes[n].word = word} = Shown(nodes, word, 1)
          /\ {n \in safe : nodes[n].word = word} = Safe(nodes, word, 1)
        BY <2>1, SeenIsShown
    <2>8. /\ Cardinality({n \in safe : nodes[n].word = word}) <= Occurrences(said, word)
          /\ Occurrences(said, word) <= Cardinality({n \in seen : nodes[n].word = word})
        BY <2>4, <2>6, <2>7
    <2>9. said = FlattenSeq([k \in DOMAIN builder.blocks |-> builder.blocks[k].text])
        BY DEF said, Spoken
    <2> HIDE DEF seen, safe
    <2> QED
        BY <2>8, <2>9 DEF seen, safe, nodes
<1> QED
    BY <1>1, <1>2, <1>3, OutlineAlways, PTL DEF Spec

\* From the file to the blocks no loader loses or doubles what it does not leave
\* out on purpose.
THEOREM NothingEverLost == Spec => []NothingLost
<1>1. /\ Loading({"md", "txt"}) => MarkdownKept
      /\ Loading({"html"}) => HtmlKept
      /\ Loading({"docx"}) => DocxKept
      /\ Loading({"pdf"}) => PdfKept
      /\ Loading({"xlsx"}) => XlsxValuesKept
      => NothingLost
    BY DEF NothingLost
<1> QED
    BY <1>1, MarkdownAlwaysKept, HtmlAlwaysKept, DocxAlwaysKept, PdfAlwaysKept, XlsxAlwaysKept, PTL

==============================================================================
