---------------------------- MODULE UploadValidation ----------------------------
(***************************************************************************)
(* validate_upload (sources/upload.py), the boundary before the loaders.   *)
(*                                                                         *)
(* An upload is what the checks look at: the size and the first bytes, the *)
(* extension of its name, the entries of the archive when it is one, what  *)
(* is found in the bytes, the scanner's verdict and whether a content type *)
(* was declared.                                                           *)
(***************************************************************************)
EXTENDS Naturals, SequencesExt

CONSTANTS
    MaxUploadBytes,             \* MAX_UPLOAD_BYTES
    MaxArchiveEntries,          \* MAX_ARCHIVE_ENTRIES
    MaxUncompressedBytes,       \* MAX_ARCHIVE_UNCOMPRESSED_BYTES
    MaxCompressionRatio         \* MAX_ARCHIVE_COMPRESSION_RATIO

ASSUME UploadAssumption ==
    {MaxUploadBytes, MaxArchiveEntries, MaxUncompressedBytes, MaxCompressionRatio} \subseteq Nat

Extensions ==
    {"md", "markdown", "txt", "html", "htm", "docx", "xlsx", "pdf",
     "docm", "xls", "zip", "other"}

AllowedExtensions ==
    [md |-> "md", markdown |-> "md", txt |-> "txt", html |-> "html", htm |-> "html",
     docx |-> "docx", xlsx |-> "xlsx", pdf |-> "pdf"]

\* One extension of each kind that is refused by name.
DeniedExtensions ==
    [docm |-> "MACRO_ENABLED_FORMAT", xls |-> "LEGACY_BINARY_FORMAT",
     zip |-> "ARCHIVE_NOT_ALLOWED"]

RequiredPart == [docx |-> "word/document.xml", xlsx |-> "xl/workbook.xml"]

PartNames ==
    {RequiredPart.docx, RequiredPart.xlsx, "[Content_Types].xml", "vbaProject.bin",
     "EncryptionInfo", "../unsafe", "other"}

Entries ==
    [name : PartNames, encrypted : BOOLEAN, file_size : Nat, compress_size : Nat]

Uploads ==
    [bytes : BOOLEAN, size : Nat, signature : {"zip", "pdf", "ole", "none"},
     extension : Extensions, entries : Seq(Entries),
     found : SUBSET {"NUL", "not UTF-8", "/Encrypt", "broken archive"},
     scan : {"no scanner", "CLEAN", "INFECTED", "UNAVAILABLE"},
     declared : BOOLEAN]

-----------------------------------------------------------------------------
(* A check gives the reason it refuses for, if it does; the first one that  *)
(* refuses decides.                                                         *)

Check(reason, fails) == IF fails THEN {reason} ELSE {}

FirstRefusal(checks) ==
    LET refusing == {k \in DOMAIN checks : checks[k] # {}}
    IN  IF refusing = {} THEN {} ELSE checks[Min(refusing)]

EntryRefusal(entry) ==
    IF entry.name = "../unsafe" THEN {"ARCHIVE_UNSAFE_ENTRY"}
    ELSE Check("ENCRYPTED_DOCUMENT", entry.encrypted)

Total(entries, size(_)) == FoldLeft(LAMBDA sum, entry : sum + size(entry), 0, entries)

\* Mutant: a macro is no reason to refuse a document whose name does not tell.
PartChecksLettingMacros(names, format) ==
    <<Check("ENCRYPTED_DOCUMENT", "EncryptionInfo" \in names),
      Check("SIGNATURE_MISMATCH", "[Content_Types].xml" \notin names),
      Check("SIGNATURE_MISMATCH", RequiredPart[format] \notin names)>>

\* What the names of the parts tell.
PartChecks(names, format) ==
    <<Check("MACRO_ENABLED_FORMAT", "vbaProject.bin" \in names),
      Check("ENCRYPTED_DOCUMENT", "EncryptionInfo" \in names),
      Check("SIGNATURE_MISMATCH", "[Content_Types].xml" \notin names),
      Check("SIGNATURE_MISMATCH", RequiredPart[format] \notin names)>>

InspectOoxml(upload, format) ==
    LET names == {entry.name : entry \in ToSet(upload.entries)}
        uncompressed == Total(upload.entries, LAMBDA entry : entry.file_size)
        compressed == Total(upload.entries, LAMBDA entry : entry.compress_size)
    IN  <<Check("ENCRYPTED_DOCUMENT", upload.signature = "ole"),
          Check("SIGNATURE_MISMATCH", upload.signature # "zip"),
          Check("MALFORMED_ARCHIVE", "broken archive" \in upload.found),
          Check("ARCHIVE_LIMIT_EXCEEDED", Len(upload.entries) > MaxArchiveEntries)>>
        \o [k \in DOMAIN upload.entries |-> EntryRefusal(upload.entries[k])]
        \o
        <<Check("ARCHIVE_LIMIT_EXCEEDED", uncompressed > MaxUncompressedBytes),
          Check("ARCHIVE_LIMIT_EXCEEDED",
                uncompressed > MaxCompressionRatio * Max({compressed, 1}))>>
        \o PartChecks(names, format)

InspectPdf(upload) ==
    <<Check("SIGNATURE_MISMATCH", upload.signature # "pdf"),
      Check("ENCRYPTED_DOCUMENT", "/Encrypt" \in upload.found)>>

InspectText(upload) ==
    <<Check("SIGNATURE_MISMATCH", upload.signature # "none"),
      Check("INVALID_TEXT_ENCODING", "NUL" \in upload.found),
      Check("INVALID_TEXT_ENCODING", "not UTF-8" \in upload.found)>>

Inspect(upload) ==
    LET format == AllowedExtensions[upload.extension]
    IN  IF format \in {"docx", "xlsx"} THEN InspectOoxml(upload, format)
        ELSE IF format = "pdf" THEN InspectPdf(upload)
        ELSE InspectText(upload)

Scan(upload) ==
    <<Check("MALWARE_DETECTED", upload.scan = "INFECTED"),
      Check("SCAN_UNAVAILABLE", upload.scan = "UNAVAILABLE")>>

Checks(upload) ==
    <<Check("INVALID_PAYLOAD", ~upload.bytes),
      Check("EMPTY_FILE", upload.size = 0),
      Check("FILE_TOO_LARGE", upload.size > MaxUploadBytes)>>
    \o IF upload.extension \in DOMAIN DeniedExtensions
       THEN <<{DeniedExtensions[upload.extension]}>>
       ELSE IF upload.extension \notin DOMAIN AllowedExtensions
       THEN <<{"EXTENSION_NOT_ALLOWED"}>>
       ELSE Inspect(upload) \o Scan(upload)

\* Why the upload is refused: no reason when it is accepted.
Refusals(upload) == FirstRefusal(Checks(upload))

\* What an accepted upload carries into its document.
UploadWarnings(upload) ==
    Check("not scanned", upload.scan = "no scanner")
    \cup Check("content type ignored", upload.declared)

==============================================================================
