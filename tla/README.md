# Verification of the governance platform's core in TLA+

This directory specifies the parts of the AWS governance platform that keep state or decide
something: the Job repository, its lifecycle and the polls of its clients, the artifact store, the
rule registry with its Policy Profiles and Effective Rule Sets, the rule candidates, the way of a
policy document from its upload over the loaders of five formats to evidence, the registries of
sources, controls and mappings, the official sources, and the scoring. TLC checks the modules on
small instances; TLAPS proves the most important properties for every value of the constants.

`tlc -config JobRepositoryRace.cfg MCJobRepository.tla` runs one configuration, `tlapm
JobPollingProofs.tla` checks one proof module. `PROJECT.json` maps every definition to the
lines it translates and lists runs, mutants, hazards, findings and theorems.

## Inventory

The repository is a reference implementation. Its Python code is a set of adapters and pure domain
packages; the HTTP handlers, the agents and the deployment code that would call them are described
in `docs/` and are not in the repository. Calls within a process do not overlap; concurrency is
between *invocations* of the backend that share DynamoDB and S3.

| Component | State it keeps | Operations | What is hard | Correct when |
| --- | --- | --- | --- | --- |
| Job lifecycle (`jobs/models.py`, `lifecycle.py`) | none: a Job is a value | `create_job`, `transition_job` | long sequences of updates, write-once identifiers | terminal is final, identifiers and owner never change, revision grows by one |
| Job repository (`repositories/dynamodb.py`) | one item per Job in DynamoDB | `create_job`, `get_job`, `update_job` | read and put are separate calls; puts are late, repeated or unanswered | no acknowledged write is lost; the table follows the lifecycle |
| Artifact store (`repositories/s3.py`) | content-addressed objects in S3 | `put`, `get` | read-back after a refused put; colliding digests; foreign objects | an acknowledged reference leads to its bytes for ever |
| Rule registry, profiles, Effective Rule Sets (`governance/rules/registry.py`, `profiles/`) | approvals, Rules, snapshots, audit log, profiles | `add_approval`, `add`, `activate`, `deprecate`, `build_effective_rule_set`, `reproduce_effective_rule_set` | order of steps inside a call; deprecation against pinning; restoration | an identity keeps its meaning; pinned sets are reproducible; deprecated rules stay out |
| Rule candidates (`rules/candidates.py`, `services/rule_candidates.py`) | candidates, fingerprints, bindings | `create`, `approve` | one call spans two registries | one Rule per candidate, growing versions |
| Control, mapping and source registries | registered values, never removed | `add`, `require`, `source_type`, `allows_reference` | order of registration | one type per source; a mapping always resolves |
| Job access (`jobs/access.py`, `errors.py`, `auth/`) | none | `Principal.from_verified_claims`, `authorize`, `authorize_job_read`, `to_response`, `sanitize_public_error` | the Job is read at one moment and answered for at a later one; answers carry no revision | answers are never taken back, and go to admins and to the creator only |
| Assessment contracts (`contracts/assessments.py`) | value objects | parse and validate progress and outcome | revisions, update ids | a terminal assessment is final |
| Scoring (`scoring/calculator.py`) | none beyond a call | `calculate_source_metrics` | rounding, two denominators, metrics bound to other versions | each evaluation counts once and pulls the right way |
| Compliance readiness (`compliance/readiness.py`) | none | readiness projection | exclusions | nothing is ready by omission |
| Frozen documents (`sources/ingestion.py`, `index.py`) | documents by identity | `ingest_*`, `reingest_*`, `add`, `verifies`, `search` | same identity, other content | evidence that was cited stays what it was |
| Canonical documents and segmentation (`canonical_document.py`, `segmentation.py`) | Blocks, heading stack, counters | `heading`, `block`, `segment_document` | skipped and repeated headings, empty slugs | paths follow the outline; addresses are unique, and text that is read later moves none |
| Source catalog, official snapshots, source selection (`sources/catalog.py`, `official_snapshot.py`, `profiles/source_selection.py`) | definitions, frozen snapshots | `add`, `freeze`, `from_dict`, `select_global_profile_sources` | control sets that were altered, hashes that leave fields out, decisions that nothing looks at again | what is held is what was published; what was once decided on the catalog stays right |
| Upload validation (`sources/upload.py`) | none | `validate_upload` | a dozen checks whose order decides the reason | what is loaded was checked, or says itself that it was not |
| Loaders (`sources/loaders/`: Markdown and text, HTML, DOCX, PDF, XLSX) | a position in the content, a builder, for HTML a stack of open elements | `load` | where each block ends, elements that are never closed, cells that span or leave their number out, what counts as a heading | nothing is lost but what is left out on purpose, values keep their columns, and loading ends |
| Knowledge and evidence ports (`tools/`) | none | `query` | evidence that is no longer, or not only, what was cited | only registered references are answered |
| Frontend panel | none | view model | none | |

Interactions: the backend handlers (not in the repository) call lifecycle, repository and artifact
store; the rule registry looks up the mapping registry, which looks up the control and the source
registries; an upload is validated, the loader of its format fills a builder, a profile cuts the
result into sections, ingestion freezes them and the index keeps them; the knowledge tool checks
each answer against the index and the mappings; candidates read frozen sections and call `activate`;
profiles and Effective Rule Sets read the rule registry; an assessment keeps the pins and hash of
the set it was judged by, and scoring binds each evaluation to that set.

## Modules

| Module | Models | State, and how actions correspond |
| --- | --- | --- |
| `JobLifecycle` | `jobs/models.py`, `lifecycle.py` | no state: the Job record, `WellFormed` (`__post_init__`), `MayTransition`, `TransitionJob` |
| `JobSpec` | what the Job lifecycle promises | `jobs`: created once, then one legal step at a time. Terminal statuses are final, the owner and written identifiers are fixed |
| `JobRepository` | `repositories/dynamodb.py` under concurrent callers | `table` (DynamoDB), `requests` (puts under way), `waiting`, `result`, history `acked`. `CreateSend`, `UpdateSend` are the calls up to their put, with all their early returns as `CreateRefused`, `UpdateRefused`, `UpdateReadFails`; `Answered`, `AppliedUnanswered`, `PutFails`, `Dropped` are DynamoDB and the way to it |
| `JobPolling` | `auth/`, `jobs/access.py`, `errors.py`, `to_response`; composed with the repository (EXTENDS `JobRepository`) | `polls`: how far the invocation that answers each client has come, what it has read and answered; history `past`. `PollBegin` (principal and action), `PollRead`, `PollFails`, `PollAnswer` (owner and projection) are separate steps, and the repository moves in between. The handler itself is not in the repository: the order of its calls is that of `docs/API.md`, and it is external in the map |
| `ArtifactStore` | `repositories/s3.py` | `bucket`, pending puts, each caller's program counter, histories of acknowledged puts and gets. `put` is a conditional put followed, when refused, by a read-back in a second step |
| `RuleRegistry` | registry, profiles, Effective Rule Sets | `rules`, `approvals`, `snapshots`, `audit`, `profiles`, history `built`. One action per method; `Restart` is the restoration of the registry through `add_approval` and `add` |
| `RuleCandidates` | candidates over the registry (EXTENDS `RuleRegistry`) | `candidates`, `bound`. `Approve` is `next_version`, `activate` and `bind_approved_rule` |
| `CanonicalDocument` | `canonical_document.py`, `segmentation.py`, `normalization.py` | no state: the builder, the sections and their addresses as operators. A line is a word, a hash is what is hashed |
| `UploadValidation` | `upload.py` | no state: the checks of `validate_upload` as a sequence, of which the first that refuses decides |
| `DocumentLoader` | `loaders/base.py`; what the loaders share (EXTENDS `CanonicalDocument`, `UploadValidation`) | `upload`, `content`, `index` (the place that is read next), `builder`, `notices` (warnings), `outcome` |
| `MarkdownLoader` | `loaders/markdown.py` | one action per branch of the line loop |
| `HtmlLoader` | `loaders/html.py` | `tree`: the nodes made so far and the open elements; one action per call of `html.parser` (start, end, text), then one that walks the tree into blocks |
| `DocxLoader` | `loaders/docx.py`, `office_xml.py` | one action per kind of body element |
| `PdfLoader` | `loaders/pdf.py` | the triage, then one action per page; the heading sizes are an operator of all lines; sizes are in thousandths of a point, and `round(size, 2)` is the nearest hundredth, a half upwards |
| `XlsxLoader` | `loaders/xlsx.py` | one action per sheet: numbering, merged ranges, header row and the limits |
| `DocumentLoading` | `load_upload` of `ingestion.py`; composes the above | `Validate`, the steps of the loaders, `Finish` |
| `PolicySources` | the identities shared by the next two | none |
| `SourceRegistries` | `controls/`, `sources/`, `mappings/registry.py` | `controls`, `sources`, `mappings`; one action per `add` |
| `FrozenDocuments` | `ingestion.py`, `index.py` (EXTENDS `CanonicalDocument`) | `documents`, history `uploaded`; `Add` is an ingestion whose result reaches the index, `Reingest` the check against a frozen document |
| `PolicyKnowledge` | `tools/policy-knowledge/port.py`; composes the two modules above | history `cited`; `Query` is an answer of any adapter that the service lets through |
| `GlobalSources` | `sources/catalog.py`, `official_snapshot.py`, `profiles/source_selection.py` | `definitions`, `snapshots`, histories `loaded` (each control set together with the one whose hashes it was delivered with) and `chosen` (each source selected, with the customer's capabilities); `AddDefinition`, `Select`, `Load`, `FreezeCreated`, `FreezeDocument` |
| `Scoring` | `scoring/calculator.py` | `seen`, `items`, `refused`: the loop over the evaluations, one action per evaluation; weights, rounding and metrics are operators of the state, so that the properties hold of the result after any number of evaluations |
| `MC*` | values and symmetry for the runs | |
| `*Proofs` | theorems, one module per component; for the loaders two: `LoaderProofs` for what their operators give, `DocumentLoadingProofs` for what holds in every state | |

Abstractions. A hash over canonical JSON is the value that is hashed, so `RuleRegistry` assumes that
no two values collide; `ArtifactStore` assumes nothing of its digest and the run has a collision.
Texts, steps, errors and identifiers are model values. What third-party parsers report (the events
of `html.parser`, the lines of a PDF page, the parts of an archive) is the content a loader starts
from. External code is marked so in the map: the conditional put of DynamoDB and S3, the SDK's
repetition of requests, the caller that invokes the repository, and the restart of a process.
`Restart` brings Rules back with their references in any order, because `registry.py:26` names a
reserialised array as something the registry withstands.

## Runs

| Run | Checks | Bounds, and why they suffice |
| --- | --- | --- |
| `job_race` | types, fresh pending writes, acknowledged writes survive, one winner per revision, refinement of `JobSpec` | one Job, two callers, revisions 0..2, two puts under way: two updates can race for either revision, and a put of revision 1 can be late after revision 2. Other types, owners and identifiers are left to the theorem `RepositoryImplementsJobSpec` |
| `job_polling` | answers are current and never taken back, answers by right | one client that polls over and over (both properties are about one poll and the Job; successive polls of one client stand for those of several), one caller, revisions 0..2, one put under way, which is late or repeated; three principals and five tokens that make none |
| `artifact_store` | references keep their bytes, reads agree, reported collisions are real, nothing overwritten | two callers, three contents of which two collide, every initial bucket including foreign objects |
| `rule_candidates` | coherence, reproducible pinned sets, identities for ever, audit log, deprecated rules stay out, one Rule per candidate, versions increase | two candidates, two versions of one rule, two references (so that order matters) of which one is uncertain, one profile, one pinned set, Rules and approvals that also come from outside, and restarts: candidates and registry are checked in one composition |
| `document_loading` | nothing lost or doubled in any format, columns kept, heading paths, headings the minority of a PDF, unique addresses, sections of Markdown and DOCX stable while loading goes on, sections hold the text, what is loaded was vouched for, loading ends | Uploads: each extension, and each check failing by itself or before another. Markdown: every text of up to four lines over eleven kinds of line. HTML: up to four pieces after four openings (nested lists, tables in tables, spans, unclosed elements). DOCX: up to three of twelve elements. PDF: one page of up to three lines or two pages of up to two, in seven sizes, of which rounding leaves five, and each limit. XLSX: 1 728 sheets with and without row and cell numbers, each small merged range, and each single change of a sound sheet. Three words: one with a slug, one without, one whose slug is that of a numbered section |
| `policy_knowledge` | types, evidence stays registered and unambiguous | three versions of two documents, four contents (two that differ under a repeated heading, one without headings, a control matrix), one control, three references of which one is answered: each property is about one reference or two versions |
| `scoring` | binding, counting, extremes below their bound, direction of each evaluation | two resources, a rule of weight 10 over two sources and one of weight 1, one rule outside the set; up to four evaluations in any order, which has every mixture of the five statuses in one source. A decided weight of 2000, from which on 100.0 may hide a failure, is out of its reach; `ExtremesAreExact` excepts it by name and `HundredHidesOne` proves it |
| `global_sources` | partition of held control sets, held as published, decisions on the catalog stand | one source, one control set and ten alterations of it, of each field the hashes cover or leave out, each delivered with the hashes of any other; two held at once |
| `frozen_overwrite`, `frozen_preface` | findings | as `policy_knowledge` over two contents that differ in a preface |
| `rule_set_hash` | a finding | one rule of one version with two references, one profile, one pinned set |
| `candidate_duplicates` | a finding | two candidates over two references |

Symmetry is declared over callers, users, identifiers or candidates, which no definition tells
apart, and only in runs without liveness properties. The view of `job_race` hides `result`, that of
`job_polling` also `acked`: they are written and never read by a step. `CHECK_DEADLOCK FALSE` stands
where the system really stops: a document is loaded or refused, a calculation is over, or registered
values that are never removed, versions, control sets and candidates are used up.

Fairness. Only `DocumentLoading` states any: weak fairness of the validation, of the next step of the
Markdown loop and of `Finish`, since all of them run in one call and wait for nothing. `Terminates`
is that every branch of that loop moves on; the other loaders go over a sequence that is there from
the start, where ending is no question. The other modules have none: the code has no scheduler, no
retry and no background task, so nothing in it must eventually happen, and no further liveness
property is claimed.

Every property has a mutant: a plausible bug of the code, written beside the definition it
replaces, under which TLC finds the property violated.

## Findings

* `rule_set_hash`: the `rule_set_hash` of a pinned set is computed over `source_references` in
  stored order, while the approval hash sorts them. A Rule that comes back with its references in
  another order passes the approval check and changes the hash (`profiles/effective.py:75`), which
  `docs/CONTRACTS.md:240` says does not change. What does hold, and is proved, is that the pinned
  identities, statuses and approved contents are reproducible.
* `candidate_duplicates`: the fingerprint of a candidate depends on the order of its evidence
  (`rules/candidates.py:211`), the approval hash does not, so one content can be approved twice as
  two versions.
* `frozen_overwrite`: `FrozenDocumentIndex.add` replaces a frozen document when the snapshot hashes
  agree (`sources/index.py:56`), so that its source type and locators change, against rule 2 of
  `sources/ingestion.py:11`. That rule speaks of the set of items (항목 집합), of which the snapshot
  covers texts and paths; the property is about the whole frozen record. What does hold, and is proved, is that every reference that was
  answered still verifies.
* `frozen_preface`: text before the first heading is in no section and so not in the snapshot
  (`sources/segmentation.py:206`): `reingest_document` accepts a changed preface under the frozen
  version, where `sources/ingestion.py:270` and `:288` say that it fails.

## Proofs

The theorems quantify over all callers, Jobs, revisions, contents, rules and profiles.

* `JobPollingProofs`, the repository. The inductive invariant adds to `TypeOK` that a pending put is
  fresh (`PendingWritesFresh`): an update still names a revision that has been stored, and if the
  stored revision is still that one, the put is a legal step from the Job stored *now*. Without it a
  late put could not be shown to be a legal step. From it follow `NoAcknowledgedWriteIsLost`,
  `AtMostOneWinner` and the refinement `RepositoryImplementsJobSpec`.
* `JobPollingProofs`, the polls. What a poll saw when it began, what it read and what is stored now
  follow each other: no step of the repository breaks that, because each one refines a step of
  `JobSpec` and those only move a Job to what it may become (`MayBecome`, which is transitive).
  Hence `PollsAreCurrent`. All items ever stored under a Job have one owner and one of them has
  revision 0, so that the owner that is read is the creator: `AnswersByRight`.
* `ArtifactStoreProofs`. The bucket only grows; an acknowledged put, a value read and the program
  counter of each caller are tied to the object found under the digest. No injectivity of the
  digest is used.
* `RuleCandidatesProofs`, the registry. The invariant adds to `TypeOK` that registered rules are
  authentic, that a profile pins registered rules only, and that each pinned set was built from the
  approved content of its pins. The first is what lets `Restart` bring every rule back, the others
  are what reproduction from the snapshots needs.
* `RuleCandidatesProofs`, the candidates. Every step over the two registries is one of the rule
  registry or leaves it alone (`RegistryIsRefined`), so that the theorems above hold of the
  composition. A new identity is registered by no candidate yet, because bound identities are
  registered: `CandidatesStayInStep`. That `next_version` has a maximum to add one to is an
  invariant over time (registrations come one at a time), not an induction over the set; with it and
  `AuditAgrees`, `VersionsSupersede`.
* `LoaderProofs`, the sections. A copy number is the cardinality of the earlier positions with the same
  base and grows from each of them to the next, so that base and copy number determine the position.
  No length of document and no property of `slugify` is assumed.
* `PolicyKnowledgeProofs`. The invariant says that each frozen document is what `Ingest` makes of
  some content under its own version, and so has unique addresses (`SegmentsUnique`), and that
  each cited reference is registered. Replacement keeps the snapshot, the snapshot determines
  addresses and contents of the sections, hence verification survives it.
* `GlobalSourcesProofs`. The invariant is that every definition of the catalog is a policy source
  that states its condition (`CatalogOK`), that every held set passed creation, authentication and
  partition (`HeldWasChecked`), and that a definition never changes under what was frozen, held or
  selected on it (`DecisionsStand`, theorem `FrozenAgainstOneCatalog`). Each field of a control set
  is under one of the two hashes or determined by fields that are, but two: the URL, which has to be
  the catalog's, and `collected_at`, which is in no hash and determined by nothing. So equal hashes
  make sets that are equal up to these two (`HeldIsPublished`). That a control set is a record of
  its fields is an assumption on the constant `Payloads`.
* `DocumentLoadingProofs`. The decision of `validate_upload` is the first check that refuses; that
  there is a first one is a least number of a set of positions. If there is none, every check
  passed (`AcceptedPasses`, `AcceptedIsReadable`). The invariant `VouchedInv` carries that from
  validation to the end through the steps of five loaders, with the warnings that stand in for a
  check. `LoadedAlwaysVouched` states those that matter to whoever reads the document: the allowed
  extension, the scan, an archive without macros, unsafe names and encrypted parts, a PDF that is
  not encrypted and needs no OCR. The size limits are checks too, but it says nothing of them. `AddressesNeverShared` applies the theorems on sections to
  whatever blocks a loader has built.
* `DocumentLoadingProofs`, the outline. `HeadingPathsAreOutline` speaks of the blocks, while what the
  next block gets is the path of the builder; the invariant `OutlineInv` has to say that this path
  spells the headings that are still open, by word, by level and in order (`WellBuilt`). Its levels
  then strictly increase, which is why cutting at the first level that is not above the new one
  leaves exactly the new heading's ancestors (`CutPath`, `HeadingOpens`). A text with no word neither
  cuts nor adds. Loaders add several blocks in a step: `CallsBuilt` carries `WellBuilt` over any
  sequence of calls of the builder. For HTML the invariant also keeps the tree sound (`WellTree`:
  children come after their parent, what is open are nodes), which is what makes the recursion of
  the walk well-founded and every heading it emits one of the levels 1 to 6. Folds and recursive
  functions are shown to exist by going up through the positions (`Upwards`).
* `DocumentLoadingProofs`, later text. Each call of the builder appends at most one block, and a block
  appends at most one start of a section: blocks and starts go on where they ended (`Continues`,
  transitive, hence true of the many calls of one step). A copy number counts earlier bases only and
  a section that is not the last one ends before a start that stays: `SectionsAlwaysStable`. This is
  about the steps of one load of Markdown or DOCX. A PDF is not like that: the sizes of all its lines
  decide what is a heading, so that another page may change earlier sections.
* `DocumentLoadingProofs`, the content. That nothing is lost is shown format by format, each time by
  an invariant that says of the blocks so far exactly what of the content is in them:
  `MarkdownInv` (the words of the lines before `index`), `DocxInv` (what the elements before `index`
  say), `PdfInv` (the lines of the pages before `index`; a page in no block is empty and reported;
  and, for the headings, the words of the large lines), `XlsxInv` (the rows below the header of the
  sheets before `index`, each value under its own heading; names of sheets may repeat). The theorems
  are `MarkdownAlwaysKept`, `DocxAlwaysKept`, `PdfAlwaysKept`, `XlsxAlwaysKept`, `HtmlAlwaysKept`,
  and `NothingEverLost` of all five together. Along the same
  lines `SectionsAlwaysHoldTheText`: the texts of the sections, one after the other, are those of the
  blocks from the first heading on. What a text holds is written with `FlattenSeq` and
  recursive functions, whose existence is shown upwards over the positions (`SeqUpwards`, and
  `FromTheLeaves` for a tree).
* `LoaderProofs` and `DocumentLoadingProofs`, the content of a page. The nodes under a node of the
  tree are told by the order in which they are reached (`Above`, `Holds`), which every tag keeps
  (`IsFamily`, `IsGrown`: each child is made after its parent and has one parent). `Shown` and
  `Safe` are the texts below a node that may and that must be given. A walk over it calls the
  builder with every word at least as often as it is safe and at most as often as it is shown; this
  is shown from the leaves of the tree upwards (`FromTheLeaves`), for running text (`WaitingOnce`,
  `WalkGives`), for list items, whose nested lists come after their text (`ItemGives`), and for
  tables: a cell belongs to its nearest table (`NearestFound`), each is found once (`CellsFound`)
  and put into one place (`PlacedAll`, `TableCounted`). `HtmlInv` says that there is no block before
  the tree is walked and that afterwards the blocks say what the calls for it do. The names of tags
  are taken to differ from the mark of a text in the tree (`Events`), as `html.parser` starts a name
  with a letter.
* `DocumentLoadingProofs`, `LoadingTypeOK`. That a table of HTML has a text needs that each of its
  cells finds a free column: of one more column than the earlier cells cover places, one is free, by
  the pigeonhole principle. `ColumnsAlwaysKept` then follows from the place of each cell being
  outside of what the earlier ones cover. `HeadingsAlwaysTheMinority`: the lines up to the body size
  hold at least half of the characters, and the lines of a heading are larger. Larger by 18%, and
  then rounded to hundredths: from a body size of 0.06 points on the rounding does not bring a
  heading down to the body (`RoundedOrder`), below it may. `ColumnsKept` is about HTML and XLSX; the
  grid of a DOCX table has no such property.
* `ScoringProofs`, counting. Evaluations are filed where their own content says, their identities
  have been seen, and none repeats within a partition: so each counts once.
* `ScoringProofs`, sums and percentages. A weighted sum is a fold: that the function which defines
  it exists is proved upwards over the sets of positions (`SumsExist`, with the induction lemma
  `Upwards`, which the well-founded order of the naturals gives). From its equation: one more
  evaluation adds its weight or nothing (`AppendedTotal`), a sum is 0 if and only if nothing counts
  in it (`NoTotal`), and what is passed is at most what is decided. A percentage is the nearest
  tenth (`PercentIsNearest`), hence monotone in the passed weight and antitone in the decided one
  (`PercentIsMonotone`). `EveryEvaluationPulls` is the action property for every weight.
  `ExtremesTellAll` has a bound in its statement (`Exact`): with a decided weight and a number of
  evaluations below 2000, a score or a coverage of 100.0 or 0.0 means what it says. The bound is the
  code's, not the proof's: `round(100 * passed / decided, 1)` shows 100.0 for 1999 of 2000, and
  `HundredHidesOne` proves the same of every larger decided weight. It is also where the model's
  exact rounding is known to agree with the code's doubles.

Assumptions: only the named `ASSUME`s on the constants, which TLC evaluates in the runs.

`AuditAgrees` says that the entries of the audit log are true, not that none is missing; that
`deprecate` always finds the approval it needs to write one is in `TypeOK`.

`TypeOK` of `ArtifactStore` and the coherence of `SourceRegistries` (`SourceTypesAgree`,
`MappingsResolve`) are invariants of the proofs only: they hold by the guard of one operation, so no
run spends itself on them.

Only model-checked:

* `Terminates`, the only liveness property, and all that needs ENABLED.
* The findings, of which the counterexample is the result.

## Not modelled

* The assessment contracts (`contracts/assessments.py`) are value objects. The handlers that receive
  the messages, order them by `expected_revision` and drop repeated `update_id`s are not in the
  repository; a protocol module could be translated from `docs/` only.
* Compliance readiness joins a selection with given records and counts them: no step and no state.
* The byte formats of HTML, DOCX, PDF and XLSX, which third-party parsers read.
* What only reads and decides nothing that is kept: the search of the frozen index and its ranking,
  `default_profile_candidates`, the comparison of two snapshots, the revalidation of a Rule against
  a newer control set.
* The frontend panel (a stateless projection), the external evidence port (one validation of one
  answer), field-by-field parsing of contracts, IAM and infrastructure text.
* Formatting: list markers, indentation, the bars and escapes of table rows, the addresses of links.

## Plan

Built, in this order: `JobLifecycle`, `JobSpec`, `JobRepository` (the shared state under
concurrency first), `ArtifactStore`, `RuleRegistry`, `RuleCandidates`, `CanonicalDocument`,
`SourceRegistries`, `FrozenDocuments`, `PolicyKnowledge`, `Scoring`, `GlobalSources`,
`UploadValidation`, the loaders and `DocumentLoading`, `JobPolling`.

To come, by importance:

1. An abstract specification of the rule registry (approved once, in force, deprecated for ever)
   that `RuleRegistry` implements, and one of frozen documents (one content per version).
2. The assessment messages, when their handlers come into the repository.
