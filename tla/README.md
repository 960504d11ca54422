# TLA+ models of creature-kernel

Creature Kernel turns an authored *body document* (JSON) into a checked body
graph and, further on, into previews that people review in a browser. This
directory models the parts of it that decide, keep state or run concurrently:

- the Rust core's **structural validation**, the index it hands its documents
  to, the **admission** of a source and the **resolver envelope**
  (`src/crates/creature-kernel-core/`);
- the Python **visual-review** tools: the publisher that installs a session
  with one rename, and the server whose handler threads read and save
  responses in it (`src/dev-tools/visual-review/`);
- the **exact attempts** of the numeric-frame experiment: the ledger of
  experiment slots, the session with a candidate process, and the result that
  is derived from three such sessions
  (`src/experiments/EXP-0002-numeric-frame-profile/phase3-semantic-band-conformance/scripts/`,
  *phase 3* below);
- **staged publication** by the preview builders
  (`src/experiments/current-form-surface-preview/`), and the **bounded runs** of
  a generator and its process group, which two tools share.

`PROJECT.json` lists the components, the runs, the line range each definition
translates, the hazards, and the theorems. Paths below are relative to the
repository root.

## 1. The system

| Component | State it keeps | Operations | Talks to |
|---|---|---|---|
| document admission, `body_document.rs` | JSON budget, pointer path, set of names per open object, diagnostic accumulator | `admit` | serde_json, the embedded schema; gives a `BodyDocument` to validation |
| structural validation, `structural_validation.rs` | diagnostics; maps of identities, Parts, Sockets, frames | `Validator::run`, ten passes | reads the document; gives accepted ones to the index |
| body graph index, `body_graph.rs` | maps by address and by owner and role | `from_validated`, accessors | everything that reads a graph |
| resolver envelope, `resolver_envelope.rs` | none (a fold over phase observations) | constructors, `reduce_phase_observations`, `from_reduction` | the phases of a resolution |
| source sets, placement, numeric kernels, form preview | maps over several documents; exact numbers | pure functions | the graph |
| session publisher, `publish.py` | a staging directory, identities of the files it wrote | `publish_session` | the reviews root; the sources under the copy |
| review server, `serve.py` | open root, token; `response.json` in each session | GET review, POST response, listing, assets | sessions the publisher installs; browsers |
| stage tokens, `structural_atomic_publish.py` | token: name, device, inode, open descriptor | `create_stage`, `publish_no_replace`, `cleanup_stage` | the gallery, the bridge and the profile sources publish with it |
| exact attempt slots, `phase3_exact_publication.py` | slot markers, attempt directories and terminal records on disk; the reservation's descriptors | reserve, publish, record a failure, read | invocations and readers in other processes |
| exact transport, `phase3_exact_transport.py` | one child under ptrace, its pipes, buffers, deadlines | launch, request, close, reap | a candidate process and its descendants |
| exact attempt driver, `phase3_exact_attempt.py`, `phase3_exact_adjudicator.py`, `phase3_evidence_contract.py` | responses and process observations of three roles | role loop, correlation, adjudication, build | one slot, three transport sessions |
| bounded runs, `publish_surface_preview.py`, `disposable_ck_projection.py` | one child, its process group and pipes | `_run_bounded`, `_bounded_subprocess` | a generator that may fork |
| CLI, galleries, experiments, linters | none of their own | batch programs | all of the above |

What is hard in it:

- **The document supplies the graph.** Parent links may form cycles, keys may
  repeat, kinds may be wrong, and nothing may depend on an earlier pass having
  rejected it: every pass runs on every document. `from_validated` panics on
  what the passes should have rejected.
- **Two-sided matching.** Attachments and the modules that require one are
  checked by two loops, with subtree membership on one side and the host on the
  other.
- **Budgets and bounded diagnostics.** Three counters, a depth and a bounded
  list, each with its own off-by-one; the verdict must not depend on what was
  retained.
- **Precedence.** Observations of several phases in any order become one
  status, one primary diagnostic and two completeness flags.
- **Processes without a lock.** Publishers race for one name and sources change
  under them; server threads rename over the same file; any of them may be
  killed at any step. What keeps them correct is a handful of atomic file
  operations in the right order.
- **Power loss.** A slot must stay consumed, so what is on disk, and not only
  what is visible, has to be right before a candidate runs.
- **A child that does what it likes.** It answers late, torn, twice or not at
  all; exits while its answer is still in the pipe; hangs; forks descendants
  that keep the pipes or the process group. Every wait needs an end, and every
  signal a target that is still the right one.
- **Evidence from partial runs.** Three sessions end in any way, and what was
  kept of each has to add up to a status that is neither better nor worse than
  what happened.

What makes each modelled component correct: validation ends and accepts exactly
the well-formed documents; the index holds what validation accepts; admission
charges what it walks and never admits past an error; the envelope's status is
the precedence of *all* observations; a session name only ever leads to a whole
session that never changes; a reader never sees less than what was acknowledged
before it asked; a slot is executed once, for good; a builder's output is whole
and nobody else's directory is touched; "supported" is said only of a session
whose whole life was observed; nothing of a generator outlives its run.

## 2. Modules

| Module | Models | Run |
|---|---|---|
| `BodyDocuments` | records of a document, typed keys, the subtree walk as a set | |
| `BodyGraphContract` | *specification*: what a well-formed body graph is, and the promise of one right verdict | |
| `StructuralValidation` | `Validator::run` and `from_validated` | `structural_validation` |
| `Admission` | `admit_impl` | `admission` |
| `ResolverEnvelope` | `reduce_phase_observations`, constructors | `resolver_envelope` |
| `SessionPublisher` | concurrent `publish_session` invocations | `session_publisher` |
| `ReviewServer` | extends `SessionPublisher` with `do_GET`, `do_POST`, restarts | `review_server` |
| `SlotContract` | *specification*: what the ledger and the attempt directories promise | |
| `AttemptSlot` | `phase3_exact_publication.py`: invocations, readers, failures, kills, power loss | `attempt_slot`, `attempt_slot_record` |
| `ClosedSession` | *specification*: what a closed session promises the driver of an attempt | |
| `ExactTransport` | one `ExactCandidateSession` and its candidate | `exact_transport` |
| `ExactAttempt` | the role loop, correlation, adjudication and status of one attempt | `exact_attempt`, `exact_attempt_failed` |
| `StagedPublish` | builders of one output with `structural_atomic_publish.py` | `staged_publish` |
| `BoundedRun` | `_run_bounded` and `_bounded_subprocess` with a process group | `bounded_run` |
| `StructuralValidationProofs` | theorems about the validator, the index and the contract | |
| `AdmissionProofs`, `ResolverEnvelopeProofs` | theorems about admission and the envelope | |
| `VisualReviewProofs` | theorems about the publisher and the server | |
| `ExactTransportProofs` | theorems about a candidate session | |
| `AttemptProofs` | theorems about the slots, the refinement, and the attempt driver | |
| `StagedPublishProofs`, `BoundedRunProofs` | theorems about the builders and the bounded runs | |

An `MC*` module gives the constants of a run their values. Operators marked
`\* mutant` in a module are deliberately wrong versions of the definition
below them; `PROJECT.json` says which property each of them breaks, so that
every property is known to depend on the code it is about.

### Structural validation

`pc` is the pass that runs next, in the order of `run()`. Each pass is an
action; its diagnostics are a set of (code, address), since `run()` sorts and
dedups the vector before anybody sees it. The keyed maps are the sets of their
keys, except where a pass uses a record through its key: there the last record
of a repeated key counts, as `insert` has it. `check_parts`' loop is modelled
step by step (`BeginWalk`, `ClimbToParent`, `MeetCycle`, `ReachTop`), one action
per turn, because whether it ends is a question. `is_part_in_containment_subtree`
is the set of upward-closed sets (`InContainmentSubtree`) and not a recursion:
the same answer, also on a cyclic map, and in a form a theorem can use.
`check_attachments` builds its two maps from every parsable link, rejected ones
included, exactly as the code does. Identifiers, digests and namespaces are
model values; `IsKey` is what `AddressKey::from_wire` accepts. Messages, the
order of diagnostics and the transforms are left out.

`BodyGraphContract` says nothing of passes: a tree of Parts is a root whose
downward closure is everything, and attachments and required modules are paired
off by one relation, `Joins`. `DecidesWellFormedness` is its specification as a
temporal property of the validator, under a refinement mapping that sends the
graph (or its absence at the end) to the verdict.

### Admission

Every check of `admit_impl` is an action that passes or refuses, in order;
`Check` is the early return. The recursive scan (`DuplicateSeed`,
`DuplicateVisitor`) is a stack of open containers, fed one JSON event at a time
by the source: every document up to the budgets is some behaviour. serde may refuse
at any of its events what the grammar check let pass (`ScanFails`). The
accumulator's `entries` and `primary` follow `retain` and `finish`. A schema
error is its `DiagnosticKey`, a number, since only its order matters.

### Resolver envelope

Observations are appended through the constructors, at most `MaxObservations`,
then reduced once and made an envelope with or without a payload. The reduction
keeps the code's steps (contradictions, fatal phase, selection, cut-off,
primary) as named operators; the properties state the same algebra over all
observations at once.

### Session publisher

`stage[p]` is the directory invocation `p` made, and directories are named by
their maker, because an inode moves with a rename: `session` says whose
directory the session's name leads to. `held[p]` are the locals that cleanup
depends on: recorded file identities, the assets descriptor, the identities of
the sources taken when the manifest was read. A source is a file that may be
edited in place or replaced at its path between any two chunk reads. `Mishap`
holds every exception and the kill; `Raise` goes through `_cleanup_staging`.

### Review server

A response is named by the POST that wrote it; `written[w]` is how much of its
file is on disk. A reader opens `response.json` and reads it in a later step, so
a rename may fall in between. `saves` and `replied` are history. `ServerCrash`
ends every request in flight and leaves the files.

### Attempt slots

`marker[s]` is `ordinal-N.json` in the ledger, `directory[d]` the path
`parent_root / attempt_id`; slots and paths are given independently, so two
invocations may meet in one, in the other or in both. `at[p]` is the step an
invocation is in, and every call that changes the disk is an action with its
failure. Members are written in their fixed order, so `whole` counts them.
`durable` and `disk` say what an fsync has forced out; `PowerLoss` keeps that
and lets everything younger survive or not, independently. `Crash` is the
death of a process, which loses nothing on disk. A reader follows
`_verify_closure`: layout, members, layout and metadata again, name. The work
between reservation and publication is one step, `Execute`; `ExactAttempt`
models what happens in it. `Contract` is the refinement mapping: a marker's
writer owns the slot, and a closed and complete directory is evidence.

### Exact transport

The candidate writes tokens into `pipe`, one per response line, `Half` for the
beginning of a line, `Flood` for more than a cap. It may leave a descendant that
writes to the same pipe (`Fork`, `Write`) and closes it or ends (`Release`), may
be stopped by a signal (`Signal`), and exits or dies (`Exit`, `Die`): all actions
that may fall between any two of the session's.
`session` holds the fields of the object, `at` the loop it is in, `late` that
the deadline of that loop has passed. Every poll and every pump is a step of
its own, because the order of the two is what decides between a response and
`candidate-exited`. `Polled` holds every outcome of `_poll_terminal`: at the stop
of a signal or of the exit the ptrace request may fail, or the signal be one that
the session refuses (`raises`). A pump that goes over a cap may have kept what it
read (`PumpRaised`). `Kill` and `Reap` are `_abort_and_reap`, twice, as the code
does it; a child need not die of them. `Leave` is an exception that is not the
transport's own: it may leave `run` at any call of the launch, of a request or
of an abort, and the driver then closes the session for what it still has.

`ClosedSession` is the interface to the driver: `ClosedSessions` for any session
that was closed, `ReturnedSessions` for one whose `run` came to its end.
`Outcome` is what `ExactTransport` leaves behind in these terms, and
`ResultIsAsPromised` says that it keeps the promise.

### Exact attempt

A session is one value of `Sessions(role)`: any session whose `Summary` is in
`ClosedSessions`, and nothing else is assumed of it; it returns, or raises and
is salvaged. `custody` is what the identity and content issues say, `observed`
whether both FP states are there: an observation looks at both, the salvage of a
raised session at the issues only. `TransportPrefix` and
`ProcessObservation` keep what the driver keeps, `Adjudicate` gives a status to
every case, `ContractAccepts` and `DerivedStatus` are what the evidence contract
checks and derives. Hashes of frames are the frames' counts.
`_process_observation` is taken to return.

### Staged publication

A directory is named by the builder that makes it, so `names` says where each
name leads and `token[b].dir` what the builder's descriptor holds. The other
program (`OtherPublishes`, `OtherMoves`) may take the output's name at any time
and may move or replace a stage once it is open. Cleanup goes through the
descriptor one entry at a time and never removes the stage's name, as in the
code.

### Bounded runs

`variant` is the runner. The leader, its descendants and the kernel act between
any two steps of it. A process that was sent SIGKILL is not dead at once;
one that was sent SIGTERM may ignore it. `runner.then` is where the runner goes
on after `stop_process`: returned or raised, or, when the eager runner stopped
the group of a failed leader, back to where it saw the exit (`ObserveExit`); the
deadline is looked at again there, so that a late stop still raises.

## 3. Runs

All runs use `CHECK_DEADLOCK FALSE`: every modelled program ends (one document,
one source, one reduction, finitely many invocations and requests).

**`structural_validation`** (73,232 states). 2,346 documents in families:
three Parts under every containment (self-parent, two-cycles, a three-cycle, a
tail that leads into a cycle, no root, two roots, `root: false`, repeated,
foreign, misplaced and invalid addresses) with and without a joint; up to two
attachments over four Sockets under nested or sibling modules; owner records and
references with one fault each; sources and declarations with one fault each.
Three Parts are enough for a cycle that the start is not on; two attachments and
nested modules are the smallest case where one attachment mates into two
subtrees; one fault per document is enough because passes only add diagnostics.
`IndexNeverPanics`, `AcceptedIsWellFormed`, `AttachmentsDescend` (no attachment
cycle, which `spec/body-graph/README.md:172` forbids and no pass looks for) and
`DecidesWellFormedness`: the validator reaches a verdict on every document and
it is the contract's.

**`admission`** (22,587 states). Depth 3, five values, three members, two items:
every nesting reaches every limit and one step past it. Up to four schema errors
with three keys, so that they repeat, come in any order and exceed retention
limits of 0, 1 and 2. `BudgetsAddUp` (values = 1 + members + items; every value
has a pointer of its own), `RetentionIsBounded`, `ResultIsCoherent`.

**`resolver_envelope`** (331,798 states). Three phases stand for the eight: the
reduction compares positions and singles out one phase, dependency acquisition,
which is the middle one. Three observations give two of one phase and one of
another, before or after. Which observations report a second diagnostic is
restricted in `MCReported`, to keep the run short. `StatusFollowsPrecedence`,
`CompletenessIsHonest`, `PrimaryEstablishesStatus`, `NoDiagnosticLost`,
`PayloadNeedsEveryPhase`.

**`session_publisher`** (229,188 states). Two rivals, one with
`expected_sources`, two items of two chunks: a copy can be torn, a failure can
fall between two copies, and a rival can publish at any moment.
`VisibleSessionIsWhole`, `FailureLeavesNoFile`, `SessionIsImmutable`,
`RaceHasAWinner`.

**`review_server`** (1,415,946 states). The publisher (one item of one chunk, its
own run covers copying) with two saves, one read and restarts.
`ReadsFollowReplies`: a GET that began after a POST was answered gives that
response or a later one, whole. `RequestsLeaveNoTrace`,
`SaveReplacesOnlyTheResponse`.

**`attempt_slot`** (750,763 states). Three invocations: two for one slot under
different attempt ids, a third for another slot under the first one's attempt
id; one reader; two power losses, so that one can hit the retry after another;
every call may fail, the terminal writer included. `OneExecutionPerSlot`,
`AcceptedAttemptIsClosed`, and `ImplementsSlotContract`, the refinement.

**`attempt_slot_record`** expects a violation of `FailedAttemptHasRecord`,
without power losses and with a terminal writer that never fails: see *What
the runs found*.

**`exact_transport`** (3,977,872 states). Two frames and tokens written by the
candidate or by its descendant: any two, or both answers and a stray token (a
wrong, repeated, torn or too long answer) before, between or after them. One stray
beside the answers is enough because the first failure stays.
`QueuedResponseWins`: before its deadline a request is not given up for the
candidate's exit while its answer is in the pipe. `SupportedIsEarned`;
`ResultIsAsPromised`, also when an exception leaves `run` between any two calls;
`SessionEnds`.

**`exact_attempt`** (1,450,482 states). 1, 2 and 1 requests for the three roles
and one control case that is never dispatched: the smallest cohort with a role
that can stop half way. `PublishedStatusIsHonest`, `EvidenceIsAccepted`,
`ResponsesAreCountedPrefixes`. **`exact_attempt_failed`** expects a violation of
`FailedIsEvidenced`.

**`staged_publish`** (221,498 states, symmetric in builders and files). Three
builders and two files: one builder wins, one loses before and one after it made
its stage, and a build can be half written or half removed. `OutputIsWhole`,
`OthersAreLeftAlone`.

**`bounded_run`** (12,360 states). Both runners, a leader and two descendants, of
which one can stay and one leave the group. `NothingSurvives`,
`StatusIsTheLeaders`, `SignalsAreAnchored`, `RunnerEnds`.

### Fairness

The validator is sequential: `WF_vars(Next)` says only that a running program
takes its next step. `DecidesWellFormedness` needs it to conclude that the walk
ends. An invocation of the publisher that is not killed keeps running,
`WF(Step(p))`; `Step` holds no failure and no kill, and failures and kills stay
possible at every step. `RaceHasAWinner` therefore counts an invocation that
failed for a reason of its own or was killed as out of the race. Nothing is
assumed about who edits sources. No liveness is claimed of the server.

`ExactTransport` and `BoundedRun` assume that the runner takes its next step,
`WF(SessionStep)` and `WF(RunnerStep)`, since both are loops around calls with
timeouts, and that time passes, `WF(Tick)`: a deadline that stands will be over.
Nothing at all is assumed of the child. It need not write, exit, close a pipe or
die of SIGKILL, so `SessionEnds` and `RunnerEnds` say that the code has a way out
of every wait. `AttemptSlot`, `ExactAttempt` and `StagedPublish` make no liveness
claim: their programs run once, straight through.

### What the runs found

- `attempt_slot_record`: `write_terminal_failure` and `publish_reserved_attempt`
  say that a failed attempt keeps a terminal record. `os.fchmod` and `os.fsync`
  of the finished directory, and the `os.fstat` of what the checks of the names
  reopen, are called bare; their `OSError` takes the handler
  at `phase3_exact_publication.py:938`, which writes none, and consumes the
  reservation so that nobody else can. A reader may then accept an attempt that
  was reported as failed. The same call pattern in
  `_write_terminal_failure_locked` lets an `OSError` pass the
  `except PublicationError` whose comment says that a failure there must not
  hide the original error.
- `exact_attempt_failed`: a session the transport itself calls inconclusive,
  because the FP state could not be observed after the exec, is published as
  failed; the phase's README keeps *failed* for contradictions that are fully
  evidenced.

Seen while modelling, and not counted as findings, because no document of the
repository says otherwise: the quiet window of `request_frame` looks at the
clock before it pumps, so a pump that starts just before the end can raise a
spurious `io-timeout`; output the candidate writes before its first request
stays in the kernel's pipe and is judged with the first answer; a staged build
is made visible without any fsync of its files;
`_stop_process` of `publish_provisional_form.py` signals a group whose leader it
has reaped.

## 4. Proofs

`tlapm` checks each `*Proofs` module from nothing. The theorems hold for every
value of the constants that meets the named assumptions of the models:
`DocumentsAssumption` (the documents are documents), `IdentifiersAssumption` and
`NoAddressAssumption` (identifiers are names, special values no ordinary ones),
and `...Assumption` of the other modules (counts and limits are naturals, sets
of names are disjoint where the code's are). Every safety property of the
passing runs is a theorem, and so is the refinement of `SlotContract` and the
safety half of that of `BodyGraphContract`. Almost none of the invariants is
inductive as it stands; what each needs is the content of its proof.

**Validator** (`StructuralValidationProofs`), for every document.
`ValidatorTypes`: the maps hold keys of the document and the walk stays on keys
of Parts. `AcceptedDocumentsIndex` (`IndexNeverPanics`): nothing in the last
step says why the index accepts, so `Settled` records what each collecting pass
established *while nothing was reported*; a later pass can only add diagnostics
(`LaterStep`), and together they are what the index checks
(`SoundDocumentsIndex`). `AcceptedIsAlwaysWellFormed` goes on to the checking
passes: each finds nothing exactly when its part of the contract holds, and
`Judged` records that. The walk's part is that every key it finished without a
report `Hangs` on the root: the walk climbs the parent links, so whatever is
above a key that hangs hangs too, and no induction over the length of the path is
needed. `AttachmentsAlwaysDescend`: no pass looks for attachment cycles; that
every attachment leads strictly below its host's owner follows from the tree.
`VerdictsFollowContract` is the safety half of `DecidesWellFormedness`: initial
states map to initial states and steps to steps or stutters of
`BodyGraphContract`. Its second half needs the converse, `Spared`: nothing is
ever reported about a well-formed document, in particular a walk that begins in a
tree never meets what it has seen.

**Admission** (`AdmissionProofs`): `AdmissionTypes`, `BudgetsAlwaysAddUp`,
`RetentionIsAlwaysBounded`, `ResultIsAlwaysCoherent`. An open frame at depth *d*
has a pointer of length *d - 1*, and whatever was admitted directly below it is
among its members or below its index (`Walked`): that is why no pointer is
admitted twice and why three counters count one walk (`Charged`). `Retained`:
what the accumulator holds is what was emitted, until the limit is reached.

**Envelope** (`ResolverEnvelopeProofs`): `ResolverTypes`,
`StatusAlwaysFollowsPrecedence`, `CompletenessIsAlwaysHonest`,
`PrimaryAlwaysEstablishes`, `NoDiagnosticIsLost`,
`PayloadAlwaysNeedsEveryPhase`, for any phases and any number of observations.
The invariant only says that a reduction is the function's value; the work is in
`Passed`, what the reduction's own checks leave over: one phase holds every
fatal outcome, nothing was observed after it and nothing is missing before it.

**Publisher and server** (`VisualReviewProofs`), for any number of invocations,
requests, items and chunks. `PublisherTypes`, `VisibleSessionIsAlwaysWhole`,
`FailureAlwaysLeavesNoFile`, `SessionsAreImmutable`: `Inv` ties each invocation's
progress to its directory (at item *i* exactly the files before *i* are there,
complete and recorded; what cleanup removes is all there is), and `Own(p)` says
that a step of one touches no other's directory. `ServerTypes`,
`ReadsAlwaysFollowReplies`, `RequestsAlwaysLeaveNoTrace`,
`SavesReplaceOnlyTheResponse`: `ServerInv` adds that `response.json` is the file
renamed last (`LastSaveIsThere`), what a POST has done at each place
(`PostInv`), and that no POST answered before a GET began was renamed after the
file that the GET has open (`Current`).

**Transport** (`ExactTransportProofs`), for any number of frames and any
candidate. `SupportedIsAlwaysEarned`: while no failure is recorded, what the
candidate wrote is what was consumed as answers, then the buffer, then the pipe
(`Stream`), and what was consumed are the first answers in order and whole
(`Taken`); the first failure ends that. `QueuedResponsesAlwaysWin`: only
`DrainRequest` records the exit. `ResultsAreAlwaysAsPromised` needs what holds
*after* a failure as well: every line taken answers its own request but perhaps
the last (`Replies`), a session that was left never returns to its requests and
nothing is clean before it was judged (`Ending`), and without the observation of
the launch there is none of the exit (`Launched`).

**Slots and attempt driver** (`AttemptProofs`). `SlotTypes`, `SlotsExecuteOnce`,
`ReadersAcceptClosedAttempts` and `SlotsImplementContract`, for any number of
invocations, slots, paths, readers and power losses. `AttemptInv`: from
*persisted* on the marker is the invocation's own *and durable*, so a power loss
cannot free the slot. `DirectoryInv`: a directory stands at its maker's path, has
members only if the maker executed, and is closed, now or on disk, only when the
maker is past writing. `ReaderInv`: while the directory it opened is closed its
metadata are those it saw first, and once the members were read it is complete.
The refinement has one step per action; a power loss maps to `Lose` or to a
stutter. `KeptIsAlwaysAPrefix`, `EvidenceIsAlwaysAccepted` and
`PublishedStatusIsAlwaysHonest`, for any cohort sizes, control cases and
sessions that `ClosedSession` allows: each observation fits its role and what the
session really was (`Fits`), the kept responses are those the observations count,
in the global order (`Kept`), and only a derived status is published
(`Derived`). With `ResultsAreAlwaysAsPromised` this is assume and guarantee: the
driver assumes of a session what the transport is proved to give.

**Builders** (`StagedPublishProofs`): `PublishedOutputIsWhole`,
`PublishersLeaveOthersAlone`, for any number of builders and files. `BuilderInv`:
a stage is whole from the last write on, the descriptor holds the builder's own
directory or none, and a builder whose directory has the output's name has
renamed it and removes nothing any more.

**Bounded runs** (`BoundedRunProofs`): `GroupEndsWithRun`,
`ReturnedStatusIsTheLeaders`, `GroupSignalsAreAnchored`, for any number of
descendants. `StopInv`: until `stop_process` ran nobody was signalled and the
leader is unreaped; after it all of the group was sent SIGKILL. `StatusInv`:
what the runner observed is how the leader ended by itself.

What the proofs showed about the models: the first version of `ExactAttempt`
assumed of a closed session that it never is clean with an answer missing and
that a strange answer always means *failed*. Proving it of `ExactTransport`
failed, and rightly: after an exception the driver closes a session between two
requests, which may then be supported with fewer answers, and a session that
lost its observation goes on reading and may still meet a strange line. Both
models now share `ClosedSession`, and `ExactTransport` has the exceptions
(`Leave`); the driver's three properties hold of the wider set.

Only model-checked are the liveness properties: `RaceHasAWinner`,
`SessionEnds`, `RunnerEnds`, and of `DecidesWellFormedness` that a verdict is
reached. Liveness under fairness and `ENABLED` are out of the prover's reach, as
is induction over data; where a definition would need it (the subtree walk, the
tree under the root) the models use upward-closed sets, of which the proofs need
only closure. No module declares a RECURSIVE operator.

## 5. What is left out, and why

In the modelled components:

- publisher: a `stat` that fails on a file just written through the same open
  directory; the identity check of the reviews root; `fsync` (the code does not
  sync directories, and a power loss is not a killed process);
  `KeyboardInterrupt`, which the handler does not catch, is the same as a kill;
- server: `saved_at`, which nothing orders by; static files, assets, listing and
  LAN mode, which only read; a session removed by hand;
- admission: serde_json's private representation of numbers under
  `arbitrary_precision`, the raw token scan's characters, the schema itself;
- validation: texts and order of diagnostics;
- attempt slots: the authority and custody modules, which check identities
  before the reservation and refuse; JSON and names; the ledger's own directories
  are taken to be on disk (`_open_or_create_ledger_directory` uses, as it is, one
  that another invocation has made and not yet synced);
- transport: the launch's custody and identity checks are one outcome per stage;
  FP registers; a candidate that closes its own stdout early (the session uses
  the end of the file only once it has reaped the child); the
  `ChildProcessError` of `wait4` and a second exit stop (nobody else waits for
  the child, and there is one such stop); stderr, which the same code handles the same way as stdout;
- attempt: parsing, hashes and the oracles' arithmetic are inputs;
- staged publication: nobody takes a stage's name between `mkdir` and `open`
  (the code checks owner and mode of what it opened, not who made it); fsync of
  the output, as no power loss is modelled and the code does not sync the files;
- bounded runs: a descendant leaves the group only with a session of its own.

Not modelled, with the reason per component in `PROJECT.json`: the numeric and
geometric kernels and the mesh generators (exact and binary64 arithmetic: data
without protocol); the field-by-field validators of bundles, manifests and
reports, which are most of the lines of `publish_surface_preview.py`,
`common.py`, `run_skeletal_pose_smoke.py`, `surface_preview.py` and
`successor_surface_preview.py`; CLI rendering, finished experiments, external
engines, linters. The capture publication and rollback of
`run_skeletal_pose_smoke.py`, and the `publish_no_replace` of
`artifact_serialization.py` and `build_root_complex.py`, are other
implementations of a staged rename, each in a sequential program. Source sets
are observations over already validated documents, crate-private and not yet
called by a program (`#![allow(dead_code)]`). The one algorithm with state of its
own among them is the depth-first walk over dependency edges,
`traverse_dependency_graph` of `source_set_provenance_observation.rs`.
`source_preparation.rs` calls admission, validation and the frame preparation in
a row, and reference placement walks a containment tree that validation has
already shown to be one; what they add is exact rational arithmetic.

The models therefore cover a small share of the lines: most of the
repository computes or validates numbers and has neither state nor concurrency.
They cover the places where processes, threads, files and partial failures meet.

## 6. State and plan

Done: the validator with its contract, the index, admission, the envelope, the
publisher, the server, the slots with their contract and refinement, the
transport, the attempt and the interface between them, staged publication,
bounded runs. All safety properties of the runs and both refinements, as far as
they are safety, are proved.

Worth adding:

- that `AttemptSlot`'s step `Execute` is one attempt of `ExactAttempt`: a marker
  that is durable before the first session opens, and one published result or
  one terminal record for each;
- a specification of the review store (a register per review, last save wins)
  that `ReviewServer` refines; its safety is proved piecewise now;
- the step lemmas behind `SessionEnds` and `RunnerEnds`: what bounds each loop
  between two deadlines, which the prover can state without fairness;
- the dependency walk of the source sets when a program calls it (the reached
  members are the reachable ones, a back edge is reported exactly for a cycle).
