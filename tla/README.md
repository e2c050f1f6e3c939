# Verification of the help desk: ticketing, escalation digest, email gateway

The repository is an LLM help desk. An employee mails `support@…`; the
email gateway polls the inbox, answers some mails from canned texts and hands
the others to a Dify workflow; the workflow calls the ticketing service; a
scheduled workflow escalates old tickets and has the gateway mail a digest to
the operator. This directory holds TLA+ modules that model those parts, the
TLC instances that check them, and TLAPS proofs about them.

Paths below are relative to the repository root.

## 1. Inventory

| Component | State | Operations | What is hard |
| --- | --- | --- | --- |
| Ticketing service (`src/ticketing/`) | tables `tickets`, `messages` in PostgreSQL; one ORM session per call | MCP `create-ticket`, `list-my-tickets`, `append-message`; HTTP `escalate-stale` | calls interleave at every `await`; check-then-insert; writes decided on stale reads; row locks; response before commit |
| `escalate_stale` workflow (`dify/apps/escalate_stale.yml`) | one run per firing: its node, its retries, the parsed body | request, parse, branch on count, send | runs overlap; lost responses; retries of what was done; SMTP that accepts and fails |
| Gateway, digest endpoint (`src/email_gateway/http.py`) | none | `POST /v1/emails/send` | partial failure: 500 although the mail went out; three forms of the tickets |
| Gateway, poll loop (`src/email_gateway/processor.py`, `clients/mailbox.py`) | nothing but the mailbox's `\Seen` flags survives a cycle | fetch batch, route, post with retries, reply, mark | crash between reply and mark; ambiguous SMTP; refused STORE; one mail's exception ends the batch |
| Dify client (`clients/dify.py`, `outputs.py`) | none | one blocking POST, validation of End outputs | which misses are retried; outputs that are almost valid |
| `email_helpdesk` workflow (`dify/apps/email_helpdesk.yml`) | one run per POST | intent, list, retrieval, answer, create, append user, append agent | runs of one mail side by side; steps that fail half-way; stale list |
| Intake rules (`replies.py`), normalization (`normalize.py`) | none | first matching rule; MIME/HTML to text, quote split | order of rules; boundaries of the quote |
| PII masking (`src/privacy/masking.py`) | none | emails, then cards (Luhn), then phones | later passes see the earlier ones' output |
| Configuration, logging, migrations, entry points | none that matters here | | |

How they interact: the gateway posts to Dify and waits; Dify calls the MCP
tools with the sender's address as `user_id`; the scheduled workflow calls
`escalate-stale` and then the gateway; gateway and ticketing never call each
other and share no state. A mail's only durable trace in the gateway is its
`\Seen` flag; a ticket's only durable trace is its row.

What makes each part correct:

- ticketing: at most one active ticket per employee; messages stay in scope;
  only stale tickets are escalated, and status only moves forward; history is
  never lost; an acknowledged write is stored; no call waits for ever;
- escalation: a ticket is reported once, by the run that moved it, after it was
  committed; a run that ends well mailed its digest; every run ends;
- helpdesk workflow: a second ticket or a CONFLICT only beside something that was
  left going on; a follow-up lands on the ticket the employee had; a run that ends
  well has recorded the mail and the answer; a ticket without the mail is that of a run
  that asked for it and failed;
- gateway: `\Seen` only after an accepted reply; repeats only after faults;
  canned cases never reach Dify; mails are answered in order; every mail is
  settled in the end;
- conversions: quote and request are told apart and nothing is lost; the intake
  rules read what a reader sees; every address, card and phone is masked, once;
  a reply names its ticket and cites file names; of every ticket of a digest the fields
  of FR-1 are told.

Not all of this holds: see section 5.

## 2. Modules

| Module | Models |
| --- | --- |
| `Ticketing` | the service, one step per `await` |
| `TicketBook` | what the service promises: a book of tickets with atomic operations |
| `EscalateDigest` | the scheduled workflow and the digest endpoint; EXTENDS `Ticketing`, whose sessions serve its requests |
| `Helpdesk` | the `email_helpdesk` workflow between a gateway and the service; EXTENDS `Ticketing` |
| `Gateway` | the poll loop against a mailbox, an SMTP server and Dify |
| `MailRoom` | what the gateway promises whoever writes to the support address |
| `Pattern`, `MailText`, `Masking`, `EndOutputs`, `DigestBody` | the conversions: choosing from a list and `re.sub`; MIME, HTML, quote split and intake rules; PII masking; Dify's responses; the digest's text |
| `Texts` | samples of the inputs of those conversions, growing piece by piece |
| `MC*` | constants for TLC |
| `TicketingProofs`, `EscalateDigestProofs`, `HelpdeskProofs`, `HelpdeskRefinement`, `GatewayProofs`, `SequenceLemmas`, `TextProofs`, `MaskingProofs` | the proofs |

### Ticketing

Each element of `Sessions` is a unit of work: `pc` says where it is
(`idle`, `select`, `flush`, `commit`), `call` what it was asked, `view` which
rows its SELECT loaded, `locked` which of them it has updated, `stamp` the
`utcnow()` it holds, `reply` the answer its caller has not read. An action is
the code between two awaits:

- `CallCreate`, `CallList`, `CallAppend`, `CallEscalate`: entry up to the first
  statement, with the refusals that come before it (`FORBIDDEN`,
  `NOT_ELIGIBLE`, `MessageRole(role)` raising);
- `SelectActive`, `SelectMine`, `SelectTicket`, `SelectStale`: the SELECT and
  the code after it (`CONFLICT`, `NOT_FOUND`, early returns);
- `FlushTicket`, `FlushRow`, `FlushDone`: the unit of work's flush. UPDATEs go
  out in primary-key order, each waiting for its row lock;
- `CommitCreate`, `CommitAppend`, `CommitEscalate`: the COMMIT; `Rollback`: any
  failure of a statement, or of the process, before it. A commit may be applied
  and yet answered as failed.

The order differs between the two ways in. `_run` in `mcp_server.py` answers
after the commit. `get_db_session` in `http.py` commits after its `yield`; with
the FastAPI version in `uv.lock` the exit code of a request-scoped dependency
runs when the response has been sent. So `SelectStale` makes the reply visible
and the commit comes later.

Abstracted: ticket and message text, usage columns, wording. External, and
modelled from their use: PostgreSQL's READ COMMITTED and row locks, SQLAlchemy's
flush order.

### EscalateDigest

`phase[r]` is the node a run is at, `misses[r]` the failed tries of its two
request nodes, `conn[r]` the session that serves its open request, `rows[r]`
what it parsed, `mails[r]` how many copies the SMTP server took. `ResponseLost`
breaks the connection at any moment of the service's work, which goes on.
`Send` is `send_email` with its caller: an accepted mail may be reported as
failed. `before`, `moved`, `undone`, `owner` are history variables. Beside the
runs only `create-ticket` is called; list and append change no status. `Fire` is
not fair; overlapping runs are possible from the start.

### Helpdesk

A run of the workflow is at a node (`step`), works for a `mail`, carries End's
`ticket` and has a session (`conn`) while a tool call is open. `Intent`,
`ListTickets`, `Decide`, the create and the two appends are the nodes of the
graph with the edges between them; what a model or the knowledge base answers is
a choice. `ToolFailed` is what becomes of a tool error (fails the node) and of a
refusal in the answer (only `Parse created ticket` stumbles over it, the append
nodes' results are read by nobody). `job` is the run whose response the gateway
waits for. `Missed` loses that response: a timeout, an error status or the death
of the gateway; the run goes on in Dify, and the mail may be posted again.
`ToolLost` is a tool node that gives up; the call goes on in the service.
`stray` collects the runs of which something was left going on, `had` the
tickets the sender had when the run was posted, and `maker` the run that asked
for a ticket: it is set when the run's create-ticket reserves the id, so that a ticket
which appears late can be laid to the run that gave it up. How often the gateway retries is
the matter of `Gateway`; here a mail may be posted as long as it is not settled.
`EscalateNow` is an escalation taken at its commit. `TidySpec` is the system
in which `stray` stays empty: every response comes and no tool node gives up.

### Gateway

`fetched`, `batch`, `cur`, `pc`, `failed`, `outbound` are the locals of
`run_poll_cycle`, `handle_inbound_message` and `_outbound_from_workflow`. A mail
is a UID with a kind that says what the loop tells apart: `sender` (From holds
a mailbox), `static` (an intake rule matches), `readable` (`normalize_inbound`
returns), `sendable` (the reply's headers can be set). `Misses` are the ways a
POST can fail; `Retryable` is `is_retryable_workflow_failure`. Every failed
submission, lost flag or crash counts as a fault of the mail in hand, so that
`DuplicatesNeedFaults` can say what a repeated reply costs. Three exceptions leave the
cycle: of the fetch (`PollFailed`), of a reply whose headers cannot be set
(`SendRaises`), and of a POST that is answered with JSON that is no object
(`PostRaises`, the outcome `raises` of `EndOutputs`; `dify.py:120`), which `raised`
remembers until the next cycle. The kind of a mail fixes the first two; the third may
hit any mail that is posted, `MaxRaises` times.

`MailRoom` knows letters only: away, open or filed, replied to, and what went
wrong with them. Under `Room` in `Gateway` the mailbox's flags are the trays and
the faults are the mishaps; the loop, its batches, attempts and restarts do not
show.

### Conversions

Texts are sequences of abstract characters; only what the patterns tell apart
is told apart. In `MailText` every word is another number, so that a property can
say where a word went; spaces are left out, so `< >` and `<>`, which the
leftover-tag pattern tells apart, are one. `Masking` keeps digits, separators,
letters, `+` and the `@` with its domain. `EndOutputs` keeps of a response each
field the code looks at, with each kind of value. The knowledge-gap marker is
"contained", in any case, as in `outputs.py`; the workflow's own test in
`email_helpdesk.yml` is not modelled apart from it. In `MailText` a
mail is the sequence of its parts as `walk()` visits them, each with its depth in the
tree: an attached multipart or mail is itself skipped, and the parts inside it are not.
In `DigestBody` a ticket has a `status`, which is accepted and never told, and a list
of tickets that have no other field gives an empty mail, as in the code.

The properties in `Texts` compare what the code makes of a sample with a
description of the sample as a whole (`Quoted`, `Hidden`, `IsCard`, `Shown`, ...)
that does not follow the code's passes. `Masking` and `MailText` were also run
beside the Python functions on random inputs and agreed.

## 3. Runs and bounds

| Run | Checks | Instance |
| --- | --- | --- |
| `ticketing_calls` | TypeOK, EscalatedIsStale, AckedIsDurable, NoDeadlock, StatusForward, HistoryKept; CallsEnd under `FairSpec` | 1 employee, 2 tickets, 1 message, 2 sessions, threshold 1, clock 0..2 |
| `ticketing_serial` | OneActivePerUser, MessageScope, ImplementsBook under `SerialSpec` | 2 employees, 2 tickets, 1 message, 2 sessions, threshold 0, clock 0..1 |
| `digest_safety` | DigestTypeOK, FreshDigest, DoneMeansMailed, NothingLostWithoutMiss, ReportedUnlessUndone, MailBudget | 2 runs, 1 retry, 2 sessions, 2 tickets |
| `digest_ends` | RunsEnd under `DigestFairSpec` | 1 run, 2 retries, 2 sessions, 2 tickets |
| `helpdesk` | DeskTypeOK, TwoActiveNeedOverlap, ConflictNeedsOverlap, FollowUpAppends, ReportedIsRecorded, BareNeedsFailure | 1 employee, 2 mails, 2 runs, 2 sessions, 2 tickets, 4 messages, clock 0..1 |
| `gateway_mails` | TypeOK, SeenMeansAnswered, DuplicatesNeedFaults, StaticNeverPosted, InOrder, BatchHandled; Settles and ImplementsMailRoom under `FairSpec` | 3 mails of 5 kinds, 3 attempts, 1 fault per mail, 1 restart, 1 POST that raises |
| `texts` | QuoteKeptApart, SplitLosesNothing, BodyIsUnattachedTexts, IntakeReadsWhatIsSeen, PiecesMasked, MaskedOnce, RepliesNameAndCite, AnsweredRunNotRepeated, TicketsAllTold | HTML up to 7 characters and tags, plain text up to 6, intake up to 5, trees of 3 MIME parts, 2 numbers or addresses, every response and digest request of the sample sets |

What they show, beyond the names:

- in `ticketing_calls` and `ticketing_serial`: whatever the interleaving, only
  tickets over the threshold are escalated, what a tool acknowledged is stored,
  nothing is lost or taken back, no circle of row locks forms; and when the
  creates of one employee do not overlap the service is a `TicketBook`;
- in the digest runs: what a digest names is fresh and accounted for although it
  leaves before the commit; a digest is lost only after a miss; the copies are
  bounded by the retries;
- in `helpdesk`: the missing lock of `create-ticket` shows only when something of
  an earlier run was left going on, because the workflow lists before it creates
  and the gateway has one mail in hand at a time; then, and only then, an employee
  may get two tickets or a run may fail on CONFLICT;
- in `gateway_mails`: `BatchHandled` and `Settles` are what remains of the
  unconditional claims. A batch is worked off up to the first mail whose reply cannot be
  addressed (a line break in a decoded Subject raises in `mailbox.py:122`, outside
  the `try` of `_deliver`) or whose POST raised; a mail is settled in the end in an
  inbox without unreadable mail, if no reply up to its own raises; POSTs that raise
  only delay it;
- in `texts`: `BodyIsUnattachedTexts` and `TicketsAllTold` say what is read and told,
  which is not in every case what the documents say (section 5).

The other runs (`helpdesk_create_race`, `digest_lost`, `gateway_unreadable`,
`texts_angle`, `texts_card`) end in a counterexample on purpose; section 5 tells
what each shows.

Why the bounds are enough for what is asked. Every hazard of the service is
between two units of work on at most two rows; two tickets let a flush hold one
row and wait for the other; a clock of one tick makes a ticket stale at
threshold 0, and one of two ticks tells a ticket of age 1 from one that is
older. Two overlapping runs, or one run and its own abandoned request, are all
the parties of a lost or doubled digest. Two runs of the help desk are a run and
what was left of the one before it, on the same mail or on the next; four messages
are both roles of both. `MaxRetries` is 1 or 2 in the passing digest runs and 3, as
in the export, in `digest_lost`; the budget is checked at its limit either way.
Three mails give the loop a mail before, in and after a failure. Faults and
restarts are bounded, and so are POSTs that raise, otherwise no mail would ever be
settled; one that raises may hit each of the three mails. Three MIME parts are a text
beside an attached mail with a text inside it. Documents of seven
characters hold a quote in a quote, a script in it and words on all sides; two
numbers are enough for one to stand beside the other. Numbers are sampled at 9, 10,
13, 15, 16, 19 and 20 digits, the lengths at which a pattern begins or ceases to
match, with a right and a wrong check digit, in one run of digits and, at 10, 15 and
16, in groups of four with spaces or dashes, at 10 and 13 also behind a plus;
`texts_card` takes groups of 13 to 19 digits.

`MCEscalateDigest` and `MCHelpdesk` restrict TLC by an action constraint,
`LeastFirst`. It drops no behaviour the properties tell apart: uuids are
interchangeable, so the least free id stands for any; so are sessions and, in
`Helpdesk`, the mails of one employee; the clock turns only when a ticket can grow
stale by it, in `Helpdesk` only between calls (stamps taken early are explored by
`ticketing_calls`); a digest run that has its rows goes on at once, since the rest
of it writes nothing that anybody else reads. `digest_safety` also uses symmetry
over sessions and runs, which only invariants allow. The digest, help desk and text
runs switch deadlock checking off: when every run has ended, the clock stands and
all ids are used, or a sample is as long as it may be, the system may stop;
`RunsEnd` covers a run that is stuck.

Every property of a passing run also has a mutant, an operator beside the one it
replaces ("Mutant of ..."), that a plausible bug would turn the code into and that
the run refutes.

### Fairness

- `Ticketing!Fairness`: weak fairness of a session's own steps (each awaited
  statement returns), strong fairness of `FlushRow` (PostgreSQL queues waiters
  on a row lock and serves them in order). Calls and ticks are not fair.
- `EscalateDigest!DigestFairness`: Dify goes on with a run; a request gets a
  connection in the end (strong, since sessions are the model's bound and not
  the code's); the service as above; answers nobody waits for are dropped.
- `Gateway!FairSpec`: weak fairness of the loop as a whole: `poll_with_interval`
  catches every exception and sleeps a finite time, POST and SMTP have timeouts,
  and the container restarts a dead process.

`Helpdesk` and `Texts` claim safety only and state no fairness.

## 4. Proofs

All theorems hold for every value of the constants that satisfies the named
assumptions (ids are distinct from `None`, ticket ids are naturals so that the
primary-key order is `<`, the clock's bound is a natural, runs of the help desk are
numbered in order, and the like).

`TicketingProofs`. The invariants of the service are not inductive: that a
message's ticket belongs to its author depends on what a session checked before
it was granted the row lock. `IInv` in `Ticketing` adds what a session holds at
each point: `SessionOK` (program counter, view and locks agree), `CreateOK`,
`AppendOK`, `EscalateOK` (a call's arguments and what its SELECT established are
still true), `Unshared` (an id or a lock has one session), `LockOrder` (locked
rows come before the rows still to lock) and `StatusOK`. `Invariance` proves it
action by action; `TypeCorrect`, `ScopeKept`, `OnlyStaleEscalated`,
`NoMutualWait`, `StatusOnlyForward`, `HistoryNeverLost` follow.
`AcknowledgedIsStored` needs its own induction over it. `SerialOneActive` is
proved for `SerialSpec` from `SerialInv`, whose extra part `NoneActive` says that
nothing comes between a create's SELECT and its COMMIT.

Last there is the refinement. Under the map that drops `updated_at` and every session,
a COMMIT of create, append and escalate is `OpenTicket`, `AddNote` and
`EscalateAll` of `TicketBook`, a tick is `TurnClock`, and everything else
stutters: `Refinement` proves `SerialSpec => ImplementsBook`. `EscalateAll` gets
the rows that were still open, since a row another run escalated in the meantime
is only written again.

`EscalateDigestProofs`. `ServiceStep`: every step of the workflow's system is a
step of `Ticketing` or leaves it alone, so `IInv` is inherited and need not be
proved again. `DigestInv` adds what links a run to the service: `LinkOK` (a
waiting run has a session of its own, which is working for it or has answered),
`FreshOK` (what a run was told is disjoint from what was escalated before it
fired), `AccountedOK` (what it was told is escalated, or still in the view of a
session of its own, or was rolled back) and `FirstTryOK` (before its first miss a
run has one session at most, and what that moves is what it tells). `WorkCases`
sorts the service's steps into four by their effect on the tables, so that each
part of `DigestInv` is disturbed in few places. From `DigestInvariance` follow
`DigestsFresh`, `EndsAreMailed`, `NoLossWithoutMiss`, `ReportsAccounted` and
`MailsBounded`. `DigestIsTheService` states the inheritance as a refinement,
`DigestSpec => Spec`, so that `DigestKeepsForward`, `DigestKeepsHistory`,
`DigestKeepsAcked` and `DigestNoMutualWait` are the service's theorems under the
workflow, its retries and its abandoned requests.

`HelpdeskProofs`. `IInv` is inherited in the same way (`EscalateNow` is the one
step that is none of `Ticketing`). `DeskInv` holds, per run, what its node
presumes (`RunOK`), whose call its session works on (`CallOK`) and what an answer
that nobody has read says (`AnswerOK`, `Says`); for the system without strays that
the run the gateway waits for is the only one and that "no ticket found" is still
true (`AloneOK`, `NoneYet`); and which run accounts for a ticket without a mail: the
run that `maker` names for the id a session has reserved (`CreatorOK`, `Backs`), and
once the ticket is stored the same run, at the node it has reached or failed at
(`Accounts`, `BareOK`). What a run knows lasts because history is
never lost (`DeskHistory`, `Lasting`): each step then only has to show what it
changes. `SessionCases` sorts the steps of a session by their effect. The six
safety properties of the run follow.

`HelpdeskRefinement`. `DeskIsABook` proves `TidySpec => ImplementsBook`. It needs
no assumption that creates are serial: a create commits for the run the gateway
waits for (`AloneOK`), and what that run saw when it listed is still true
(`NoneYet`), so the employee has no active ticket at the commit and the step is
`OpenTicket`: that creates of one employee do not overlap, which `SerialSpec` assumes,
is what the workflow guarantees. (It was tried with TLC on two employees' mails first.)
`TidyDeskOneActive` is its consequence for the tables. The service's other promises
hold with strays, too: `DeskKeepsScope`, `DeskKeepsForward`, `DeskKeepsHistory`,
`DeskKeepsAcked`, `DeskNoMutualWait`. They come from the lemmas of `TicketingProofs`
on single steps and one look at `EscalateNow`.

`GatewayProofs`. `IInv` in `Gateway` adds to the properties: `LoopOK` (the mail
in hand is unseen and out of the batch), `RouteOK` (what routing established),
`RepliesPaid` (an unseen mail's replies are all paid for by faults, but for the
one about to be marked), `QueueOK` (older mails are settled, in hand, or
still in the batch) and `BatchOK` (what a cycle has passed is settled, or met a
fault). `Invariance` then gives `TypeCorrect`, `SeenOnlyAnswered`,
`DuplicatesPaid`, `IntakeFirst`, `BatchWorkedOff` and `AnsweredInOrder`.
`RoomImplemented` proves `Spec => ImplementsMailRoom`: an accepted reply is
`Reply`, which is due because of `RepliesPaid` and `QueueOK`; a failed submission,
a lost flag and a crash are `Mishap`; a stored flag is `File`; all else stutters, an
exception of a POST included. `BatchOK` needs `Dropped` for the mails that such an
exception, or one of a reply, takes out of the batch unhandled.

`SequenceLemmas`. The conversions fold over their input, and the library's
induction rules take an operator as a parameter, which the provers cannot
instantiate. So induction is stated here for sets: `SequenceInduction` says that a
set of sequences that holds `<<>>` and is closed under `Append` holds them all, and
is proved from the least index that would be a counterexample. What a recursive
function does is then a lemma on `Append` (`OnlyAppend`, `FlattenAppend`,
`FoldingAppend` for folds of the community modules), and everything else about it
follows by `SequenceInduction`.

`TextProofs`, for texts, requests and responses of any length.

- `SplitKeepsLines` for any sequence of lines, from the first boundary line being a
  least element; `AnsweredOnce` and `RepliesGood` for any responses with any lists
  of file names, by the cases of `CallResult` and of the body's blocks.
- `EachTicketTold`: the blocks of a digest are, one by one, the tickets with a field of
  FR-1 (`Telling`, `DigestTells`), and a mail is the digest of the tickets given in one
  of the three ways (`OneWayMailed`). `Offered` is a set: which way goes first is the
  code's matter, and where a request uses one way only there is nothing to choose.
- `NothingLost`: `ExtractBody` of a plain mail, then the split. `UnattachedTextsRead`:
  the words of the joined parts are those of the parts (`JoinWords`), through the HTML
  extractor, too (`WordsOfHtml`), which gives the first half; for the second two mails
  that differ only in parts that are not read have the same leaves (`OnlyAlike`).
- `IntakeHearsWhatIsSeen` and `QuotesApart` compare the extractor, which only looks
  at the next token and keeps two counters, with descriptions of the whole document.
  Three invariants of the extractor carry them along the document: `Counted`
  (`skip` says whether the place is `Hidden`; `quote` is the largest excess of opened
  over closed quotes behind any earlier place, hence positive exactly where the place
  is `Quoted`); `Heard` (but for line breaks and quote marks the chunks are what was
  seen, and a quote that has left no mark is at the start of a line); and `Apart` (the
  chunks are the words before the first visible quote, or those, a line break, the prefix and
  the rest). `QuotesApart` then cuts `SplitLines` at that line break (`SplitConcat`)
  and shows that no line before it is a boundary and the one behind it is.

`MaskingProofs`, for texts of any length.

- `Substitute` (`re.sub`) is a function built backwards over the places of a text.
  `Walk` and `Became` describe it as a walk: from a place where a match begins the
  replacement is put and the walk goes on behind the match, from any other the
  character is put and it goes on at the next. A walk is determined by what happens
  at its places (`WalkExists`, `WalkOnce`), so two texts on which the
  same happens give the same.
- `NothingCrossesComma`: `MaskText(a, b)` is `MaskText(a), MaskText(b)` for any two
  texts `a` and `b`. No match holds a comma, and what the patterns look at beside a
  match (a word boundary, a digit before or behind it) is the same at a comma as at
  an end of the text. This is shown for each of the three patterns and then for the
  three passes in turn.
- A piece alone: an address is matched as a whole by the first pass and a number by
  the second or third (`EmailWhole`, `CardWhole`, `PhoneWhole`), or nothing of it is
  matched (`EmailUntouched`, `CardUntouched`, `PhoneUntouched`). A placeholder is
  matched by none (`MasksStay`): the two digits the phone mask keeps are too few.
- `LuhnIsCard`: `_luhn_ok` adds up from the last digit and doubles every second one;
  the standard's sum is over the places. Both are the same sum over a finite set,
  taken in another order (`SetTotal`, `TotalReversed`), for any digits.
- `EachPieceMasked` and `MaskedTextStays` join this by `SequenceInduction` on the
  pieces: one more piece is one more comma.

The assumptions are on what a sample is made of. `PartsAssumption`,
`ResponsesAssumption` and `RequestsAssumption` give types. `AlphabetAssumption`
says that no text of an HTML document is a literal `<` or `>` or the head of a quote:
with a literal `<` the quote may become part of the request, as `texts_angle` shows.
`PiecesAssumption` says that a piece is an address, a number or holds neither.
A number of digits only may have any length. One with separators has at most as many
characters as a phone number may have, and 13 digits only with its last group:
otherwise the card pattern cuts it before its end, and what `texts_card` shows may
happen. `NothingCrossesComma` and `LuhnIsCard` need none of this.

Only model-checked: the liveness properties `CallsEnd`, `RunsEnd` and `Settles`,
since the prover does not do liveness under fairness. Every invariant and every other
action property of a passing run is a theorem. The inductive invariants of the
systems were also checked with TLC before they were proved.

## 5. Where the code and its documents disagree

| Run | What TLC finds |
| --- | --- |
| `helpdesk_create_race` | the response of a run is lost, the gateway's retry starts another beside it; both list no ticket, both `create-ticket` calls pass the check, and the employee has two open tickets (`service.py:118`, against its docstring at 108) |
| `digest_lost` | the retry of an applied but unanswered request finds nothing; the run ends without a digest (`escalate_stale.yml:141`, against CONTEXT.md:32-33) |
| `gateway_unreadable` | a mail with an unknown charset raises out of the fetch, in every cycle; nothing is answered any more (`normalize.py:191`, against `normalize.py:65` and `test_email_gateway.py:345`) |
| `texts_angle` | a visible `<` in the employee's own text runs to the `>` that prefixes the first quoted line; the quote becomes part of the request (`normalize.py:142`, against 74-75) |
| `texts_card` | a card of 17 to 19 digits in groups of four stays in clear: the candidate ends with the first group that makes 13 digits, and the rest is none (`masking.py:33`, against requirements.md:222-224) |

Met while reading, without a run of their own; where a property is named it states
what the code does:

- requirements.md:22 says that the gateway "ignores attachment contents", and
  `extract_body` has "skip attachments" (`normalize.py:203`). `message.walk()` goes into
  an attached mail or multipart, whose parts are not attachments themselves
  (`normalize.py:206-208`): the text inside reaches the body, and a plain one there
  displaces the HTML of the mail itself. `BodyIsUnattachedTexts` says what is read, and
  that attachments change nothing where none of it is inside one;
- `DigestTicket` takes a `status` (`email_gateway/http.py:30`), which `escalate_stale`
  sends with every ticket, and `_format_ticket_block` has no line for it
  (`http.py:83-91`; FR-1 lists the other five fields only). A ticket with nothing but a
  status is left out of the mail, and a list of such tickets makes an empty one.
  `TicketsAllTold` is about the fields of FR-1 and says that no status is told;
- a response below 400 that is JSON and no object raises in `dify.py:120`, past the
  `fail_reason` that `run_blocking_workflow` has for other unusable answers, and the
  rest of the batch waits for the next cycle. `BatchHandled` says what remains;
- an escalation sets `updated_at` (`service.py:265`) although CONTEXT.md:21 calls
  it the time of the last create or append;
- two overlapping escalations may both report a ticket that moved once
  (`service.py:256`), since both select before either commits;
- a ticket that another system closes between an escalation's SELECT and UPDATE
  becomes escalated (`service.py:264`, FR-7); that system is not modelled;
- the digest goes out before the commit (`ticketing/http.py:53`, FR-8);
  `ReportedUnlessUndone` says what is left of the order;
- the send node retries (`escalate_stale.yml:251`) although
  `dify/apps/README.md:8` says retries are off; a digest may be mailed twice;
- `12 4111 1111 1111 1111` is masked as a phone with the digits 11 and a clear
  rest, because the candidate pattern starts at `12`; `masking.py:80-81` claims
  that cards come first so that a phone never matches part of one.

That a digest is lost when SMTP fails, and that replies repeat after a crash, is
documented behaviour (FR-8) and not listed.

## 6. Not modelled

- Dify, the models and the knowledge base: third-party, seen only through requests
  and outcomes, which are choices here.
- Settings and log formatting: they keep no state that a property reads. What is
  mounted and started by the entry points is what the specifications start with;
  the wiring itself is left out.
- Schema migrations run before the service; the schema they leave is `TicketRow`
  and `MessageRow`.
- The offline evaluation scripts.
- Another system that changes tickets (FR-7): it is not part of the repository.
- The order of `updated_at` under late commits is modelled (`stamp`), but nothing in
  the code or the documents promises one, so no property is stated.
