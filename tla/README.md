# A verification development of villaz-router

villaz-router is an HTTP service that takes a prompt, decides by rules which
*profile* should answer it, and has a local Ollama generate the answer with the
profile's model. This directory holds TLA+ models of it, the TLC runs that
check them, and proofs checked by TLAPS. Source paths below are relative to
`src/villaz_router/`.

## The system

| Component | State it keeps | Operations | Interacts with |
| --- | --- | --- | --- |
| Routing decision (`router.py`, `scoring.py`, `eligibility.py`) | none per request; reads the frozen ruleset | `decide_route` | called by the adapter |
| Evidence search (`matcher.py`, `normalization.py`) | loop position | `match_evidence`, `_find_term` | called by the decision |
| Ruleset admission and snapshot (`loader.py`, `validation.py`, `config.py`, `canonical.py`) | the documents read | read, parse, validate, freeze, hash | five YAML files; bootstrap |
| Profile registry, compatibility (`registry_*.py`, `runtime_compatibility.py`) | the registry snapshot | load, compare with the ruleset | one YAML file; bootstrap |
| Bootstrap (`bootstrap.py`) | none on failure | `bootstrap_runtime` | lifespan |
| Dispatcher (`dispatcher.py`) | none | `build_dispatch_plan` | handler |
| Body limit (`http_api/body_limit.py`) | byte count, deque of messages | read ahead, reject, replay | ASGI server, application |
| HTTP application (`http_api/app.py`, `dependencies.py`, `routes.py`, `router_adapter.py`) | `app.state.runtime_context`, `app.state.ollama_executor` | lifespan, prompt, readiness, liveness | everything above, executor |
| Data models (`http_api/models.py`, `ollama_execution/models.py`) | none; the client keeps the conversation | validate a body, a response, an execution | handler, executor |
| Identity of a configuration (`canonical.py`, `registry_canonical.py`, `registry_models.py`) | the two hashes in the snapshots | canonical payload, hash, snapshot | bootstrap, readiness |
| Ollama execution (`ollama_execution/`) | the closed flag, the client's connection pool | `execute`, `aclose` | Ollama over HTTP |
| Ollama configuration (`ollama_execution/config.py`, `config_loader.py`, `factory.py`) | the client's timeouts and limits | load, validate, build the client | `config/ollama.yaml`; executor |
| Command line (`cli.py`, `runtime_resources.py`) | the extracted copy of packaged resources, the exit status | `serve` | uvicorn, the supervisor |
| Release (`scripts/`, `.github/workflows/tests.yml`) | `build/lib`, `dist` | test, build, inspect, install, check | the source tree |

The lifespan bootstraps once, publishes the runtime context and the executor on
`app.state`, and when the server stops closes the executor and deletes both. A
request passes the body limit, then two dependencies, which run on worker
threads and read the published pair, then the handler, on the event loop, which
routes, plans, and awaits the executor. The executor awaits a connection of the
pool (one, as `config/ollama.yaml` ships it) and then Ollama.

What is hard here:

- *Arithmetic of the decision.* Priority, conflict of intents, weak-only
  evidence, thresholds and margins are applied as successive filters and
  neighbour comparisons on sorted lists.
- *Checks made at boot, relied on later.* The decision raises on anything boot
  should have refused.
- *Chunked bodies*, which a client may cut anywhere, never end, or abandon.
- *The end of the lifespan*, with an await in it, against handlers that run on and
  worker threads that read what is being deleted.
- *One connection for all prompts*, with a wait that can time out, and failures
  that are translated three times before a client reads a status.
- *Files that change while they are read*, seven of them, without a lock, each of which
  may be met half written.
- *The same data validated three times*, by the public models, the adapter and
  the models of an execution: a stricter inner layer turns a prompt, or a reply that
  was already generated, into a 500.
- *A conversation the service does not keep*: the client replays it, and four layers
  pair its questions and answers anew.
- *Timeouts and limits handed over by name*, of one type, four and three of them.
- *Leftovers*: an extracted copy after a failed start, modules in `build/lib` that the
  source has lost, wheels of earlier versions in `dist`.

`PROJECT.json` lists the hazards one by one, each at its line.

## Modules

| Module | Models | Correspondence |
| --- | --- | --- |
| `Decision` | the decision pipeline | operators named after what each stage yields; `UnnamedMatch` is the match whose construction pydantic refuses; `Resolve` is the body of `decide_route` after scoring |
| `RoutingPolicy` | reference for it | a dominance relation between competing routes, with no sorting and no stages |
| `Admission` | `validate_ruleset_semantics`, the ruleset snapshot | one operator per check; `RulesetSnapshot`; `ParsedDocument`, what the document models leave to check |
| `Dispatch` | registry, compatibility, dispatcher, public errors | `Compatible`, `DispatchPlan`, `Answer` |
| `Router` | the four above composed | `Init` boots any admitted deployment, `Route(q)` decides and plans one request, `Finish` ends it |
| `BodyLimit` | the body limit middleware | `Read` is one turn of the loop, `Replay` and `ReadOn` are `replay_receive` |
| `TermSearch` | `match_evidence` | `Accept` and `Reject` are one turn of the loop with `str.find` in it |
| `OllamaExecution` | one call's outcome | the three translations of a failure and the ordered tests of a reply |
| `PromptService` | lifespan, prompts, probes | see below |
| `PromptContract` | what `POST /v1/prompt` promises | the abstract specification `PromptService` implements |
| `Conversation` | the data of a prompt to Ollama and back | `ValidRequest`, `PromptBody`, `ValidExecution`, `ChatPayload`: one operator per model or constructor; `Handle` and `Settle` are the handler before and after its await |
| `Canonical` | hashes and snapshots across starts | `SortedBy` is `sorted` with a key; `CanonicalPayload`, `RegistryPayload`; `Bootstrap` is `bootstrap_runtime`, `Reorder` and `Change` an operator |
| `OllamaCall` | the file, the client built of it, calls in time | `ValidFile` field by field, `Load` builds the client, then one action per progress of a call, `TimeOut`, `Tick` |
| `Startup` | bootstrap against a deploying operator | one `ReadFile` per YAML file; a file being written is `Broken` or, if it is one of `CutFiles`, cut short but still accepted |
| `Serve` | the command under its supervisor | `Parse`, `CreateApp`, `Load`, `Bind`, `Leave` in the order of `_serve`; signals, a crash, the restart |
| `Release` | the workflow and its two scripts | `Test`, `Build`, `Inspect`, `Install`, `CheckInstalled`, `Help` |
| `MC*` | instances for TLC | constants only |
| `*Proofs` | theorems | see "What is proved" |

Dependencies: `Router` extends `Dispatch`, `RoutingPolicy` and `Admission`, which
extend `Decision`. `PromptService` extends `OllamaExecution`, which extends
`Dispatch`, and instantiates `PromptContract`; of the routing it keeps only the
set of results (`Routings`), which is what `Answer` can return. `Conversation` and
`OllamaCall` extend `OllamaExecution` too, one with the data of a call, the other
with its time; `Canonical` extends `Admission` and `Dispatch`.

**The text of a message.** In `Decision` a message says of every evidence text
whether it is absent, occurs inside words, or stands between word boundaries; a
phrase matches in the last two cases and a term in the last. `TermSearch` is where
that relation comes from. `Normalized` folds accents, which is what the duplicate
and profile-id checks of admission turn on.

**Steps of `PromptService`.** A step ends where the code gives up control. The two
dependencies are two steps, since they run on worker threads; the handler up to
its await is one (`Handle`), since it runs on the event loop; getting a connection,
timing out, and the return of the call are one each. `AskForConnection`, inside
`Handle`, is the pool: a connection at once if one is free and nobody waits, the queue
otherwise; `Connect` hands a freed connection to the head of the queue, and `Expire` may
come first, also while a freed connection has not been handed on. `aclose` is two
(`CloseExecutor` sets the flag, `CloseClient` ends the await, by return or by
exception), and the two dels of the nested `finally` are two, because worker
threads can read between them. `phase` is the position of the lifespan.

**The server.** The variable `drains` is chosen once. `TRUE` is uvicorn as `cli.py` runs
it: no graceful timeout, hence no lifespan shutdown while a request is in flight.
`FALSE` is any other ASGI server: it may deliver requests until the lifespan is over
and may cancel handlers, which `PromptContract` calls `Abandon`. uvicorn's forced exit
skips the lifespan altogether and is not modelled.

**A text** in `Conversation` is what the layers tell of it: whether it is blank, whether
whitespace surrounds it, its length in characters, and its length in bytes as the
client encodes it. The sizes are the real ones (16384 characters, 65536 bytes).

**Time** in `OllamaCall` passes for all calls at once, one second a `Tick`; a call's
clock starts again in every wait, and with every piece of the reply, which is how the
client counts. A `Tick` does not pass a limit that has run out.

**A reply** in `OllamaExecution` has one small field per thing the executor
looks at; `"huge"` is an integer no float can hold, which the executor accepts and
the handler's division does not. `Uncaught` holds the exceptions of `post` that no
clause around it names: `DecodingError`, since the client decodes the body inside
`post`, and any unforeseen one.

## Runs

| Run | Instance | Distinct states | Question |
| --- | --- | --- | --- |
| `router` | three routes, two domains, three intents, five profiles, six texts; 432 deployments before admission, three with an evidence without an id, eight with one fault each | 64 380 | does the pipeline follow the policy and does boot check enough? |
| `body_limit` | limit 3, chunks of 0, 1, 2, 4 bytes, up to 5 messages | 23 116 | is the limit exact and the replay faithful? |
| `prompt_service` | two prompts, one connection, one probe, two models, a reply for each test, both kinds of server | 295 890 | is every prompt answered once and truthfully, and does the lifespan end clean and, if the server drains, unnoticed? |
| `undecodable_reply` | one prompt, otherwise the same | a counterexample | is a reply that cannot be decoded a bad reply? It is not: see below |
| `term_search` | all normalised messages up to 6 and values up to 3 over two letters and a space | 31 816 | is the first place found, always? |
| `startup` | three releases, deployed twice, files written in any order, three of which may be cut short | 1 436 004 | can two releases come up mixed, and can a start fail without a deployment? |
| `conversation` | three exchanges; eight messages, eight selections, seven histories and the replayed one | 76 685 | does Ollama hear the conversation as it was, and does no layer refuse what another let through? |
| `canonical` | one deployment with every list out of order, eight kinds of edit | 5 252 | does the hash follow the meaning, and do equal hashes answer alike? |
| `canonical_accents` | the same | a counterexample | is `accent_insensitive_matching` respected? It is not: see below |
| `serve` | two crashes, both trees, port taken or free, tree broken or sound | 1 132 | does a process clean up, fail only for its tree, and come back? |
| `release` | two data files, one stray, two modules, four edits, two versions | 9 726 | does what passes the scripts rebuild, and serve? |
| `ollama_call` | two calls; the shipped file and every file that differs in a value or two | 25 593 | are timeouts and limits the file's, and does every call end? |

Two runs show disagreements. `undecodable_reply`: the transport lists
`httpx2.DecodingError` among the causes of an invalid JSON response
(`httpx2_transport.py:102-115`), as does `tests/unit/test_ollama_httpx2_transport.py:358-365`,
and an invalid response is a 502 `MODEL_SERVICE_ERROR` (`docs/API.md:188`). But the client
decodes the body inside `post`, where no clause names the exception, so that the client
is answered 500 `INTERNAL_ERROR`. `canonical_accents`:
`docs/ARCHITECTURE.md:70-78` calls the parameters of `config/router.yaml` normative
for the engine, accent folding among them, but nothing reads the switch. With it off an
accented evidence still matches an unaccented message.

What the properties say is written above each of them. Each has, in
`PROJECT.json`, a mutant: a definition of the code changed as a plausible bug would
change it, under which the same run finds the property violated.

**Why the bounds are enough.** `router`: three routes are the least with which a
third route can stand between two others in priority or score, and the margins 1, 2
and 3 meet leads below, at and above them. Weights are scaled to 3, 2, 1, which
keeps every comparison the shipped 10, 4, 1 make reachable. `body_limit`: the
limit is passed by one chunk, by several, and met exactly. `MaxMessages` is the
only bound on the environment. `prompt_service`: of two prompts one calls and the
other waits for the only connection, and the wait may run out in every state of the
call; what longer queues add, several who wait and one who leaves from the middle, is
covered by the theorems, which are about any number of prompts and connections. A probe
needs one instance, as probes do not interact. `term_search`: values of length 3 can overlap themselves by one and
by two characters, and messages of 6 hold an overlapping pair with neighbours.
`startup`: releases 1 and 2 differ in version and profiles, 2 and 3 in major
version only, so each comparison can be the one that refuses a mixture; the
`profiles.yaml` of release 2 may be cut down to the profiles of release 1, so that a cut
file can also pass.
`conversation`: three exchanges are the least in which a pair can be swapped, dropped
from the middle, or paired with its neighbour; there is one text on each side of every
test of a text. `canonical`: every list has two items out of order, and two edits follow
one another, so that an edit can be taken back. `serve`: a second crash meets the
leftovers of the first. `release`: four edits lose a file, bring it back, add a stray
and raise the version, with builds in between. `ollama_call`: two calls contend for one
connection and not for two; `MaxWait` is above every finite limit, and a reply of two
pieces shows that each piece has a limit of its own.

**Deadlock** is checked in `router`, `startup`, `canonical` and `release`, which run
for ever. In the others the system may stop: a request ends, a search returns, a
service shuts down for good, a client has said what it had to say; liveness
properties say it does not stop too early.

**Fairness.** `BodyLimit`: the event loop resumes the middleware when a message
is there; nothing is assumed of the client. `TermSearch`: the loop runs.
`PromptService`: worker threads and the event loop run what is ready, and a call
of Ollama ends, because `config.py` admits only finite positive timeouts; the read
timeout restarts with every byte, so an Ollama that sends its reply byte by byte
for ever is excluded by assumption. No fairness for `Stop`, for clients, or for
`Cancel`. `Serve`: the process goes on and the
supervisor restarts what ended with a failure (`Restart=on-failure`,
`docs/TESTING.md:88`) and, it is assumed, never reaches a start limit; ports are freed
and trees mended by nobody in particular, so `ComesBack` speaks of the moment they are. `OllamaCall`: time
passes, a timeout that is due is raised, a free connection is given out; nothing is
assumed of Ollama, which may stay silent in every wait. `Router`, `Startup`, `Conversation`,
`Canonical` and `Release` have safety properties only and state no fairness.

## What is proved

TLAPS checks the following for every value of the constants; the runs check the
same formulas on the instances above. Every safety property of a run, invariant or
action property, is a theorem; what stays with TLC is liveness. The type invariants
are theorems too (`TypeCorrect`, or with the component's name before it where two
components share a module of proofs); `TypeOK` of `Conversation` is a property of its
run besides.

`RouterProofs` (any set of ruleset documents, registries and messages; any number of
routes, targets and evidences): `FollowsPolicy`, `ContractHonoured`,
`BootChecksSuffice`, `WeakEvidenceNeverRoutes`, `LosersAreIrrelevant`,
`EvidenceForWinnerKeepsIt`. `Booted`, the invariant, says that the request in hand was
decided and answered by a ruleset that is sane and a registry that is compatible with
it. The work is in six groups of lemmas.

- *What admission leaves* (`AdmittedIsSane`): from `ParsedDocument`, which says that
  lists are lists and numbers are numbers, and `ValidRuleset`, it follows that the
  evidences of a target are finitely many and told apart by their ids, that routes are
  finitely many, and that every enabled route has a usable profile and usable
  conditions. Hence neither scoring nor qualification refuses anything
  (`NothingRefused`): this is where each check made at boot is used. `BootIsEnough`
  names the two errors that are left: a winner whose profile has no routing reason, and,
  on exactly the messages it occurs in, an evidence whose id is empty. The second is at
  odds with `docs/ROUTER_007.md:41`, by which admission requires ids that are not empty.
- *The order of candidates*: `Precedes` is a total order on routes told apart by their
  ids, so an enumeration in order exists, and `Ordered` is one (`OrderExists`,
  `OrderedIsEnumeration`). A route's place is the number of routes before it, which
  needs no induction.
- *Resolution*: `Wins` says in one formula what it takes to win, with no filters applied
  in turn. Whatever is routed wins (`ResolveCases`, `MarginDecides`), whatever wins is
  routed (`WinnerIsRouted`), and what wins also wins among fewer
  (`WinsAmongFewer`); together with what withdrawing a route does to the routes that
  qualify (`WithdrawnRoute`) this gives `LosersAreIrrelevant`. `MarginDecides` also
  shows that the branch that raises for fewer than two contenders is dead.
- *The decisions themselves* keep the contract of `RouteDecision`
  (`AmbiguousFacts`, `RoutedFacts`, ...).
- *Scores.* The code groups the matched evidence of a target by strength and multiplies;
  the policy adds up evidence by evidence. `ScoreFolds` shows the two equal for every
  finite set: of the sets they differed on, one would be minimal, and taking one
  evidence from it takes the same weight from both.
- *The policy* (`DecidesByPolicy`): with equal weights the routes that qualify are the
  contenders, and `Wins` says of a route what dominance says of a contender.
- *More evidence* (`MoreEvidenceKeepsWinner`): a text that is evidence only for the
  target that won takes nothing from it and gives nothing to another; routes that share
  the target gain as much as the winner, so that no lead shrinks.

`DecisionsArePresentable` is for `Conversation`: every profile that is dispatched to, or
shown as a candidate, is an enabled one of the registry, and no score is negative, as
the model of a candidate demands.

Assumed: `ParsedDocument` of every document; a message can be asked about every text
that is evidence in some document; `None` is no integer.

`BodyLimitProofs` (any limit, any chunk sizes, any number of messages): `TypeOK`,
`BodyWithinLimit`, `ReplayIsFaithful`, `RejectedOnlyIfTooLong`,
`AppRunsOnWholeBody`. None of the five is inductive by itself. `IInv` adds what
ties the counter to the stream: each message carries the number of bytes up to it,
the counter equals that of the last message received (`CountIsExact`), and the
stream ends with a message without `more_body` or with a disconnect (`StreamEnds`).
The proof has one lemma per action.

`PromptServiceProofs` (any number of prompts, probes and connections):

- `LeavesNothing`, `UsedWhilePublished`, `NothingQueuedOnceClosing` for every
  server. `IInv` says by phase what is published and whether the executor is
  closed, that the context is there whenever the executor is, and that nothing has
  been sent before the lifespan begins or after it failed to. The last two are
  action properties: `UsedWhilePublished` holds because the executor is read last
  and deleted first.
- `DrainedShutdownIsInvisible`: if the server drains, no prompt is in flight past
  `"stopping"`, so no prompt meets a closed executor or an empty `app.state`.
- `ImplementsContract`: the safety half of the refinement `KeepsContract`, for both kinds
  of server. Every step maps to a step of `PromptContract` or to a stutter. The mapping (`Told`, `StatusTold`) reads what a client was told off the stage
  and the answer of its prompt; the invariant that makes it work ties the calls in
  progress to the prompts that hold a connection.
- `BlameRight`: a prompt has an outcome only once it is answered, and is answered by
  what the three tables make of it, so that an answer blames whom `Blames` says: each of
  504, 503, 502 and 500 for exactly its outcomes. The 500s of Ollama's doing are
  exceptions no clause names and a proper reply with numbers no float holds.
- `TypeCorrect`: in particular the queue of the pool holds the prompts that wait, each
  once. Joining, being served and leaving from the middle (an expired wait, a cancelled
  handler) have a lemma each.
- `PoolIsBounded`: no more calls are made at a time than there are connections.
- `SuccessOnlyIfGenuine`: by the lemma `OnlyGenuineSucceeds`, which goes through
  the twelve tests, and the invariant that a prompt waits and calls only with a
  plan.

Assumptions: at least one connection, no model of a plan has an empty name (the registry
refuses one), a reply has the fields the tests look at, and `None` is none of the outcomes, none of the answers and
none of the transport's codes.

`ConversationProofs` (any texts, histories, selections, profiles and outcomes, any
number of exchanges): `TypeOK`, `HearsTheConversation`, `ConversationGoesOn`,
`InnerModelsAccept`, `AnswersTellTheDecision`. The invariant says what is known stage
by stage (`Stages`), that the client's and Ollama's accounts of the conversation are
one and may be replayed (`Remembered`), that Ollama was asked with the chat of a plan
for a valid body (`Asked`), and that an answer that succeeds hands on what Ollama said
(`Answered`). `Remembered` is what makes the next prompt valid, and is kept because
the checks the executor makes of a reply are those the public models make of a turn.
Assumed of the data: a text is none of the sentinels; a reply that passes the
executor's checks has a text that is not blank, a count and a duration; ids and system
prompts are not blank; an automatic decision keeps its contract, its profiles are
enabled and its scores not negative. The last is what `DecisionsArePresentable` shows
of `Router`, so that the two modules fit together.

`ConfigurationProofs` proves about a start and about the hashes it reports.

- `Startup` (any number of releases and deployments): `TypeOK`, `NoTornRuleset`, and
  `FailsOnlyByDeployment` as the theorem `OnlyDeploymentsFailAStart`. Inductive is
  `Compared`: as soon as the documents of a comparison have been read, what it compares
  agrees. Assumed: a release is coherent by itself.
- `Canonical` (documents of any length, any edits): `RulesetHashFollowsMeaning`,
  `SameHashSameAnswers`, and `AdmittedIsAccepted`, that the check of order in the
  registry snapshot can refuse no registry that was admitted, because it was sorted.
  The invariant is short, a service that runs was started with admitted files; the
  work is in what sorting does. `SortedBySorts`: a list whose keys are told apart has
  an order. `OneOrder`: it has only one, because where two orders first differed the
  lesser item would stand later in one of them. Hence two lists are sorted to the same
  one exactly if they list the same items (`SortedTells`), targets with their evidence
  too (`CanonicalTargetsTell`), and admission is what tells the keys apart
  (`AdmittedIsSortable`). So the payload tells the meaning (`PayloadTellsMeaning`), and
  the meaning makes the snapshot, which answers (`MeaningMakesSnapshot`). Assumed:
  strings have one order (`Rank`). The hash is modelled by its payload, so that no two
  payloads collide.

`PackageProofs` proves about the command and about the release.

- `Serve` (any number of crashes): `TypeOK`, `CleansUp`, `FailureIsTheTrees`.
  `Extracted` says that the packaged tree is there as long as the server may read it,
  `Intact` that nobody edits the package's own tree.
- `Release` (any set of files, any number of edits and versions): `ReleaseTypeOK`,
  `InspectedSdistRebuilds`, `CheckedServes`. `Covered` says that `build/lib` holds
  what every wheel in `dist` holds: nothing ever leaves it. `Fresh` and `Single` say
  what passing an inspection leaves true of `dist` until the next build. Assumed: the
  bounds are natural numbers.

`Release` and `Canonical` prefix the names `Init`, `Next` and `Spec` with their own, so
that a module of proofs can extend them beside another component.

`OllamaCallProofs` (any files, any number of calls): `TypeOK`,
`TimeoutNamesItsField`, `ConnectionsWithinLimits`. `OnTime` says that no call has
waited longer than its limit, which holds because time does not pass a limit that has
run out; `FromFile` that the client has the values of the file. Assumed: `MaxWait`
is above every finite limit, so that the bound on time tells all of them apart.

`TermSearchProofs` (any messages and values): `TypeOK`, `FirstPlace`,
`NothingMissed`. The invariant is that no place the value may match at lies before
`search_from`; a rejected occurrence is the first from there on and is no such
place, so the search may go on one character later, but not further. Assumed: messages
and values are sequences of characters, and `None` is no span.

## What is only model-checked

- All liveness (`LoopEnds`, `SearchEnds`, `AcceptedIsAnswered`, `ShutdownEnds`,
  `ComesBack`, `EveryCallEnds`, and the fairness of
  `KeepsContract`): TLAPS, as installed, reasons neither about liveness under fairness
  nor about `ENABLED`.
- That `canonical_accents` and `undecodable_reply` are violated are counterexamples TLC
  found and need no proof.

Two library operators the models could have used are opaque to the provers, `SortSeq`
and `SelectSeq`: `SortedBy` and `Without` say the same by a permutation and by
`SubSeq`. Sums and orders of any length are proved by least counterexamples, since an
induction over data is out of reach.

## What is not modelled

- The Unicode tables of normalisation. SHA-256 and the canonical JSON are taken to tell
  different payloads apart.
- Parsing a URL into its parts, and of host and port on the command line: the models
  have what the validators make of the parts.
- In the release scripts: unsafe or forbidden names in archives, the declaration of the
  entry point, the documents of the sdist.
- Which part of a file is lost when it is cut short: a cut file is one that is not whole,
  and what it agrees with is a constant (`SameProfiles`). Nothing in the code tells it
  from a whole one, so that a service may come up with fewer routes or evidence than its
  release has.
- The wait for TLS, which has the connect timeout once more.
- Behaviour of uvicorn, httpx2, setuptools and Ollama, except as the environment
  described above; uvicorn's forced exit, which skips the lifespan.
- A second lifespan of the same application object, and one behaviour of `BodyLimit`
  and the handler together: the middleware hands the application a complete body or
  a disconnect before the handler begins, and shares no other state with it.

Hazards without a property, and why: a profile id spelled with an accent is admitted as
evidence (the documents give the rule, not its purpose, so that there is nothing to
hold it against); the middleware keeps any number of empty chunks, and
`config/router.yaml` is bound to the rules only by the major version (the code sets no
bound and makes no promise to state); readiness looks at presence, so that a service
whose executor is being closed still says ready; a reply sent piece by piece holds its
connection for as long as it lasts; a message of four-byte characters may be valid
and its body too long (both limits are in `Conversation`, but nothing says they
should agree).

Places where the code is quieter than a reader might expect, kept in the models as
the code has them: a profile with no entry in the table of routing reasons is admitted
and answers 500 when it wins; an evidence with an empty id is admitted and answers 500
when it matches; readiness says ready while the executor is being closed; accents are folded in matching but not when evidence is compared with profile ids.
Two documents lag behind the code: `docs/API.md:13-20` gives `PromptRequest` two fields
and says others are rejected, while the model has a third, `history`
(`http_api/models.py:132`); `docs/ARCHITECTURE.md:149` and `docs/CONFIGURATION.md:132`
name `/api/generate`, while the transport posts to `/api/chat`
(`ollama_execution/httpx2_transport.py:39`). The models follow the code.

## Plan

Every component is modelled, normalisation in part. What would add most next:

1. A composition of `BodyLimit` with `PromptService`, once the middleware watches for a
   client that goes away while its prompt waits; today it does not.
2. `ParsedDocument` derived from a model of the pydantic field types, in place of the
   assumption.
