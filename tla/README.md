# Verification of gadget-dns-server

TLA+ models of gadget-dns-server, an authoritative DNS server whose names are
little instruments: `counter.<zone>`, `size-900.<zone>`, `set-ttl-60.counter.<zone>`,
`<token>.diag.<zone>` with a live dashboard, an entropy test of a resolver's
ports and IDs, a test of QNAME minimisation, and names that fail DNSSEC in a
chosen way. The models are checked by TLC and, where this says so, proved with
TLAPS. `PROJECT.json` lists runs, mutants, findings, hazards and theorems, and
maps every definition to the lines it models.

## The system

| Component | State | Operations | Modelled in |
|---|---|---|---|
| Query names, `handler/parse.go` | none | `parseTopLevel`, `parseDiag`, `isSetOption`, `isValidSetOption` | `QueryNames` |
| Handler, `handler/handler.go` | `counter`; configuration | `Handle`, `ServeDNS` | `Answers`, `Messages`, `DnsHandler` |
| `FinalizeResponse`, same file | none | EDNS, set-options, NSID, padding, truncation | `Finalize`, `Messages` |
| DNSSEC signer, `dnssec/signer.go` | keys, sorted list of names | `SignResponse`, the NSEC chain | `Answers`, `NsecChain` |
| Diagnostic store, `httpapi/routes.go` | `byToken`, `subs`, channels | `Record`, `AppendRelated`, `Records`, `Subscribe`, unsubscribe, `serveDiagWS` | `DiagStore`, `RetainedLog` |
| Session adapter, `cmd/.../main.go`, and dashboard page, `routes.go` | token of each client, 30 s; rows of a table | `RecordDiag`, `RecordRelatedIfInSession`; rendering, merging | `DiagService` |
| Entropy store, `httpapi/entropy.go` | `byRun`, `runOrder`, cached results | `Record`, `RunStatus`, `Result` | `EntropyStore` |
| QNAME minimisation store, `handler/qnamemin.go` | `byClient` | `Record`, `GetRecentSequence` | `QnameMinStore` |
| Listeners, `server/*.go`, `httpapi/server.go` | closers, sockets | `Start`, `Close`, one handler per transport | `DnsHandler` (queries), `Process` (sockets) |
| ACME, `httpapi/acme.go`, `acme/obtain.go`, renewal in `main.go` | challenges, two files | `Set`, `ServeHTTP`, `Obtain`, `runRenewal` | `Process` |
| Configuration, `config/*.go`, flags in `main.go` | layers | defaults, YAML, environment, flags, `Validate`, addresses | `Config`, `ConfigLayers` |
| The process, `main.go` | | order of the steps of the server and of `--obtain-cert`, signals | `Process` |
| Pages, hex dumps, logging, feed of events | | rendering | not modelled |

A listener runs one goroutine per query. It calls `Handle`, which may tell a
recorder about the query (the three stores, each behind a lock of its own), and
then, on every transport but one, `FinalizeResponse`. Browsers read the stores
over HTTP: the entropy page polls, the dashboard holds a WebSocket that the
store feeds through a buffered channel. The recorder of the diagnostic store is
an adapter that remembers each client's token, so that the queries a validating
resolver sends next are filed under it too. The certificate of the TLS listeners
comes from two files, which the server's renewal and an `--obtain-cert` run
write; both answer the CA's challenges on their HTTP port.

What is hard here:

- **Interleaving.** Each store releases its lock between the steps of one
  operation: `broadcast` copies the subscribers and sends after the lock;
  `Subscribe` takes the snapshot and registers in two sections; `RunStatus`
  counts without the lock and looks the run up again; the QNAME store reads the
  clock before the lock.
- **Bounds and age.** Lists, runs, queues and messages have caps, and ageing is
  lazy: old entries stay until an operation trips over them.
- **Order of effects.** Seven places add to or rewrite a reply and `set-noedns`
  must undo what they did. Capture, metrics and the related query see the reply
  at different moments, and the transports disagree about the order.
- **Replies that do not pack.** `WriteMsg`'s error is ignored: a combination of
  options that makes a message the library rejects is a client without an answer.
- **Two views of the zone.** Handler and signer each list names and types, and
  a wrong NSEC record makes resolvers deny names that exist.
- **Partial failure.** HTTP, UDP and TCP end the process when they cannot bind;
  DoT, DoH and DoQ log it. Certificate and key are truncated and written one
  after the other, in place.
- **Three rules of merging.** The file counts where it is not zero, the
  environment where it is not empty, the flags where their value, given or by
  default, is not zero; a flag's list of separators only is then an empty list.

## The modules

`DiagStore` has one action per critical section and per send. `byToken[t]` is a
set of records numbered by insertion instead of a slice; a message's content is
its number. `log` (everything ever recorded), `shown`, `missed` and `since` are
history. `SendPanics` is a send on the channel `unsubscribe` closed: it ends the
process unless the sender is a DoH request, whose panic net/http recovers.

`RetainedLog` is the abstract specification of the store: a log whose clock
removes what is too old, and which shows the newest. `DiagStore` implements it
under `view <- [t |-> Pruned(t)]`: lazy pruning, eviction one by one, broadcasts
and connections are invisible to a reader, and every change a reader sees is one
of `Append`, `Attach` and `Tick`.

`DiagService` extends `DiagStore` by what stands on both sides of it, and its
actions are conjunctions of the store's actions and their own: a handler's
`BeginDiag` is `Record` and the task it is now in, `ReadSession` and
`AppendSaved` are the two halves of `RecordRelatedIfInSession`, between which the
adapter's lock is free; `LoadPage`, `Connect` and `DeliverUpdate` are the page,
whose script finds rows by timestamp. `pending`, `loaded`, `overlapped` and
`reordered` are history, for the exceptions below.

`EntropyStore` keeps runs as heap objects with references, because a poller goes
on using the run it read after it was evicted. The statistics are a function of
the samples, so a result is the samples it was computed from.

`QnameMinStore` splits `Record` at the lock and leaves the rest of the branch of
`Handle` where the code has it: `Record`, then `GetRecentSequence` for TXT.

`NsecChain` has the signer's names as labels with a canonical order (the kind of a label
is a word of the program, or one that stands for the labels between two of them), the two
searches over them and the records they give: owner, next name, types. `Covers`,
`ClosestEncloser` and their kin are what RFC 4034 and 4035 let a validator
conclude from a record, and are used by properties only.

`Config` is pure: a configuration is a function from fields to values, and each
layer a function from the fields it sets; `ConfigLayers` runs the first steps of
`main` over it. `Process` takes a configuration that validates and is the life of
two processes on one machine, the server and the tool. One action binds one
socket, loads one pair, truncates or writes one file, or exchanges one round with
the CA, which may fail at any time. systemd restarts a server that failed
(`examples/gadget-dns-server.service`), not one that ended well. A port has one
socket, as without binds; what several binds do is in `Config`. A file holds a
certificate's name or is cut.

`QueryNames`, `Messages`, `Answers` and `Finalize` are functions; `DnsHandler`
composes them into the life of a query. A label is a kind and a value, a record
is its type, owner, TTL, length and whether it packs, so that the order and
effect of options, sizes, truncation and packing are exact while texts,
addresses and signatures are not there. `Messages` also holds what the DNS
library does (packing, OPT records), modelled from its use. `DnsHandler` has one
action per step of the transport's own sequence:

| | UDP, TCP, DoT | DoH | DoQ |
|---|---|---|---|
| after `HandleQuery` | `Meter`, `Relate`, `FinalizeReply`, `Write` | `FinalizeReply`, `Meter`, `Write` | `Write` |

`MC*` modules hold the instances: query sets, symmetries, which token a
connection watches. `*Proofs` modules hold the theorems: `DiagProofs` for the store,
its feed, the refinement and the service around them, and one each for
`EntropyStore`, `QnameMinStore`, `Process`, `ConfigLayers` and `DnsHandler`.
`DnsHandlerProofs` rests on `ReplyProofs`, lemmas about the functions replies are
built with, and these on `Folding`, induction over sequences.

## Properties and runs

Every property of a passing run has a mutant in `PROJECT.json`: a plausible bug
in a definition that makes TLC find it violated. The variants stand beside the
definitions they replace, under comments that start with "(Variant". There are
few runs and each is broad: one for each component's states, one for liveness
and one for each disagreement.

**`DiagStore_store`**: two tokens, two clients, a cap of 2, retention of 3 ticks,
2 ticks per second, 4 events, 7 instants. Eviction needs a third event, ageing a
fourth tick, rounding a timestamp needs a second of two ticks, and a related
query of somebody else's record needs two clients; all of them happen together
within the bounds. It has one handler, because `byToken` only changes inside one
lock.
`ImplementsLog` is the refinement of `RetainedLog`: pruning only when touched and
evicting one by one shows, at every instant, exactly the newest `MaxPerToken` of
the queries within the retention, and a related query joins the record `Attach`
names, the first of its client's latest second.

**`DiagStore_feed`**: two handlers (one under DoH), two dashboards, a buffer of 1,
3 events, with the clock stopped, which the feed does not read. A broadcast to
two subscribers is in progress while either leaves and another broadcast starts.
`SubscribersAreLive`: the list has a connection exactly once from `Register` to
`Unregister`. `RegisteredSeesAll`: whatever is stored after registration is on
the page, queued, on its way, or was counted as dropped.

**`DiagStore_live`**: liveness, with 2 events. `LiveSpec` has only
`HandlerFairness`: the Go scheduler runs every goroutine that can run, so a
`Broadcast` under way is weakly fair, while a dashboard may stop reading for
ever. `HandlersNeverBlock`: every broadcast ends nevertheless, which is what the
default case of the select is for. `EventuallyShown` takes `StreamFairness` as
its assumption: a write to a WebSocket returns within `diagWSWriteTimeout`, so
`Stream` and `Leave` are weakly fair too, and either `WriteUpdate` or
`WriteFails` may be the one that happens. Queries, connections and clock ticks
are never owed. A send on a closed channel is an allowed outcome of both, since
the code has it (`DiagStore_closed`).

**`DiagService_dashboard`**: two handlers (one under DoH, whose panics are
recovered), one client, two tokens, one dashboard, sessions of one tick, seconds of
two ticks. Sessions of different clients do not touch, so that one client with two
handlers has all the races; two clients meet in `DiagStore_store`. `SessionIsLatest`:
between queries a client's session is that of its last query for a token, whatever
others read, delete or set meanwhile. A session that moves on between `ReadSession`
and `AppendSaved` is allowed: the query is filed under the token read, as in the code.
`RowsMatchRecords` and `QuietPageComplete` are about the page: each record has one
row, the row's details are those of its query, and when nothing is under way the
page shows every related query of the records it has. They name their exceptions:
two rows for a record whose broadcast was under way when the page was rendered;
rows of one second, which the script cannot tell apart; two broadcasts of one
record that overtake each other, and what falls between rendering and
registration.

**`EntropyStore_runs`**: two run ids, one run at most, 3 allocations over 3
instants, a poller that asks for n = 1 or 2 against runs of up to 2 samples.
With a cap of one, every new run evicts; a retention of one tick lets it expire;
three allocations bring an id back under a new reference while the poller still
holds the old one. `StoreOK` is the types and the representation: the map and the
order stay in step, and both within the cap. Live runs are the newest, and a reply
is computed from the first n samples for the n that was asked,
whatever the cache held.

**`QnameMinStore_race`**: two handlers, two clients, a cap of 2, 4 queries, 4 instants.
`TypeOK` includes the cap.
`OwnQueryReported`: an answer lists the query it answers although the lock was
free in between. `ExpiredOnlyBehindFresh`: the most that can be said of
freshness when the clock is read before the lock.

**`DnsHandler_matrix`**: about 9,000 queries, each through its whole life in one
handler, while a second handler answers a query for the counter. One name per
branch of `Handle` and `handleGadget`, option stacks that pair the branches of
`FinalizeResponse`, six query types, six EDNS variants (none, DO, size 0, size
512, size 65535, version 1), three transports, and odd ones: CHAOS class, names
outside the zone, no question, an unparsable client. Handlers share nothing but
the counter, so the second has one query. `NoEdnsWins`, `EdnsMirrored`,
`TtlsAsAsked`, `UnansweredOnlyIf`, `SizedAsAsked`, `PaddedAsAsked` and
`TruncatedOnlyIf` each cut across several functions; `CounterIsExact` says that
each number is shown once and none is skipped. Three more hold every denial
against the chain. `DenialProven`: a negative answer has its SOA and its signed
proof, and that of an NXDOMAIN proves that neither the name nor a wildcard exists.
`DeniesOnlyTheMissing`: no record of any denial covers a name the handler answers.
`BitmapAdmitsAnswers`: a NODATA proof does not deny another type the handler
answers at the name. The set has names before, between and after the listed ones,
below them and below names that exist only as their ancestors.

**`ConfigLayers_layers`**: each field that a layer can set, in each subset of
file, environment and flags, with a good value, zero and (but for the file) one that
does not parse or lists nothing;
a missing and an unreadable file, named or not; and lists of up to three binds
out of wildcards, addresses and a host's name. Fields do not influence each other before
`Validate`, so one field at a time is enough. `HighestLayerWins` takes the layers
as the struct's tags and the flags' help declare them; `NothingTakenBack` is an
action property.

**`Process_life`**: six machines: the example's ports (DoH on the port of HTTPS,
two names to authorize) with and without another program on port 53; no HTTPS, so
that the listeners load the pair on their own, with DoH's port taken; an HTTP port
that is not 80; entropy's name to authorize; and a configuration that gives ports
twice (DoT and DoH on 853, DoQ on 53). A certificate lasts two days, is
due with one left, and there are four of them, since the files, the listeners and
an order may hold one each; one fault and one run of `--obtain-cert`. So the tool
meets the server in every step, a second order follows a failed one, and a
certificate expires while the CA refuses. `ReadersAndWriterApart`: while one
process writes the files no other reads or writes them, though nothing but the
HTTP port keeps them apart. `OneCertificate`, `ServingIsComplete` and
`StaysWhole`, an action property, need many steps of both processes to fail.
`DueIsRenewed` and `Recovers` are liveness under `FairSpec`: the steps of both
processes are weakly fair, since nothing in them blocks for ever (a request to
the CA has a context with a timeout); days pass; and a CA that is asked again and
again for the same thing grants it in the end, by strong fairness of `Challenge`,
`CAFetches` and `Issue`, without which no renewal could be promised. Starting,
stopping and obtaining are the operator's and are never owed, and neither are
faults.

### Where code and documents disagree

Each of these runs checks one statement of a comment or of the dashboard's help
and TLC refutes it. `findings` has the quotations.

| Run | What happens |
|---|---|
| `DiagStore_closed` | A dashboard leaves between `broadcast`'s copy and its send: send on a closed channel, the process panics |
| `DnsHandler_wrongnext` | `nsec-wrong-next` gets the right next name: its condition never holds |
| `ConfigLayers_loglevel` | The flag's default beats the log level of environment and file |

Other disagreements have no run: the passing property about the same behaviour
names them as its exceptions, so it would fail without them.

| Property | Exception it names | Code, and what it disagrees with |
|---|---|---|
| `RegisteredSeesAll`, `QuietPageComplete` | An event between snapshot and registration, or between rendering and registration, reaches neither; the page ignores the snapshot | `routes.go:492`, `routes.go:216`; comment at 490 |
| `ExpiredOnlyBehindFresh` | The sequence is not in time order, the clock is read before the lock | `qnamemin.go:43`; comment at 63 |
| `EdnsMirrored` | DoQ does not finalize: a request with EDNS gets no OPT record | `doq.go:73`; `handler.go:259` |
| `UnansweredOnlyIf` | The corrupted signature of `sig-fail` is not base64, does not pack, and is not sent | `signer.go:303`; `static_index.go:305` |
| `RowsMatchRecords` | Details of a related query land in the first row of its second | `routes.go:227` |
| `DeniesOnlyTheMissing` | Denials cover `cookie`, `entropy`, `qname-min` and the configured nameservers | `signer.go:44`; comment at 43 |
| `DenialProven` | The denied wildcard is that of the zone, not of the closest encloser; names between listed ones and the apex are proved to exist | `signer.go:425`; comment at 423 |
| `HighestLayerWins` | HTTP port: the flag's default, 80, beats file and environment | `main.go:176`; `config.go:75` |
| `HighestLayerWins` | `Hostname` and `Foreground` are read from nowhere; `HTTP_TLS_PORT`, the `SOA_*`, `LOG_OUTPUT` and `DNSSEC_PUBLISH_CDS` variables are declared and never read | `load.go:31`, `config.go:310`; tags at `config.go:62` |
| `NothingTakenBack` | A flag of 0 disables nothing; a port variable that does not parse disables the port; `-bind ,` takes back the binds | `main.go:141`, `config.go:315`, `main.go:162`; help at `main.go:73` |
| `HighestLayerWins` | A file in the home directory that does not parse is ignored | `main.go:116` |
| `SocketsApart` | DoQ binds a wildcard of one family for both | `doq.go:29`; comment at `server.go:150` |
| `AdvertisedIsServed` | A wildcard of one family, or a host's name among the binds, publishes addresses that are not served | `config.go:227`; comment at 224 |
| `ServingIsComplete` | TLS listeners that cannot bind (the port is another program's, or given twice) or load are missing and `Start` succeeds | `server.go:82`; comment at 43 |
| `StaysWhole`, `Recovers` | A crash, a failed write or a shutdown between the two files leaves a pair that does not load; with HTTPS the server then never starts | `obtain.go:136`, `httpapi/server.go:56` |
| `DueIsRenewed` | No renewal if the HTTP port is not 80, for names of entropy (the routes answer 204 first), or if the file cannot be read | `routes.go:67`, `main.go:510` |
| `ImplementsLog` (`Attach`) | Among records of one second the first gets the related query, not the most recent | `routes.go:452`; comment at 427 |
| `ResultUnlessEvicted` | A run evicted between two look-ups is reported with enough samples and no result | `entropy.go:285`; comment at 267 |
| `UnansweredOnlyIf` | BADVERS with `set-noedns` and an extended `set-rcode` without OPT do not pack and are not sent | `handler.go:339`; `static_index.go:205` |
| `UnansweredOnlyIf` | A long qname-min sequence does not fit a TXT string; nor does a configured hostname of more than 255 bytes | `handler.go:362`, `qnamemin.go`; `static_index.go:265` |
| `PaddedAsAsked` | One to four missing bytes are not padded | `handler.go:1235`; `static_index.go:245` |
| `TruncatedOnlyIf` | TC on every small-buffer DNSKEY reply, over TCP too | `handler.go:276`; comment at 705 |
| `DenialProven` | TXT denials of `nsec-wrong-next` and `delay-N.entropy` lack an NSEC | `signer.go:374`; `static_index.go:309` |
| `EdnsMirrored` | `size-N` with EDNS gets two OPT records | `handler.go:267` |

More were met in reading and are not stated as properties: the capture the
dashboard shows is the reply before `FinalizeResponse`, not the one sent
(`handler.go:455`; comment at 113), DoQ is not metered (`server.go:27`), the metrics count the response code before `set-rcode`
(`metrics.go:13`), nothing sets `Compress`
(`examples/compression-example.md:3`), `Close` stops UDP and TCP only
(`server.go:129`), `acme_ips` alone validates and `Obtain` then refuses
(`obtain.go:38`), and a renewed certificate is not served before the next start.

## Proofs

A theorem holds for every value of the constants that the assumptions allow: any
number of handlers, dashboards, pollers, tokens, clients and events, any cap, window
and resolution, any configuration and any input. `PROJECT.json` lists the theorems.
The assumptions are the named `ASSUME`s of the modules, and TLC evaluates them on the
instances: sizes and windows are numbers, 80 is not the zero of a configuration, binds
are hosts, the nameservers are finitely many names, and a query is what a listener can hand
over (`IsQuery`: one of the transports, a name of at most 255 bytes whose labels have a
place in the canonical order, the EDNS fields a request has). Every proof of `[]P` is the same three steps around an inductive
invariant; what follows is which one, and why `P` is not inductive alone.

**`DiagProofs`**, the store. `TypeOK` is inductive. It contains `HandlersOK`, which ties
`job` and `targets` to `pc`, since without it the head of an empty list would not be
typed. `StoreInv`, for the lists: the sets are finite (for `Cardinality`), numbers of
stored records are below `nextId` and distinct (`Numbered`), and no stored time is
ahead of the clock, rounding included (`Stamped`). `OldestFirst` survives `Record`
because the new number is the largest and the new timestamp is the rounded `now`, and
rounding is monotonic: this is where reading the clock inside the lock is used.
`ListsBounded` survives it because `Evicted` leaves at most `MaxPerToken - 1` records.
`SubsInv`, for the subscribers: no list has a connection twice, and a list has exactly
the connections that watch its token and are between `Register` and `Unregister`, so
that `unsubscribe`'s search takes out one entry and its own. `FeedInv`, for the feed:
`RegisteredSeesAll` would break if the end of a broadcast could drop an event of
another token, or a number came twice; `JobsOwn` and `EventsNumbered` exclude that.
The step that matters is `CopySubs`: the copy is taken after the lock, but it holds
every connection that was registered when the event was stored and still is.

**`DiagProofs`**, the refinement: `StoreImplementsLog`. The abstract view is what
`Records` would return. `Record` is `Append`: what it drops for its age no reader saw,
and evicting one by one leaves the newest `MaxPerToken`, by cardinality
(`EvictedIsNewest`). `AppendRelated` is `Attach`, or invisible when its record has aged.
Everything else changes nothing that shows. No relation between cap, retention
and windows is needed: a rounded timestamp may be too old at once, and `Append` says so.

**`DiagProofs`**, the service: every step of it is one of the store or a stutter of
it (`ServiceRunsTheStore`), so that all of the above holds in the service. The
session's invariant speaks of the newest query of a client for a token (`Newest`).
While a handler is busy with one, the session may be anything, but that handler is
the only busy one and carries the newest query's token; between queries the
session is that token's until its time is over. `SessionIsLatest` alone says nothing
of `until`, without which a reader could delete the session early.

**`DiagProofs`**, the page, in four layers, since its script knows queries only by their
second and updates only by their order. The rendered rows are numbered by age
(`RowsOfRecords`, from `Folding`'s `Ordered`). `WayInv`: every update that is on its way, in
a job or a queue, is about a query that was stored, as it was stored; this holds in the
store. `PageInv`, for `RowsShowTheirQueries`: the rows are the rendered ones followed by those
that arrived, in that order; what is still to come announces no query twice, and
only queries that the page did not render, except those whose broadcast was under
way (`pending`). A row's details alone would not be inductive: the first row of a
second takes them from whatever arrives. `OrderInv`: for a query outside `reordered`
at most one handler has an update about it, which is the query as the store has it,
and a queue tells of the query before it tells of what is related (`Ahead`). `ShowsInv`,
for `QuietPagesAreComplete`: for each query a connected page shows or is about to, the last
update in the queue, or else the row, has what the store has (`Settled`), or a
handler is about to send it (`InTransit`), or one of the exceptions applies
(`Excused`). On a quiet page the queue is empty and no handler busy, and the row is left.

**`EntropyStoreProofs`.** `MapInv`: a new run exceeds the cap exactly if the run
`MaxRuns` before it is still there, and then it is the head of the order; that takes
that runs age in the order of their references, that no two ids share a run, and which
runs are there. `ResultInv`: samples are only ever added, so the first n are the same
whenever they are looked at, and a cached result is of the n it names. `PollInv`: a
poller keeps the reference it read, and no other id or run gets it.

**`QnameMinStoreProofs`.** A list is a finite set whose entries have different
positions, from which the cap follows. Between the two critical sections of a handler its
own entry is in its client's list, or has aged, or as many later ones as the list
holds have been recorded (`Own`); one counts positions to see that pushing it out
takes that many.

**`ProcessProofs`.** `PortsHeld`: a process past the step that binds the HTTP port has it,
and two processes never have one socket. `InPlace`: an order runs only inside the step
that called `Obtain`, and in the server only after all its listeners have read the pair.
The two give `ReadersAndWriterApart`. `CertInv`: until the last listener has loaded the
pair, the listeners show what is on disk. `FilesInv`: the key is written next to the
certificate it belongs to. `PairStaysWhole` is proved action by action from these.
`CompleteInv`, for `MissingForAReason`: a listener with a task is configured, two bound
listeners have different sockets, the server's sockets are those of HTTP, UDP, TCP and
its bound listeners, and while a listener has still to read the pair, it is as
whole as it was at the start: this is where `InPlace` is needed.

**`DnsHandlerProofs`.** The counter: a handler that has not been through `Handle` has no
ticket, so the one it draws is the first it shows. The replies: `ReplyInv` says, for each
step of each transport, that the reply is what `Handle` returned or what
`FinalizeResponse` made of it, and that what is sent is that reply and packs. A property
of what is sent speaks of messages and queries only; it becomes inductive by this
provenance, since `sent` alone does not say what was dropped or overwritten on the way.
The rest is about functions, for every query and every stack of options:

- `Handled`, what `Handle` returns: no TC, other additional records than OPT only beside
  an answer, an OPT record only for BADVERS and `size-N`, and BADVERS exactly for an EDNS
  version other than 0. One lemma for each family and gadget, and for the signer.
- `Finished`, what `FinalizeResponse` makes of such a message: `set-ttl` reaches every
  record because it runs after `set-answer` and nothing after it adds records to those
  sections; `set-noedns` removes all OPT records because it runs last, and what
  `truncateToUDPSize` then leaves fits; TC has one of its three reasons.
- `Mirrored`: each step adds to the last OPT record and only the first can add one, which
  needs that `Handle` left none and that an extended `set-rcode` finds one.
- `FinalizedPacks`, the records that can be sent: whatever `Handle` answers is made of records
  that pack, but for the three replies that are not (a corrupted signature, a qname-min
  list or a hostname longer than a string); signing and denying add only such
  records (`SignedIsSealed`, `BuiltIsSealed`), and so does every option, since what a label
  carries fits in a string. What is left unsent is then a matter of the response code.
- `SizedZoneReply` and `SizeReplyIs`: `Handle` reads some names from the left and some from the
  right, but a name whose gadget is `size-N` reaches `sizeReply` whatever stands before it,
  since the other families decide by a last label that would be the gadget
  (`GadgetIsLast`), nameservers excepted. The loop ends at N or one byte after it, by
  induction over what is missing (`SizedToIs`); the size before it is counted record by
  record.

- `FinalizedSize`: every record `Handle` builds has a length that is a number (`IsRecord`,
  for each family, gadget and NSEC span), and no option but `setednspad` adds padding
  (`Unpadded`), so what the last one adds brings the reply to N (`PaddedSize`). Only the
  default NSID and `set-noedns` come after it. An NSEC span has lengths because the names
  around any name in the chain are names (`NamesAreChained`).

The denials are proved from the same provenance, in three parts:

- The chain. `NameOrder`: the canonical order is a strict total order of all names, not
  only of those listed, with the apex first. `SortedNames`: the list that sorting makes of the
  listed names has each once, in order. `SearchFinds`: the binary search stops where a name
  belongs. So what a record spans holds no listed name (`NextIsNext`, `AroundDenies`,
  `SpanAtDenies`), and the zone's wildcard sorts before them all but the apex
  (`WildcardDenies`).
- The zone. `SettledZone`: whatever the name, the reply before signing either answers a
  type, one of those `Offers` allows the name, or has the SOA alone, or fails.
- The signer. `SignedDenial`: what signing leaves is the SOA first, the NSEC records of the
  denial and no others, and a signature for each; the names that are to break a denial
  never get an NXDOMAIN (`DenialTest`). A signature of a record of `rrsig-wrong-rrset` is
  named after the apex (`SignedOwner`). No denial outside `dnssec-failed` has such a record
  (`NsecOwners`): a name right behind it comes before `sig-fail`, and what sorts between
  two names of `dnssec-failed` is in it (`AfterWrongRrset`).

`DenialsSpareTheZone` and `DenialsAreProven` take the chain and the signer;
`BitmapsAdmitAnswers` compares the zone's part with the types the signer lists
(`AnswersAreListed`), by asking the zone the same name with another type.

**`ReplyProofs`** and **`Folding`.** Most of those functions are folds, and the community
modules define `FoldLeft` by choosing a function on sets of indices. `Folding` is a library of
lemmas that say nothing of this program: for any step and any sequence, that function exists
and its values at 1..k are those of a loop (`Unrolled`). Induction is stated with a set of numbers instead of a predicate
(`Induct`), from the well-foundedness of the natural numbers, so that it can be cited. An invariant of
the modifiers then follows by induction over the options, and an option that is the last of
its kind decides (`LastDecides`). The models pick labels and records with `Only`, a
`SelectSeq` that is a fold: the standard operator's definition is recursive.

**`ConfigLayersProofs`.** At each step the configuration is that of the layers read so
far, and main has gone on only past what does not fail. The rest is case analysis of a
field over three layers, and of lists of binds of every length. The inputs are
whatever the layers can hold: `InputsAssumption` says that a list of binds is a list of hosts.

Attempted proofs corrected the model in eleven places, each of which TLC's instances
did not reach: a listener other than DoH has no socket to close when the pair does not
load (`LoadPair`); a flag with a list of separators empties that list (`FromFlag`); an event
whose rounded time is already too old is never shown (`RetainedLog!Append`); a zero
written in the file is no value (`Layered`); a listener is also missing if the
configuration gives its port twice (`ServingIsComplete`); the records that `set-noedns`
drops may be those of `set-answer`, so that what is sent is compared with both
(`Given`, in `NoEdnsWins` and `TruncatedOnlyIf`); a long name leaves `size-N` no
room (`SizedAsAsked`). The instances now reach the second and the last four of these. Besides,
the text of `set-answer-txt` is at most as long as the label it stands in (`ValidArgs`), and a
configured hostname longer than a string is answered with silence (`UnansweredOnlyIf`); and a
nameserver may be called `size-N`, and then its addresses are the answer (`SizedAsAsked`),
or `delay-N`, and then a proof denies them (`BitmapAdmitsAnswers`).

Every safety invariant a run checks is a theorem. What stays with TLC:

- Liveness (`HandlersNeverBlock`, `EventuallyShown`, `DueIsRenewed`, `Recovers`), which is
  out of the prover's reach.
- The three runs that expect a violation (`DiagStore_closed`, `DnsHandler_wrongnext`,
  `ConfigLayers_loglevel`): each is a counterexample, not a property that holds.

## Bounds

`MaxTime`, `MaxEvents`, `MaxRefs`, `MaxLen`, `MaxQueries`, `MaxFaults` and
`MaxObtains` only bound the
state space; everything else is a parameter of the code (caps, windows, sizes).
Each bounded system may stop when its events are used up, so the runs do not
check for deadlock; in `Process_life` days go on and liveness takes its place. Names have labels of 12 bytes and the zone 13; only sums of
lengths matter, and the sets contain replies on both sides of 512 bytes.

## Not modelled

Texts of records and pages, statistics of entropy results, signatures, the
routes that only render, logging and metrics. `Feed` is a ring of events that only
tests push to. `-generate-zone-keys` and `-version` act and exit, and the zone's
keys are read once from files nothing else writes. The ACME account and its key's
file are left out of `Obtain`: without it an order fails like one the CA refuses.
Numbers of the configuration are zero, positive or no number at all; a negative port
behaves like zero, and one out of range, which `Atoi` clamps, like any other of its sign.
Labels have no escapes, so the limits on an option's length count bytes. `set-delay-*` and `delay-*` sleep and change nothing.
A qname-min answer's list is any length of `SequenceLengths` in `DnsHandler`;
its contents are `QnameMinStore`'s.

## Plan

Modelled: every component that keeps state or decides something. Proved: the safety of
each store, of the session and the page, the counter, the layers and the processes, what
options, padding and EDNS do to a reply, and what denials say. What would come next is
liveness, should a prover for it be at hand.
