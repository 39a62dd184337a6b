# A TLA+ model of eventosBackend

eventosBackend is a FastAPI service over PostgreSQL (Supabase) that publishes
tech events: an event is registered, reviewed, edited and published by users
with four roles, and has a slug, tags and an image; beside it there are photo
albums, communities, contributors, user profiles and roles, an audit log
written by database triggers, and a small cache in front of the GitHub API.
This directory models how the requests of that service interleave, with the
database, the storage bucket and each other, and checks and proves what may and
may not happen.

Identifiers keep the source's (mostly Portuguese) names: `eventos`, `papel`,
`motivo_recusa`. `PROJECT.json` maps every definition to its source lines.

## What makes this code hard

Every request runs in one asyncio process (of possibly several), on its own
`AsyncSession` over a READ COMMITTED database. So a request is a sequence of
atomic accesses, and between two of them any other request may commit. Three
facts about SQLAlchemy matter everywhere and are part of every model:

* a commit writes only the columns whose value differs from the one that was
  READ, whatever the row holds by then (`autoflush=False`, unit of work);
* a second SELECT of a row that the session already holds returns the first
  copy (`expire_on_commit=False`, identity map);
* `get_db` commits before the handler starts, so the connection goes back to
  the pool and the handler gets whichever has been idle longest.

On top of these: handlers talk to two services that share no transaction (the
database and Supabase's storage or auth), any step may be the last one of its
request, and one maintenance script runs beside the service.

## Components

| component (source) | state | operations | what makes it correct | module |
|---|---|---|---|---|
| roles and permissions (`rbac/`) | none | the two route guards | - | `Permissoes` |
| event writes and review (`evento_service`, `evento_repository`, `routers/events`) | rows of `eventos` | create, update, delete, publish, approve, reject | nothing of a participant is public before a reviewer has decided; own events only; whole decisions; unique names | `Eventos`, `Moderacao` |
| unique slugs (`utils/slug.py`) | none | `resolve_unique_slug` | a slug nobody has | `Slugs` |
| roles of users (`role_service`, `user_repository`, the role part of `auth_service`) | rows of `user_roles` | assign, remove, social login | only a super_admin makes admins; an admin does not touch admins | `Papeis` |
| accounts and profiles (`auth_service`) | accounts, profiles, roles | register, social login, profile edits | an answered registration is complete, a failed one can be repeated, the user's own name stays | `Cadastro` |
| tags, contributors, communities, the event of an album (`tag_service`, `contribuinte_service`, `comunidade_service`, `galeria_service`) | one table each, with a unique column | create, rename, delete | a request alone is answered what the table says | `NomesUnicos` |
| tags of events (`tag_repository`, `routers/tags`) | `evento_tags`, row locks | set the tags of an event, beside the requests on tags | sound links, all or nothing, waiting ends | `Etiquetas` |
| photos of albums (`galeria_service`) and storage (`supabase_storage`) | albums, photos, files | create, upload, add by URL, delete; the script's loop | no photo without album, no shared `storage_path`, no file taken from another photo unless its URL was given to both | `Galeria`, `Recompressao` |
| event images and the script (`otimizar_imagens_existentes.py`) | the column, files | upload, delete, PUT, the script's loop | the same of images, and one compression at most | `ImagensEvento` |
| event queries, metrics, dashboard (`evento_service`, `dashboard_service`) | a reader's request | paged listing, one event, recommendations, metrics, summary | pages miss nothing but rows that do not validate, totals and lists fit, what is shown was visible | `Consultas` |
| audit log (`audit_service`, `audit_repository`, `dashboard_service`) | `audit_log` (written by triggers) | paged reading, recent activity | pages miss nothing, authors are there | `Auditoria` |
| sessions and audit context (`db/session.py`) | pool, who waits for it, `app.current_user_id` per connection | request begins, waits, transaction, commit, shutdown | exclusive connections, the right author, everyone is served | `Conexoes` |
| GitHub cache (`integrations/github.py`) | the dictionary `_cache` | lookup, store | answers are fresh | `GithubCache` |
| meta routes, tokens, configuration, validators, migrations | none of their own | - | - | not modelled |

They meet in the tables: `Papeis` changes the roles that `Eventos` and
`Consultas` read at the start of a request, so those two let the role read be
any that the user may hold (`RolesOf`, `ChangeRole`); `Cadastro` sees `Papeis`
as "has a row or not"; `Consultas` sees `Eventos` as rows that come, change and
go; `Etiquetas` composes its own requests with those of `NomesUnicos`, whose rows
they refer to and wait for; the triggers of `Conexoes` write what `Auditoria` reads;
every handler runs on a connection of `Conexoes`, which it takes at its first
access after `get_db` (the role check) and keeps until it commits, uploads to the
storage included.

## Modules

**`Permissoes`, `Slugs`** are pure. A slug is the sequence of its dash-separated
tokens, so that the event *named* "Meetup 2" and the second slug of "Meetup"
collide as they do in the program; what `generate_slug` does to characters is
the given function `SlugBase`.

**`Eventos`** is the core. `eventos` is the committed table, `req[q]` a request in
flight: the row as it was read (`lido`), the row it wants (`novo`), and the
access it does next (`pc`: look the name up, read the slugs, write). Each
handler is a first read with all its guards, then the look-ups of
`_ensure_unique_name` and `_resolve_slug`, then the commit, which applies
`Flushed`: only columns that differ from the value read. `usados` are the ids
given out; `semRevisao` is history (events of participants that no reviewer has
touched). Names are compared as the program compares them: `NormPy` in
Python, `NormSQL` in the database. The columns no handler decides by are left out;
an explicit null for `nome` or `status` in a PUT body fails at the database and
leaves no trace.

**`Moderacao`** is the abstract specification: an event is new, pending, released
or removed, and only a released one may be public. `Eventos` implements it
(`ImplementsModeration`, by `fase` and `publico` read off the table).

**`Papeis`** has the rows of `user_roles` with their keys, so that a row removed and
created again is a different row. `assign`, `remove` and `oauth` read the target
(`lido`), check it, and commit by key. `mexidos` is history: the requests since whose
first look at their user somebody else's request on the same user was committed.

**`Cadastro`** has the account, the profile and the role, each committed on its own.
It assumes that e-mail confirmation is disabled at Supabase. With it the final
sign-in is refused and the answer asks to confirm the e-mail; but `sign_up` of a taken
e-mail may then also answer with a user instead of an error, and the code, which looks
only at `user is None`, would go on to store a profile and a role for whatever id that
answer has. What id that is depends on Supabase, so this is not modelled.

**`NomesUnicos`** is four services in one module, because they are one protocol with
different parts missing. `tabela` says which of them a behaviour is about. Tags and
contributors look a name up before a POST (`LooksUpFirst`), communities and albums
leave it to the index; contributors and communities turn the refusal of the index
into a 409 when they create (`HandlesIndex`), nobody does when they rename; only tags
look up an explicit null; an album may have no event, but the one it names has to be
there (`SemEvento` are the names of events that do not exist, which the foreign key
refuses). After its commit a POST or PUT
reads the row again (`Refresh`), which fails when the row has gone. `resposta` is
what a request that met no other has just been answered.

**`Etiquetas`** composes `NomesUnicos` with the PUT of an event's tags: link rows with
their keys, and the row locks of PostgreSQL. A DELETE works on the rows committed
when it begins and waits for transactions that are deleting one of them (it takes
all its locks at once, an abstraction); every INSERT checks the foreign key and the
unique pair, and waits for transactions that have written or deleted it. `WaitsFor`
is the graph of waiting transactions; one on a cycle of it may be aborted
(`Deadlock`), as PostgreSQL does. A PUT for an event that does not exist is a 404 to a
participant only (`NaoEncontrado`): for the others the router does not read the event,
an empty list is answered 200 and any other meets the foreign key. Events are there or
not for a whole behaviour; one that is deleted beside a PUT is not modelled.

**`Galeria`, `ImagensEvento`** have the bucket as a third party: a storage call and a
commit are separate steps. Keys and paths are drawn once (time plus eight random
digits), so what is removed never comes back. In `ImagensEvento` the script is a
process beside the requests.

Nothing in the code looks at the URL that a client sends: an `imagem` of a PUT or POST,
or the `url` of a photo added by URL, may name any file of the bucket, that of another
event or photo included (a copied event, a picture used twice). Both modules let it
(`Corpo`, `AddFotoByUrl`) and keep the files it was done with as history (`copiadas`). For
such a file no property could hold: the deletion of either image takes the picture
of both, and the script with `--remover-originais` removes it after the first row,
stops at the second, and leaves that row with a URL that shows nothing. The help of
the script says only that old cached URLs stop working. What is proved is that this
is the only way, and that two photos never have one `storage_path`. The modules keep the
two tables apart; a URL of an event's file given to a photo, or the other way round,
is the same case and is not composed.

**`Recompressao`** composes `Galeria` with the script's loop over the photos: its
SELECT (by `url`, so also photos added by URL, which get a `storage_path` from it),
download, upload, UPDATE and removal are steps between which requests go on.
`trocadas` is history, the photos that got another file since a deletion loaded
them. Whether a path ends in `.webp` is part of the path (`Webp`).

**`Consultas`** has one reader (readers change nothing) and writers that create,
edit and delete rows, changing between any two SELECTs of a request. An id is its
`created_at`, which is the time the transaction began: rows may appear behind newer
ones. A row may hold a `data_evento` that is not DD/MM/YYYY, and is then not valid
as an `EventoRead` (`formato`): the requests do not write such values, but the
column is free text, and `_serialize_events` is there for rows that came from
elsewhere. No other column can fail it, `periodo` and `status` having CHECK
constraints. The listing leaves such a row out of its page while the total counts it
(`SerializeEvents`); one event, the recommendations and the summary answer 500 when
they meet one. `hist` records what happened since the request began. The reads of
the dashboard's summary are gathered on one session: the role check has opened its
connection, which takes one statement at a time, so they are atomic and come in any
order (`faltam` are those still to be made). A sorted list is any sequence of the
rows in the order (`EmOrdem`); the orders of `Consultas` are total, so there is one.

**`Auditoria`** is the reader of the audit log. `created_at` is the time a transaction
began, so records come late and several share a time; the order of equal times is
left open, and each SELECT may choose another. The recent activity is a page of the
log and then the users. It extends `Consultas` for the operators that cut pages; the
two share no table, so `SpecMC` is "the one or the other".

**`Conexoes`** has the queue of idle connections and the setting each carries, and the
requests that wait because all are in use. The triggers are external: they record
the setting of the connection that writes. `Shutdown` is a server that accepts no
more requests.

**`GithubCache`** has a clock (its names end in `Cache` where the readers of `LeiturasProofs`,
which extends it, have the same); a value is the time at which GitHub gave it. That a
lookup is over after `Timeout` is an assumption about the HTTP client.

The `MC*` modules give constants their values and name the symmetries. The
`*Proofs` modules hold lemmas and theorems only.

## Runs

Passing runs:

| run | instance | question |
|---|---|---|
| `EventosReview` | one event, three users (two of them promoted and demoted meanwhile), two requests at once, all statuses | the gate, ownership, the refinement of `Moderacao` |
| `EventosOneAtATime` | three events, four names that compete for two slugs, two users, one request at a time | decisions are whole, a participant's edit of a decided event returns to review and only a reviewer leads out of there; names are unique, slugs follow them and can be stored |
| `PapeisTwo` | a super_admin, an admin, a user; two requests at once, three keys | who makes admins; an admin's rules hold unless another request on the same user comes in between |
| `CadastroTwo` | two people, two requests at once that may fail | complete registrations, own names kept |
| `EtiquetasTwo` | each of the four tables in turn, two rows, two names and null, one of the names an event that does not exist; for tags an event that exists, one that does not, and lists of two; two requests at once | sound links, nothing lost half-way, a request alone is answered right, every request ends |
| `GaleriaTwo` | one album, two photos, two files and two compressed ones, two requests at once that may fail, photos by any URL, the script as often as it can | albums, files and photos stay together; files go before rows, but for those the script has put in place |
| `ImagensPass` | two events, three files, one request beside the script, as often as it is started and stopped | no image taken from another event unless its URL was given to both, one compression |
| `ConsultasTodas` | three events, five kinds of row in two weeks, one of which does not validate, a reader of two roles, four filters, pages of one | pages and totals; what is shown was visible; the best are recommended; metrics add up; the summary fits; or an admin reading the log while three records come at two times, alone or several in one transaction: what a walk misses has a tie, recent records have authors |
| `ConexoesPool` | three requests of two transactions each, one pooled connection and one more, a shutdown | exclusive connections; whom the audit names; all who wait are served |
| `GithubTwo` | two keys, two lookups, a time to live of 3 and lookups of at most 2 | answers are fresh |

The bounds are small because the hazards are: a race needs two requests and one
row (a third request would have to repeat a step that one of them has taken),
a slug collision needs two names and a third whose own slug is the second's
suffix, a shifted page needs a row per page and one more, an overtaken cache
entry needs two lookups of a key, a cycle of waiting transactions two lists of two
tags in opposite order, a wait for a connection one request more than connections, a
tie two records of one time beside a third, a photo that shows the file of another
two photos (of two albums nothing is asked: no step of a request reads a second
one). One request in flight with three fresh keys covers histories of a few requests
one after another. Numbers that bound a run: `Ids`, `Fotos`, `Arquivos`, `Registros`
(things ever created), `MaxPedidas` (length of a list of tags), `MaxCopias` (files
given to an event not theirs), `MaxTransacoes` (transactions of one handler),
`MaxNow` (the clock of `GithubTwo`, a constraint); the keys of `EtiquetasTwo` are
used again once nothing holds them. Deadlock is checked except where the last
super_admin has removed its own role (`Papeis*`) and after `Shutdown`
(`ConexoesPool`): there the instance really stops. In `EtiquetasTwo` a deadlock of
requests would show as one that never ends (`RequestsEnd`), since the model lets any
request be killed. The two runs with a liveness property use no symmetry.

Runs that show a disagreement between the code and what the repository says,
each listed under "findings" with the line it contradicts:

| run | what happens |
|---|---|
| `PapeisAdminRace` | an admin's request changes the role of one whom a super_admin has just made admin |
| `CadastroRetry` | "Tente novamente mais tarde" cannot be followed: the second sign_up is refused |

Every property of a passing run has a mutant, a plausible mistake kept beside the
definition it replaces as a "Defective variant", under which TLC finds the
property violated.

### Races

Some properties hold for requests that do not overlap and fail for two that do.
They are checked in the first form: in `EventosOneAtATime` by one request at a
time, in `NomesUnicos` and `Conexoes` by a history variable (`juntas`) that tells
which requests have met another. That the restriction is needed can be seen by
giving the run a second request (or dropping `juntas`); TLC then reaches:

* `NamesAreUnique`: two requests look a name up before either commits, and no
  unique index covers `nome`. With one request it fails too when `NormPy` and
  `NormSQL` are made to differ on a name that ends in a tab, which Python's `strip`
  removes and SQL's `trim` does not.
* `SlugFollowsName`, its part on slugs about to be stored: two new events at once are
  given the same slug, and the index turns the second into a 500.
* `SlugFollowsName`, its part on stored slugs (with a name whose slug has another base): one rename writes name
  and slug, another that read the row before it changes only the case of the name,
  and leaves its name beside the slug of the first.
* `EditsReturnToReview`, its part on edits: a participant's edit of a draft that is
  published meanwhile leaves it public with the edited content.
* the same, its part on who leads out of review: a publish that read the event before its owner's edit sent
  it back to review commits after it. Read it together with `ReviewBeforePublic`,
  which no race violates: an event's FIRST way out of review is a reviewer's,
  a later return to review can be overtaken.
* `DecisionsAreWhole`: approve and reject at once; each commit writes the columns
  that differ from what it read, and an approved event keeps a reason.
* `AloneAnswersAreRight`: the DELETE of the second of two PUTs of tags does not see
  the rows that the first inserts, and the event keeps the tags of both. Of two POSTs
  of one tag the second passes the look-up and gets the index's refusal, a 500
  instead of the 409. A rename whose row is renamed by another request meanwhile
  finds the row itself and is refused.
* `OnlyRacesBreakTheRules` excuses the request on whose user another one is committed after
  its first look: an admin's request then changes the role of one just made admin
  (`PapeisAdminRace`), and a social login that found no role writes `participante` over one
  just stored.
* `AuditNamesCallerUntilRequestsMeet`: the handler of one request gets the
  connection on which another named its caller. Since idle connections are used in
  turn, one meeting is enough for requests to be recorded wrongly from then on.

What a property does when nothing is written meanwhile (`RecommendsTheBest`,
`MetricsAreSound`, `SummaryFits`) is about the queries, not about their snapshots: with a
write between two of them the parts of an answer may be of different moments.
`ShownWasVisible` is about `GET /events/slug/{slug_or_id}`, which reads the row before the role;
`GET /events/{event_id}` reads the role in a dependency, before the row, and is not modelled.
Only owners of drafts need care in `EditsReturnToReview`: a draft or archived event is
not decided, and a participant who owns one may publish it by a PUT with status
`publicado`, which the code accepts.

`LogReadsAreSound` excuses records that share their time: `ORDER BY created_at` alone
leaves their order open, so a walk over the pages may skip one of two, also when
nothing is written meanwhile.

In `ImagensEvento` the script writes a row by its id alone, so an image stored
between its SELECT and its UPDATE is overwritten with the old one; no property
forbids it, `ImagesAreNotTakenFromOthers` says that no other event is affected.

Two smaller divergences have no run, having no behaviour: `README.md:80` calls
`moderador` the default role where `DEFAULT_ROLE` is `participante`, and
`README.md:78` names HS256 where `core/security.py` verifies ES256.

## Fairness

Two modules state liveness, both about waiting for something another request holds.

* `Conexoes` (`ShutdownEnds`: when the server stops accepting requests, all in flight
  end, more requests than connections or not): weak fairness of handing out a
  connection that is free or may be opened, of `get_db`, and of ending a handler that
  is not waiting. asyncio runs whoever is ready and handlers have no loop without an
  end; giving up (the pool's timeout) is possible in the model but never needed. It
  holds because nobody waits for a connection while holding one: `get_db` is called
  once for all dependencies of a request, and commits before it yields.
* `Etiquetas` (`RequestsEnd`: every request ends): strong fairness of the next step of
  each request. The step of a waiting transaction is disabled and enabled again when
  others take the lock in turn; PostgreSQL serves those that wait in order, and its
  deadlock detection is such a step.

The other specifications are `Init /\ [][Next]_vars`: safety only. A request may stop at
any step (the process is killed, the client is gone, a service fails) and the code
has no retry, no queue and no background worker whose progress could be promised.

## Proofs

TLAPS proves the following for every value of the constants, from the named
assumptions of the modules only (identifiers finite where a cardinality is
taken, `Nenhum` distinct from every value, typed constant functions). Together the
theorems state every property that a passing run checks, but for the two about
liveness.

* `EventosProofs`, any number of concurrent requests: `TypeCorrect`, `ReviewGate`,
  `Ownership`, `Moderated`. Neither gate nor ownership is inductive: what a request
  has READ must be tied to what the row holds now. `GateInv` says that an event still
  without a review was in review whenever a request in flight read it, and that no
  request of a non-reviewer is about to change its status; `OwnerInv` that the creator
  read is the creator stored, since it never changes. `IInv == TypeOK /\
  ReviewBeforePublic /\ GateInv /\ OwnerInv` is inductive, and gives the step to
  `Moderacao`: every step of a request is a step of the abstract specification or a
  stutter.
* `EventosProofs`, one request at a time: `SlugsFollowNames`, `DecisionsWhole`,
  `EditsAreReviewed`, `NamesStayUnique`. The hypothesis `OneAtATime` (all elements of
  `Requests` are equal) is the one under which `EventosOneAtATime` checks them; "Races"
  says how each fails without it. Any number of events, names, users and requests one
  after another remains. `NamesStayUnique` has a second one, `NamesAgree` (`NormPy` and
  `NormSQL` are the same on the names that occur), which is needed too. `SoloInv` adds to
  `IInv` that stored slugs differ and fit their names and that the request in flight is
  up to date: the row it read is the row stored, the slug it holds is free. `SoloNames`
  does the same for names once the look-up has been made.
* `EventosProofs!ResolvedSlugIsNew`: what `resolve_unique_slug` returns is not in
  use. Among `Cardinality(used) + 1` suffixes one is free (a map from them into
  `used` cannot be injective), and there is a least one.
* `PapeisProofs`: `TypeCorrect`, `NoOtherWayToAdmin`, `RulesHoldWithoutRaces`. The
  invariant adds what each caller may have asked for (`AskedInv`): a request that
  is not a super_admin's never wants to store admin or super_admin; and what a request
  that nobody has raced still knows of its target after one look or two (`RaceInv`): an
  admin that the target is no admin, a social login that there is no row.
* `CadastroProofs`: `TypeCorrect`, `RegistrationStoresAll`, `OwnNamesStay`, whatever fails.
  The type invariant already says that at most one registration of an account is
  under way; `RequestsInv` adds that a request's account is there, and that a
  registration which has come to its role has stored its profile (rows of profiles
  are never deleted: `Grows` is what every step, of any request, does to the tables).
* `EtiquetasProofs`: `TypeCorrect`, `LinksStaySound`, `TagsAreNotLost`, for any number of
  requests, tags and events. What a transaction has inserted is not in the table yet,
  so the invariant speaks of it (`LockInv`): the tags inserted by requests in flight
  exist, no committed row of the event that stays has one of them, and no two
  requests have inserted the same pair or are deleting the same row. This is what the
  row locks give, and each disjunct of `WaitsFor` that `LockInv` needs is used. A
  pigeonhole argument (`NewRow`) shows that a new row always finds a key.
* `EtiquetasProofs!LoneRequestsAreAnsweredRight`: any number of requests, of which those
  that meet no other are answered right, for each of the four tables. `juntas` gives
  `AloneInv`: while a request has met no other it is the only one in flight, so that the
  name it looked up is still free (or its own), the row it read still there, and the
  links of its event are those it found.
* `ConexoesProofs`: `TypeCorrect`, `ConnectionsStayExclusive`, `AuditIsRightAlone`. The
  second needs only the pool's own shape. The third adds `AloneInv`: as long as no two
  requests have met there is one request in flight and one open connection at most,
  which from `get_db` on has the caller's name or none.
* `RecompressaoProofs`: `TypeCorrect`, `NoPhotoOutlivesItsAlbum`, `NoSharedFiles`,
  `NoPictureTakenFromAnother`, `DeletionsCanBeRepeated`, all of the gallery with the
  script beside it; its first half is about the requests alone. The
  invariant adds that uploads in flight hold different files that no row names
  (`UploadsDiffer`), that a file a deletion still has to remove belongs to no photo
  but those it loaded (`FilesOfLoaded`), that what a photo shows is its own file unless
  the URL was given to it (`CopiedInv`), and so of the files the script has listed
  (`ListedInv`), that what it has stored is nobody's until the UPDATE (`StoredInv`), and
  what deletions know of their photos (`LoadedInv`). One lemma (`NextFrame`) says what a
  step of a request cannot do to files and rows; the conjuncts about the script
  follow from it without another look at the handlers.
* `ImagensEventoProofs`: `TypeCorrect`, `NeverCompressedTwice`,
  `NoImageTakenFromAnother`, for any number of requests and of runs of the script. The
  invariant says that what an event shows was stored for it or is in `copiadas`
  (`RowsInv`); `RequestsInv` and `ScriptInv` say the same of the file that a request or
  the script is about to remove or to store, and that the script compresses no `.webp`; `PictureInv` that
  what is no `.webp` was never compressed.
* `LeiturasProofs`, the readers, for tables, pages and caches of any size while others
  write:
  - `WalksAreComplete` (`GET /events`, of the rows that validate) and `LogIsReadSoundly` (the audit log). The rank of
    a row is the number of rows before it in the order. The invariant of a walk says
    that every row of its beginning that has not been lost or moved either has been
    read or has a rank beyond the pages read so far; rows that come in front only push
    it further back, and the last page has no rank behind it. In the log a tie may
    change places between two pages and is excused.
  - `OnlyVisibleIsShown`: `hist.visivel` relates the row that was read to the role, which is
    read later.
  - `BestAreRecommended`, `MetricsAddUp`, `SummaryIsConsistent`: as long as `hist.tocado` is
    false each value already read is what the table gives now, whatever reads are still
    to be made (`ReadInv`), and a request that has failed has met a row that does not
    validate.
  - `TypeCorrect`, of `Consultas`.
  - `CacheTypeCorrect`, `CacheFreshness` of `GithubCache`: an answer is never older than the
    time to live plus one lookup. The invariant says that every lookup in flight is
    younger than `Timeout`, and that the period of an entry ends at most
    `TTL + Timeout` after its value (`PeriodsAreShort`), valid or not.

  The lists of the model are sorted by `EmOrdem`, "a sequence of the elements in this
  order"; `OrderExists` proves that there is one for every finite set and total order, so
  that nothing rests on a choice from the empty set. The two tables are proved about
  separately, as `Consultas!Spec` and `Auditoria!SpecLog`; a step of the `SpecMC` that TLC
  runs is a step of one and a stutter of the other.

Each invariant was first checked by TLC on the instance of the module's run.

Only model-checked: `RequestsEnd` of `Etiquetas` and `ShutdownEnds` of `Conexoes`. Liveness
under fairness and ENABLED are out of this prover's reach. The two runs that show a
disagreement have nothing to prove.

## Not modelled

* Health, Open Graph data and site map (`routers/meta.py`): one SELECT each and text.
  Open Graph data shows an event whatever its status. `docs/OBSERVABILIDADE.md:140`
  promises a 503 when the database is down; the dependency `get_db` fails before the
  handler that would answer so, and the answer is the generic 500. One call, no
  state: noted here, without a run.
* Tokens (a library with Supabase's keys), login, refresh and the start of OAuth:
  they change nothing that the service keeps.
* Configuration, logs, telemetry, rate limits: wiring of libraries.
* Validators and social links: pure checks of single strings.
* Schema migrations: the constraints they make are in the modules of the tables.
* In `Consultas`, text search, the routes made of one SELECT, the summary's counts of
  other tables and what happens when one of its gathered reads fails. In `Galeria`,
  captions and order (`PUT /photos/{id}`). In `Auditoria`, filters of the same kind as the two
  modelled. In `Papeis`, the listing of users with their e-mails.
* E-mail confirmation at registration (see `Cadastro`), and what a network does to a
  single call of the storage beyond failing.

## Plan

1. Done: the core (`Eventos`, `Moderacao`, `Slugs`, `Papeis`), its proofs; storage
   (`Galeria`, `ImagensEvento`), accounts, queries, cache.
2. Done: `NomesUnicos`, locks and waiting in `Etiquetas`, waiting and shutdown in
   `Conexoes`, `Auditoria`, `Recompressao`; the proofs about tags of events, about
   connections, and about the gallery beside the script.
3. Done: proofs of `ImagensEvento`, `Cadastro`, `Consultas`, `Auditoria`, and of what
   holds for requests that do not overlap (`Eventos`, `Etiquetas`).
4. Next: what the races leave of those properties, as theorems without
   `OneAtATime` (a stored slug fits a name its event has had; an event out of
   review has had a reviewer since a participant last wrote it and nobody else
   was at work on it).
5. Then: a failing read among the gathered ones of the summary; the two tables of
   images over one bucket; the deletion of an event beside a PUT of its tags.
