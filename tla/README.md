# Martha — TLA+ models and proofs

Martha plans childcare and computes its monthly cost. It is a set of TypeScript
services, each with its own PostgreSQL database, that exchange *integration
events* through NATS JetStream. This directory holds TLA+ models of the parts
whose correctness depends on the order of steps, on failures, on repetition or
on rules that interact, the TLC instances that check them, and TLAPS proofs of
the properties that matter most.

## 1. Inventory

### The system

| Part | State it keeps | Operations | Talks to |
| --- | --- | --- | --- |
| Outbox (`libs/nest-commons/.../outbox`) | rows `outbox` (`occurred_at`, `published_at`) | a command inserts its rows in its own transaction; the relay reads, publishes, stamps | database, NATS |
| NATS client (`messaging/nats.service.ts`) | connection, streams REFERENTIEL, FOYER, PLANIFICATION, NOTIFICATIONS | publish with `msgID`, deduplication window, 30-day retention | broker |
| JetStream consumer (`messaging/jetstream-consumer.ts`) | durable at the broker; `processed_event`, `dead_letter` in the database | loop: parse, project in one transaction, ack / nak / term | broker, projections |
| svc-foyer | households, parents, children, dated incomes, preferences, unsubscription tokens | create, change, withdraw, erase; preferences; unsubscription | publishes on FOYER |
| svc-referentiel | tariff grids, dated publications | insert-only publications | publishes on REFERENTIEL |
| svc-planification | contracts and their dated versions, calendars, plannings of months and weeks | create, amend, correct, attach, delete; save a month or a week; edit a calendar; quantities of a month | consumes FOYER, publishes on PLANIFICATION |
| svc-tarification | projections of contracts, quantities, incomes, tariffs | projections, cost of a month | consumes all three, asks svc-planification and svc-foyer |
| svc-notifications | projections of households and contracts; `envoi_recap_hebdo`, `envoi_recap_parent`, cards, `notification_hebdo`, `envoi_etablissement` | Tuesday reminder, weekly validation, mail to an establishment | consumes FOYER, PLANIFICATION; publishes on NOTIFICATIONS; SMTP |
| api-gateway, web | none that is shared (rate-limit counters, UI) | aggregation of HTTP calls | every service |
| Pure libraries | none | dated versions, money, durations; the domain libraries of the planning and of the tariffs | |
| `libs/resilience` | one circuit breaker per target | call with timeout, retry, half-open probe | HTTP targets |
| Retention (`purge`) | | daily deletion of old rows | every database |

### What is hard in it

* **Two writes, no shared transaction.** A publication and its stamp, an effect
  and its acknowledgement, a mail and its line in a ledger: between the two the
  process may stop, or the second may fail although the first succeeded.
* **Repetition.** The relay publishes again what it is not sure to have
  published; the broker delivers again what is not acknowledged in time,
  including copies still waiting in the iterator; the scheduler replays a whole
  slot every minute; a parent clicks again on a mail that failed or got stuck.
* **Order.** `occurred_at` is the *start* of a transaction, rows appear at its
  *commit*, pages are read with `OFFSET`, and a message that failed comes back
  after the ones that follow it. Streams are projected by independent loops.
* **Requests that overlap at READ COMMITTED**: what a statement read may have
  changed when the next one writes; only some rows are locked.
* **Reads before an `await`, used after it**: the ledger of a slot, the identity
  of a contract in a projection, the snapshot of a week, the four tables that a
  cost is computed from.
* **Several instances** of one service on the same tables, protected only by
  compare-and-set updates.
* **Rules that interact**: versions, entries of the parent, calendars and
  tariffs each cut a month in their own way.
* **Bounded retries**: ten deliveries, eight attempts per parent, four pages per
  cycle, a window that closes on Sunday.

`PROJECT.json` lists each hazard at its line, with the properties that cover it.

### What makes each part correct

* Outbox: nothing is stamped that is not stored; no event of a command that was
  rolled back; the order of one household is kept; a durably refused row blocks
  its own household only.
* Consumer: at most one effect per event id; no message disappears without a
  named cause; each message is applied or dead-lettered in the end.
* Backbone: together they behave like a channel that applies each committed
  event at most once.
* Income of a household: the versions partition time; the journal tells the
  whole story of each date; the mirror of svc-tarification is the history.
* Parents: an active parent remains; a link serves once; nobody becomes
  unreachable; svc-notifications sees what svc-foyer has, and nothing once the
  household is erased.
* Contract and planning: a week keeps its last save; the projection of
  svc-tarification ends equal to the source; the erasure leaves nothing.
* Reminder: a delivered parent is not mailed again; a line ENVOYE has a mail
  behind it; a slot is settled only when its parents are; none stays pending.
* Validation and mail to an establishment: one verdict and one event per week;
  one mail per recap; the ledger line is the proof of the mail.
* Cost: the quantities are those of a day-by-day definition; the cost is that of
  the contracts, plannings and calendars; an answer leaves out no contract.

## 2. Modules

| Module | Models | Main source |
| --- | --- | --- |
| `OutboxRelay` | command transactions as the outbox sees them, the relay's cycle, the deduplication window | `outbox.relay.ts` |
| `JetStreamConsumer` | one durable, its binding, the prefetching iterator, the loop, `processed_event`, `dead_letter` | `jetstream-consumer.ts`, `dead-letter.service.ts` |
| `PropagationFiable` | the abstract promise of the event backbone | — |
| `EventBackbone` | `OutboxRelay` and `JetStreamConsumer` composed on one stream; implements `PropagationFiable` | both |
| `RecapHebdo` | the Tuesday reminder for one target week: ticks, slots, ledger, cards | `scheduler.hebdo.ts`, `envoi-recap.service.ts` |
| `RessourcesFoyer` | dated incomes of a household, their events and their mirror | `foyer.service.ts`, svc-tarification `projection.service.ts` |
| `ParentsFoyer` | requests on parents, channels, unsubscription links, erasure | `foyer.service.ts`, `desabonnement.service.ts`, `preferences.util.ts` |
| `ProjectionParents` | extends it: the read model of svc-notifications and the cards | svc-notifications `projection.service.ts`, `destinataires.service.ts` |
| `ValidationHebdo` | weekly lines: snapshot, difference, compare-and-set, event | `validation.service.ts` |
| `EnvoiEtablissement` | extends it: the ledger of the mails to an establishment | `envoi.service.ts` |
| `PlanningContrat` | requests on a contract and its month, the loop on FOYER | `planification.service.ts`, svc-planification `projection.service.ts` |
| `ProjectionPlanning` | extends it: contract and quantities in svc-tarification | svc-tarification `projection.service.ts` |
| `PrestationsMois` | pure: the quantities of a month for the four modes | `generation-prestations.ts`, `contrat-creche.ts`, `inscription-abcm.ts` |
| `CalendrierOuverture` | pure: which days are open for a service, and the edits | `calendrier-ouverture.ts`, `calendrier.service.ts` |
| `PrestationsReference` | the same quantities, defined day by day without segments: a reference, not a translation | — |
| `TarifMois` | pure: prices, roundings, refusals, yearly fees | `libs/tarification/domain` |
| `CoutFoyer` | composes the four: edits, projection and a request for the cost | `cout.service.ts`, `cout.mapper.ts` |
| `*_proofs` | inductive invariants and theorems of the module they extend | |
| `MC*` | constants of the instances that TLC checks | |

`PROJECT.json`, under `map`, gives the lines each definition stands for.
Identifiers keep the French names of the source, or its vocabulary. Definitions
announced by "Mutant:" are wrong variants that no action uses: each is there to
show that a property detects that mistake. Variables announced by "history:"
are read by properties only; no action depends on them.

### How the modules compose

```
OutboxRelay ──┐
              ├─ EventBackbone ── implements ── PropagationFiable
JetStream… ───┘                                (one effect per committed event)
                    assumed by the projections below
ParentsFoyer ────── ProjectionParents            RecapHebdo (recipients = input)
RessourcesFoyer    (source and mirror in one module)
PlanningContrat ─── ProjectionPlanning
ValidationHebdo ─── EnvoiEtablissement
PrestationsMois ─┬─ CalendrierOuverture ─┐
                 ├─ PrestationsReference ┼─ CoutFoyer
                 └─ TarifMois ───────────┘
```

What one level establishes, the next one assumes: the projections apply each
event once because `EventBackbone` does (`Fiable`), and in any order because it
promises none. `CoutFoyer` takes the events in order, because
`ProjectionPlanning` has what disorder does; it takes an edit and its event as
one step, which `PlanningContrat` refines into transactions.

### Correspondence, module by module

**`OutboxRelay`.** A transaction `t` begins (`Commencer`, which fixes
`debut[t]`, the `now()` of its rows), commits or rolls back. The relay's program
counter is `etape`: `lecture` (`LirePage`, the paged `SELECT`, in any order
compatible with `occurred_at`), `publication` (one disjunct per outcome of
`nats.publier`: stored, refused or failed, stored but unanswered), `marquage`
(the `UPDATE`: done, failed, done but unanswered). `attente` is
`foyersEnAttente`. The stream is a sequence; `fenetre` holds the ids that
JetStream still recognises, and `OublierDoublon` slides the window.

**`JetStreamConsumer`.** The broker keeps deliveries and a status per position;
`Livrer` appends a copy to `tampon`, the iterator's buffer, and `ExpirerDelai`
makes a delivered message deliverable again while its copy still waits. The loop
takes a copy and goes through `phase`; `AppliquerUneFois` is the single
transaction of `marquerTraite` and of the projection. `Tracer` is
`DeadLetterService.enregistrer`, which swallows its own failure. An ack, a nak or
a term may be lost. `liaison` is the durable in `lies`: bound by the timer, and
dead when the iterator ended on an error, since nothing takes it out of `lies`
but a restart.

**`RecapHebdo`.** Each instance `r` of svc-notifications runs ticks; `etape[r]`
is where `declencher` is, and every `await` of the code ends a step. The locals
that the code reads once and uses later are variables: `vusActifs`, `aServir`,
`vue` (the ledger), `echec`, `reel`. The database is `slot`, `livraison`,
`cartes`; `contrats` and `abonnes` are the projections, which change while a tick
runs. Time is `moment`: the Tuesday when slots are created, the rest of the
window, and after it. A call to the database may fail without an effect or commit
and lose its answer; in the second case the caller goes on as if it had failed.
`muet[r]` (history) says that the answer lost was that of `marquerAbouti`: the
catch of `declencher` then runs `marquerEchec` on a slot that is settled. What an
instance knows only in memory goes with it: the alert of an abandoned slot is not
sent if the answer to its UPDATE is lost or the process stops before the alert.

**Transactions (`RessourcesFoyer`, `ParentsFoyer`, `PlanningContrat`).** A
request is a record `tx[c]`: what it was asked for, the instant of its `BEGIN`
(`debut`, the date of its events) and what it has read. Under READ COMMITTED each
statement sees what is committed when it starts: a step per statement where
another request may come in between, and writes that appear at the commit.
`RessourcesFoyer` takes the row `foyer` FOR UPDATE (`verrou`); `ParentsFoyer`
locks only the active parents that a withdrawal read (`tenus`), and the rows it
wrote; `PlanningContrat` locks nothing: `Commencer` reads, `Valider`-like actions
write and commit. Each module has the refusals of the code: household not found,
duplicate address, last active parent, unreachable, link already used.

**Projections (`ProjectionParents`, `ProjectionPlanning`, and the mirror in
`RessourcesFoyer`).** One action per `appliquer…` of the consumer, with its
guard on `occurred_at` when it has one: `appliquerParentRetire` and the
realignment of months by `appliquerContratModifie` have none. `lecture` is the
PlanningModifie in hand between the read of the contract, the HTTP request for
the quantities and the write. `LireDestinataires` and `CreerCarte` are the
reminder between its read of the recipients and the insertion of a card.

**`ValidationHebdo`, `EnvoiEtablissement`.** `tache[t]` is a tick (`notifier`) or
a validation (`valider`): read, compute, transition under the status A_VALIDER.
`clic[r]` is a request `envoyer`: build the message, insert the line EN_COURS,
take over a line that failed or that got old, call the mailer, write the
outcome; each is a step, and a restart (`Arret`) may come between two of them. A
line becomes `vieux` when the delay of `DELAI_REPRISE` has passed. The
projections that it reads change at any moment: `ContratRecu` and
`EtablissementRecu` are the upserts of `projection.service.ts`, which nothing
orders with FoyerSupprime, so that they may put a row back after the erasure.
`revenus` and `ficheRevenue` (history) say of what.

**`PrestationsMois`, `CalendrierOuverture`, `TarifMois`.** Dates are integers,
months and weeks blocks of days; an opening of the establishment, a version, an
entry are records. Floating-point prices become integer centimes with the same
roundings. `genererPrestationMoisSegments` is `GenererSegments`: one segment per
version in the month, each entry sent to its segment, what has no date to the
monthly one. Lists that may hold the same item twice (added days, added hours) are
sets of items with a `rang`. A month in which no version is in force has the empty
segment of the code, with the current version (`VersionCourante`: the version
applicable today, else the nearest).

`PrestationsReference` bills as follows, and `JourParJour` claims no more. Hours
and services are reserved on the open days of the contract only. In a creche,
added hours and real hours count on the closed days of the contract too, and
deductible absences whatever their date, even outside the contract: so does the
code (`contrat-creche.ts`, l.278-295).

**`CoutFoyer`.** svc-planification is `source`, `saisies`, `calendrier` (one per
establishment, that of a contract being `source[c].etab`; one without a calendar
closes nothing); `fil`
carries its events; svc-tarification is `tContrats`, `tPrestations`, `tFoyer`;
`requete` is one `coutMois`: the reads in any order, the fallback on
svc-planification for the contracts without a row, tariffs, prices, the first
error as the answer. Its commands, which are one step each, are named `Editer…`,
its specification `CoutSpec` and its null `Rien`: `Tarification_proofs` extends
it together with `ProjectionPlanning`, which keeps the names of the code. The
edits of a contract are its creation, an amendment, `corrigerVersion`,
`corrigerVersionCourante` (which also rewrites the life of the contract, its first
registration and its establishment, and leaves the dates of effect: they may then
precede the first day or begin after it), `rattacherEtablissement`, the deletion;
those of a calendar are recurrences, exceptions, periods and the regime of public
holidays. *Today* is the constant `AUJOURDHUI`: a request sees one day, and so does
the model.

One consequence is worth knowing. When a correction moves the first day before
every date of effect, the days in between belong to no version and nothing is
reserved on them. But a month of the contract that has *only* such days takes the
current version for the whole month: `construireSegments` falls back on a segment
that its comment calls empty, and its bounds are not. The reference says the same,
as a case of its own (`SousVersionCourante`).

## 3. What the runs check

| Run | Question | Result |
| --- | --- | --- |
| `outbox` | overlapping commands, every fault at once: stamped implies stored, no phantom, order of a household, everything published in the end | holds |
| `outbox_offset` | the order that the comments of the relay promise, with two overlapping transactions | **violated** (finding) |
| `consommateur` | failing projections, lost acks, duplicates, restarts, a dead iterator, a `dead_letter` that fails: one effect per event, no loss without a named cause, every message settled | holds |
| `backbone` | producer and consumer together implement `PropagationFiable`, with restarts of both | holds |
| `recap` | one instance, two parents (one neutralised by the dry-run guard), every fault | holds |
| `recap_repliques` | two instances: what the compare-and-sets still guarantee, and that no slot stays pending | holds |
| `recap_doublon` | the comment that the ledger prevents a second mail across instances | **violated** (finding) |
| `ressources` | overlapping saves of an income, or a save and the erasure | holds |
| `parents` | overlapping requests on parents, channels, links; projection in any order | holds |
| `envoi` | racing validations and racing requests for the mail, the erasure, events before and after it | holds |
| `planning` | overlapping requests on a contract and its planning; projection in any order | holds |
| `couts` | contracts amended, corrected, moved; entries, calendars and incomes that change while a cost is asked for | holds |

### The two findings

1. `outbox_offset`: the relay reads the next page with an `OFFSET` after a page
   that published nothing. A transaction that *began* earlier may commit between
   the two reads; its row sorts before the offset and pushes a row of a household
   out of both pages, so a younger row of that household leaves first. The
   comments of `outbox.relay.ts` say that the offset is exact in that case and
   that the order is kept per household. An `UPDATE` that commits but whose reply
   is lost has the same effect. `outbox` checks that there is no third way:
   `OrdreTenu` is the order unless `decale`, which records these two.
2. `recap_doublon`: with two instances the second mails a parent whose delivery
   the first has recorded since the ledger was read. Comments in `schema.ts` and
   `envoi-recap.service.ts` say that the guard on the ledger prevents it. The
   property holds for one instance, and is proved (section 4).

### Exceptions that the properties name

Several properties hold *but for* a case that the code leaves open. Each case is
a history variable set at the step where it happens, so that the property says
there is no other. They are worth a look by whoever changes the code:

* `RessourcesFoyer.croise`: of two overlapping saves, the one that waited for the
  row emits the complete history with the *older* date, and svc-tarification,
  which keeps the younger, drops it. The comment of `rafraichirEtEmettre`
  promises "un miroir complet"; `MiroirComplet` states it and holds only without
  this crossing. `depasse`: a version projected after FoyerSupprime is inserted
  again.
* `RessourcesFoyer.LigneFidele` speaks of the day of the last write: nothing
  rewrites the row `foyer` when a version saved in advance comes into force.
* `ParentsFoyer.DernierParentGarde`: a withdrawal whose guard found no active
  parent has nothing to lock. `croises`: two requests on the channels of one
  parent each read as open what the other closes.
* `ProjectionParents.desordre`: ParentRetire is neither guarded nor dated.
  `tardifs`: an event of a parent that was still undelivered, or a card about to
  be written, when the household was erased.
* `RecapHebdo.SlotDefinitif`: a slot DRY_RUN is reopened, by one instance alone,
  when its `marquerAbouti` commits and loses its answer: `marquerEchec` is guarded
  by `statut <> 'ENVOYE'` only. The comment of `envoi-recap.service.ts` (l.117)
  promises that an ECHEC never overwrites a slot already settled; it is kept for
  ENVOYE. The property holds without exception for ENVOYE and ABANDONNE.
* `PlanningContrat.perdues`: a save of a week merges into the month it read, and
  overlapping transactions put the other weeks back. `orphelin`: a contract
  created after the erasure of its household was emitted.
* `ProjectionPlanning.perime` (and `perimes` in `CoutFoyer`): an amendment
  announces the contract, not the months, so that a month already projected
  keeps the quantities of the old version
  (`docs/30-sfd-versionnement-dates-effet.md`, CA1, expects the new one). So do
  the months of a contract after `corrigerVersion`, `corrigerVersionCourante` (its
  ContratModifie renews the identity, not the quantities) or
  `rattacherEtablissement`, and those of every contract of an establishment after
  an edit of its calendar, public holidays included. A planning that the domain
  refuses ends in `dead_letter` and the older row keeps being priced. Other edits
  (creation, planning, deletion, income) leave nothing stale.
* `EnvoiEtablissement.doutes`: the mailer failed after the delivery, or the
  outcome could not be written; `chevauche`: two requests sending at once, after
  an EN_COURS line was taken for abandoned; `enVol`: a request or a tick already
  begun when the household is erased; `revenus` and `ficheRevenue`: contracts and
  the establishment that an event applied after FoyerSupprime projected again, after
  which a tick inserts a weekly line and a parent may send a mail.
* `JetStreamConsumer.perdus`: `dead_letter` refused its line, or the process or
  the iterator stopped on the last delivery.

Some behaviours are not exceptions but are easy to overlook when reading the code,
and the models keep them: the deductions of a creche are bounded by the hours of
their own version, so a month that two versions share may be refused although
its total would be accepted; deductions without a date belong to the monthly
segment only; svc-planification compares deductions with the hours *reserved*,
svc-tarification with those of the *instalment*; a month without any quantity is
still refused when no tariff resolves; the yearly fees are charged as soon as a
school contract is known, quantities or not; one mail per household, week and
establishment means that a child validated after it left is not told.

### Bounds, and why they are enough

* Outbox: three transactions. The row of the first household is refused for
  ever; the second household has the others. Pages of one row and three pages
  per cycle: small enough for a cycle to cross pages, the case the offset is
  about. `CONCURRENCE = 2` transactions open together, `FLUX_MAX = 4` stored
  messages: every row may be stored and one of them twice. `outbox_offset` gives
  one transaction two rows of the same date.
* Consumer: one event of each kind (good, always failing, unknown) on two
  positions, so that one may be stored twice; three deliveries instead of ten:
  a first, a middle and a last one; two prefetched copies, so that one may time
  out while another is worked on.
* Backbone: one command, two events of one household (one of them unknown to the
  consumer), three positions. The faults are the restarts of both sides, which
  give repetitions and redeliveries; the others are checked on each side alone.
* Reminder: `recap` has two parents, so that the failure of one replays the
  other, with two attempts instead of eight; `recap_repliques` two instances and
  one parent with one attempt, enough for every pair of writes to a slot and a
  line. History counters saturate at `COMPTE_MAX`.
* `ressources`: three days let a version be inserted before, between and after;
  `MAX_TX = 3` is the creation and two overlapping saves, or a save and the
  erasure; two incomes, so that a correction may change the value or not.
* `parents`: two parents, two addresses (so that a duplicate is possible), two
  channels, one link, every kind of request, two transactions after the creation.
* `envoi`: one contract whose week takes two contents, two validations, two
  requests, one after the other or at once, two addresses of which one is outside
  the allowlist, one event of the contract and one of the establishment, at any
  moment: after the erasure they put both rows back. The sets of contracts a mail
  tells are reduced to one contract or none; the proofs have no such limit.
* `planning`: two weeks, so that a merge may lose the other one, four
  transactions after one another or two by two, one event of svc-foyer.
* `couts`: two contracts, two months of three days with weeks of two, two
  establishments of which one has no calendar, three edits: an edit of a contract
  comes after its creation, with a planning before, after or between. One contract
  begins on the second day and may be corrected to begin on the first, before its
  only version; versions begin on the third day of the first month and on the last
  of the second; entries fall on days of each version, on closed days and outside
  the contract, some twice; nothing is known of the household at first, then an
  income for each month; one tariff is projected, one must be asked for.
  `JourParJour` compares the four modes with the reference in every reachable state
  (828,000 of them). `MOIS_ANNEE`, `RENTREE` and `CRENEAU` put the fees in the
  second month and slots of half an hour.

`CHECK_DEADLOCK FALSE` is set where the model comes to rest when its bounds are
used: commands, messages and edits are finite, and time stops when the week has
begun. `couts` checks deadlock: a request can always be made and answered.
`couts` states no type invariant: its three properties apply every operator to
the whole state, and a value of a wrong type makes TLC stop.

### Fairness

* Relay: `WF(Cycle)`. A timer of two seconds runs `drainer`, and the
  continuation of an `await` always runs. Nothing is assumed of the commands.
* Consumer: `WF` of the loop and of its binding timer; `WF` of each
  acknowledgement delay (a timer of the broker); `SF` of each delivery, which is
  enabled again and again, not continuously, since the prefetch has a bounded
  room that the loop empties.
* Reminder: `WF` of each instance (`setInterval` and continuations) and of the
  clock. `SlotAboutit` also assumes that an outage ends (`Stabilise`), like
  `ToutPublie`: after some point no restart and no failure of the database or of
  the broker. A row refused for ever is not such a failure.
* The other modules are safety specifications: their requests come from users,
  whom nothing obliges to act.

## 4. What is proved

TLAPS proves the following for every value of the constants that satisfies the
named assumptions, whatever faults `Pannes` allows.

### The assumptions

They are evaluated by TLC in the runs. Most are typing facts and the distinctness
of the marker values from the data. Those that say more:

* `ConstantesOutbox`: the rows of a command are about one household
  (`UnFoyerParCommande`): a command handler has one household in hand. Only
  `OrdreTenu` uses it. `Evenements` is finite.
* `ConstantesBackbone`: the bound of the model on the stream leaves room for each
  event (`Cardinality(Evenements) <= FLUX_MAX`). Without it, the relay of the
  model could publish past the last position that the consumer knows.
* `ConstantesRecap`: two households have no parent in common: `parent.foyer_id`
  is a column of the row `parent`.
* `ConstantesCout`: the rows that a form makes (`Formes`) have the columns of
  `contrat`, dates are integers, and the marker `Rien` is none of the rows. The
  versions and the entries of the forms are well formed (`VersionCorrecte`,
  `SaisieCorrecte`): hours and durations are naturals (`Duree` refuses a negative
  one), lists are finite, each item has a date, absences excepted. Each
  establishment has a calendar, which may be empty. Nothing is assumed of the dates
  of effect: a version may begin before the contract or after its end.
* `ConstantesPrestations`: the error of the domain (`Refus`) is no quantities.

### The theorems

* `OutboxRelay_proofs`: `TypeOK`, `MarqueApresStockage`, `PasDeFantome`, `OrdreTenu`.
  `MarqueApresStockage` alone is not inductive: a step of `Marquer` needs to know
  that the row in hand is stored, and a publication recognised as a duplicate
  that everything in the deduplication window is stored. `PasDeFantome` needs
  that a page holds committed rows (the lemma `PageDeNonPublies` on the paged
  `SELECT`) and that a commit is final.
  `OrdreTenu` says that the order of a household is kept unless a row moved under
  the `OFFSET`. Its invariant counts: the *rank* of a row is the number of
  unpublished rows with an older date, and it says on which page the row is
  found, whatever way the `SELECT` sorts ties. `LectureSuivie`: before page *n*
  is read, each row that ranks in the pages before is held back with its
  household. `PageSuivie`: so is each row up to the end of a page that published
  nothing, or a row of its household is in hand. `LotSuivi`: what precedes a row
  in hand is held back or comes before it in the page. A page that published
  something is the last of its cycle, so that no rank is used after it shrank.
* `JetStreamConsumer_proofs`: `TypeOK` and `EffetUnique`, with the fact that the
  loop never holds a position the stream does not have; and `RienNeDisparait`.
  Its invariant says that what is settled has a trace or a named loss
  (`RegleTrace`), that positions to come are intact (`FuturIntact`), that a
  message at its last delivery without a trace still has its *last* copy in the
  loop's hands (`EpuiseTrace`), and that the loop only acknowledges what has a
  trace (`AcquitteTrace`). No fault is excluded.
* `EventBackbone_proofs`: side by side on one stream, each component still
  behaves as it does alone (`ComposantsTenus`: `Spec => RP!Spec /\ CP!Spec`; a step
  of the relay is, for the consumer, a new message or nothing), so that
  `RienNeDisparait` holds of the whole, and the whole implements
  `PropagationFiable` (`Fiable`): each step is a commit, an effect or a loss of
  the abstract channel, or a stutter. The refinement rests on the invariants of
  both sides (an effect is that of a stored message, a stored message that of a
  committed command, an effect happens once) and on `Place`, the room left in the
  stream.
* `RecapHebdo_proofs`: for any number of instances, `TypeOK`, `PreuveDeMail`,
  `AcquisDefinitif`; for one instance (`UneReplique`), `EssaisBornes`,
  `JamaisRelivre`, `SlotSolde` and `SlotDefinitif`. The invariant of the first two
  of these is `VueAJour`, the ledger as read equals the ledger for every
  recipient still to handle, with `CibleNonSoldee`. `recap_doublon` shows that two
  instances break `VueAJour`, hence the property. The last two add that the slots
  still to handle are not terminal (`SlotsOuverts`: nobody else settles them) but
  for the slot whose answer was lost (`muet`), and follow the parents whom nothing interrupted from the projections to the ledger
  (`FidelesServis`): their household was seen active, they were read among the
  recipients, and whoever has left the list to serve is settled or made the pass
  fail. It is why a slot is never closed over a parent who was forgotten.
* `EnvoiEtablissement_proofs`: for any numbers of contracts, validations,
  requests and addresses, `TypeOK`, `UnVerdict`, `PreuveDEnvoi`, `UnSeulMail`,
  `EffacementTenu`. `IVerdict` is the exact correspondence: the events of a
  contract are the one its line says, or none. `Sain` (under no overlap) says
  that at most one request is past its reservation, which line it then holds, and
  how the mails, the doubts and the line count: it makes both `PreuveDEnvoi` and
  `UnSeulMail` follow. For the erasure, `IEffacement` says that a weekly line, a
  contract in the projection or in the hands of a tick is one that came back
  (`LignesRevenues`), and that a mail in preparation or in the ledger needs, besides,
  an establishment that came back (`MailsRevenus`).
* `RessourcesFoyer_proofs`: `TypeOK`, `PartitionDuTemps`, `JournalFidele`,
  `LigneFidele`, `MiroirFidele`, for any number of requests, incomes, days and
  transactions. The row `foyer` locked FOR UPDATE is the heart of the first
  four: a save past its lock is the only one (`VerrouTenu`), so that what it read
  still holds (`AvantLu`) and the history it is about to write is the one there
  is, with the version of its date and each end computed again (`SuiteCalculee`).
  `Contigue` says that each version ends where the next begins, which is what is
  inductive in `PartitionDuTemps`. `MiroirFidele` follows the events: a
  transaction has a date of its own, the last one that committed told the whole
  history unless two crossed (`ToutDit`), and the mirror keeps for each day the
  youngest event that was applied (`MiroirSuit`).
* `ProjectionParents_proofs`: `TypeOK`, `LienUnique`, `Joignable`,
  `DernierParentGarde`, `EffacementTenu`, `PropagationFidele`. No parent read by a
  withdrawal can be withdrawn by another until it commits (`Verrous`), which is
  `DernierParentGarde`; what a request on channels read again under the lock of
  its row still holds (`Relus`), which is `Joignable`; a link and its uses go
  together (`Comptes`). For the copy: the youngest event of a parent tells its row
  (`Emis`), and the copy has the row and the channels of the youngest events it
  applied, unless a retirement came in disorder (`Copie`). `Traces` says of the
  erased household what could still write a row.
* `Tarification_proofs`, on `ProjectionPlanning`: `TypeOK`, `SemainesGardees`,
  `EffacementTenu`, `ProjectionFidele`. A save of a week that nobody overtook has
  the month as it is, so that its merge keeps the other weeks (`Semaine`). For
  the copy, while no two transactions of the contract crossed: dates follow the
  commits (`DatesPropres`), the youngest event of the contract tells its row,
  its creation comes first, its deletion last (`Emis`), the row applied is that
  of the youngest event received (`Identite`, `MoisRecu`), and the month has the
  quantities of the source once the last save that announced it was asked for
  (`Quantifie`).
* `Tarification_proofs`, on the cost: `UneVersionParJour`, for any finite set of
  versions: from the first date of effect on, exactly one version is in force
  each day, the last that took effect. `CrecheRefuseeOuDue`, for any income, price
  list and hours: a month of creche is refused or costs a natural number of
  centimes; it needs that rounding is monotone (`CoutPositif`), since the three
  lines of the cost are rounded separately: the hours deducted never cost more
  than the instalment they were compared with. `CoutsCoherents`, for any contracts,
  months, tariffs, calendars and editions, is `CoutCoherent`: what a request has
  read was there to be seen at some moment since it began (`LecturesVues`).
  `CoutEstFidele` is `CoutFidele`. Its invariant `InvFil` reads the queue of
  events. A creation comes before every other event of its contract, a deletion
  after (`FilOrdonne`). A contract that exists is copied as it is or a message that
  identifies it is on its way, and the last such message tells it as it is
  (`Copiee`: a correction emits one as a creation does); one that does not has left no trace, or its deletion
  is on its way (`Oublie`). The row of a month has the quantities that the
  planning gives now, unless a save of that month is on its way, or `perimes`
  records it (`Ecrite`). At rest both sides then have the same contracts and the
  same quantities (`TablesAuRepos`). The yearly fees are written in two ways: the
  code takes the school year of each copy, the reference asks whether the
  contract began within the twelve months that the fees open (`AnneeDesFrais`,
  `FraisDesCopies`); that there are any fees depends on the mode of the
  quantities, which is that of the contract however many versions were fused
  (`ModeDesQuantites`).
* `Tarification_proofs`, on the quantities: `MoisJourParJour`, for any contract,
  entry and closed days, in the four modes: the month that
  `genererPrestationMoisSegments` adds up segment by segment is that of
  `PrestationsReference`, which asks on each day which version is in force. It is
  stated of the operators alone, without a state. The segments are the versions
  in force in the month, in order, and each date of the life of the contract is
  in one of them but those that precede every date of effect
  (`UneVersionParJour`); hence what is entered at a date is counted
  by one segment, and the days that a segment counts are those the reference
  counts under its version. For creche the deductions and the incompatible
  presences are regrouped by version (`TotalDeduit`, `TotalAjoute`), an absence
  without a date being taken once. A month of the contract without any version in
  force is a case apart, in both definitions (`MoisSousVersionCourante`).
  `JourParJourTenu` is `JourParJour`: the invariant `Tenus` says that a contract
  keeps at least one version, wherever its first day was moved, and that each
  entry of the table is well formed, whatever the edits. The sums are
  folds over finite sets. The library's induction theorems cannot be
  instantiated, so what is needed of sums (empty set, one more element, disjoint
  union, equal terms) is proved by taking a set, minimal for inclusion, that would
  refute it.

The pure lemmas they rest on are proved as well: the least and the greatest
element of a finite set of integers, from the well-foundedness of strict
inclusion on finite sets; a sort of a finite set has each element once; how many
rows precede one in a page.

### Only model-checked

* The liveness properties (`ToutPublie`, `ToutAboutit`, `SlotAboutit`): neither
  fairness nor ENABLED is within the prover's reach.

Every other property of a passing run is stated by a theorem.

## 5. What is not modelled

* **Circuit breaker and HTTP client.** Every call to another service is modelled
  by its outcomes at its caller: an answer, a late one, none. The breaker adds
  none and removes none of them.
* **Retention.** Independent DELETEs by age, long after the last use of a row.
* **Gateway, web application, contracts and OpenAPI schemas, configuration,
  security guards, health, observability.** No state that a protocol depends on.
* **In svc-foyer**: the children (seen through their first name), the parts of a
  household, its consents. **In svc-planification**: the list of establishments (a contract
  has one, with its calendar), the import of a school calendar (it writes periods
  and exceptions, as the edits that are modelled do), the knowledge of a calendar at
  a past date (it serves months that were billed, and nothing writes `facture_le`),
  simulated plannings. **In svc-tarification**:
  the cost of a year and its coalescing of concurrent requests, children and
  tariffs as projections. **In svc-referentiel**: the publication of tariffs, an
  insertion with its outbox row. **In svc-notifications**: the composition of the
  mails, the readers of the cards, more than one target week, the ledger line
  that the fallback mail does not have.
* **The 30-day retention of the streams**, and the order in which the four
  durables of a service are bound.
* In `CoutFoyer` each of the reads of a request is one step, although
  `GET prestations` reads in four queries and `chargerFoyerContexte` in two.
  It has no erasure of the household, which `ProjectionPlanning` has, and takes
  the events of a contract as projected in the end: their rejection would leave the
  contract without a copy. The day of today does not change.
* Metrics, logs and wording.

## 6. Plan

Done: the backbone (`OutboxRelay`, `JetStreamConsumer`, `EventBackbone`), the
reminder, incomes, parents, contracts and plannings with their projections, the
weekly validation and its mail, the quantities and the price of a month; the
proofs of section 4, which leave no safety property of a passing run to TLC
alone.

Next, in order of importance:

1. The cost of a year: twelve months priced concurrently, one in-flight promise
   shared by the requests, against projections that move on.
2. The import of calendars and the axis of knowledge.
3. The circuit breaker with concurrent calls: one probe when half-open.
4. The projections that are left: children and tariffs in svc-tarification,
   calendars in svc-planification.
