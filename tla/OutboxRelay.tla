---------------------------- MODULE OutboxRelay ----------------------------
(***************************************************************************)
(* The transactional outbox of a service and the relay that drains it      *)
(* (libs/nest-commons/src/lib/outbox).  A command writes its outbox rows   *)
(* in its own database transaction; every two seconds the relay reads the  *)
(* rows that are not published, page by page in the order of occurred_at,  *)
(* publishes each on JetStream and then stamps published_at.               *)
(*                                                                         *)
(* occurred_at is a column default now(), which PostgreSQL evaluates to    *)
(* the START of the transaction: rows become visible at commit, but sort   *)
(* by the beginning of the transaction that wrote them.                    *)
(***************************************************************************)
EXTENDS Naturals, Sequences, FiniteSets

CONSTANTS
  Evenements,     \* outbox rows, identified by the id of their envelope
  Transactions,   \* the command transactions that write them
  Foyers,         \* households named by the payloads
  SansFoyer,      \* stands for null: the payload names no household
  TxDe,           \* [Evenements -> Transactions], the transaction of a row
  FoyerDe,        \* [Evenements -> Foyers \cup {SansFoyer}], cf. foyerDe
  Refuses,        \* rows the broker refuses durably (payload, subject)
  Pannes,         \* the faults of the environment, see PannesOutbox
  CONCURRENCE,    \* bound: command transactions open at the same time
  FLUX_MAX,       \* bound: messages the stream ever stores
  TAILLE_LOT,     \* rows per page
  PAGES_MAX       \* pages per cycle

\* "nats": a publication fails.  "ackPerdu": it is stored but its
\* acknowledgement is lost.  "base": a page read or an update fails.
\* "majPerdue": an update is committed but its reply is lost.  "connexion":
\* the NATS connection is closed for a while.  "arret": the process stops.
PannesOutbox ==
  {"nats", "ackPerdu", "base", "majPerdue", "connexion", "arret"}

\* The rows of one command name the same household, or none of them names one.
UnFoyerParCommande ==
  \A e, f \in Evenements : TxDe[e] = TxDe[f] => FoyerDe[e] = FoyerDe[f]

ASSUME ConstantesOutbox ==
  /\ IsFiniteSet(Evenements)
  /\ TxDe \in [Evenements -> Transactions]
  /\ FoyerDe \in [Evenements -> Foyers \cup {SansFoyer}]
  /\ SansFoyer \notin Foyers
  /\ UnFoyerParCommande
  /\ Refuses \subseteq Evenements
  /\ Pannes \subseteq PannesOutbox
  /\ TAILLE_LOT \in Nat \ {0}
  /\ PAGES_MAX \in Nat \ {0}
  /\ FLUX_MAX \in Nat
  /\ CONCURRENCE \in Nat

VARIABLES
  txEtat,     \* state of each command transaction
  debut,      \* instant at which a transaction began (its occurred_at)
  fin,        \* instant at which it committed (history, read by no action)
  heure,      \* the database clock, one tick per begin and per commit
  decale,     \* history: the unpublished rows moved under a cycle, see SousLeCycle
  publies,    \* rows whose published_at is set
  flux,       \* messages stored in the stream, in stream order
  fenetre,    \* message ids inside JetStream's deduplication window
  connecte,   \* NatsService.estConnecte()
  etape,      \* where the relay is in drainer / publierLot
  page,       \* page of the cycle
  lot,        \* rows of the page still to handle; the head is being handled
  pleine,     \* the page read had TAILLE_LOT rows
  publiees,   \* the page published something
  attente     \* foyersEnAttente: households whose order broke in this cycle

txVars     == <<txEtat, debut, fin, heure, decale>>
relaisVars == <<etape, page, lot, pleine, publiees, attente>>
fluxVars   == <<flux, fenetre>>
vars       == <<txVars, publies, fluxVars, connecte, relaisVars>>

Etats  == {"absente", "ouverte", "validee", "annulee"}
Etapes == {"repos", "lecture", "publication", "marquage"}

TypeOK ==
  /\ txEtat \in [Transactions -> Etats]
  /\ debut \in [Transactions -> Nat]
  /\ fin \in [Transactions -> Nat]
  /\ heure \in Nat
  /\ decale \in BOOLEAN
  /\ publies \subseteq Evenements
  /\ flux \in Seq(Evenements)
  /\ fenetre \subseteq Evenements
  /\ connecte \in BOOLEAN
  /\ etape \in Etapes
  /\ page \in Nat
  /\ lot \in Seq(Evenements)
  /\ pleine \in BOOLEAN
  /\ publiees \in BOOLEAN
  /\ attente \subseteq Foyers

----------------------------------------------------------------------------
Valide(e)     == txEtat[TxDe[e]] = "validee"
OccurredAt(e) == debut[TxDe[e]]

\* Mutant: the rows are written outside the transaction of the command.
NonPubliesHorsTransaction ==
  {e \in Evenements : txEtat[TxDe[e]] # "absente" /\ e \notin publies}

\* WHERE published_at IS NULL: what the database shows to the relay.
NonPublies == {e \in Evenements : Valide(e) /\ e \notin publies}

\* ORDER BY occurred_at: the rows of one transaction tie, in any order.
Tris(S) ==
  {s \in [1 .. Cardinality(S) -> S] :
     /\ \A i, j \in DOMAIN s : i # j => s[i] # s[j]
     /\ \A i, j \in DOMAIN s : i < j => OccurredAt(s[i]) <= OccurredAt(s[j])}

\* LIMIT TAILLE_LOT OFFSET page * TAILLE_LOT.
PageDe(s) ==
  LET premier == page * TAILLE_LOT + 1
      dernier == (page + 1) * TAILLE_LOT
  IN  SubSeq(s, premier, IF dernier < Len(s) THEN dernier ELSE Len(s))

Init ==
  /\ txEtat = [t \in Transactions |-> "absente"]
  /\ debut = [t \in Transactions |-> 0]
  /\ fin = [t \in Transactions |-> 0]
  /\ heure = 0
  /\ decale = FALSE
  /\ publies = {}
  /\ flux = <<>>
  /\ fenetre = {}
  /\ connecte = TRUE
  /\ etape = "repos"
  /\ page = 0
  /\ lot = <<>>
  /\ pleine = FALSE
  /\ publiees = FALSE
  /\ attente = {}

----------------------------------------------------------------------------
(* The commands of the service, seen by the outbox.                        *)

\* BEGIN: now() is fixed here.
Commencer(t) ==
  /\ txEtat[t] = "absente"
  /\ Cardinality({u \in Transactions : txEtat[u] = "ouverte"}) < CONCURRENCE
  /\ heure' = heure + 1
  /\ debut' = [debut EXCEPT ![t] = heure + 1]
  /\ txEtat' = [txEtat EXCEPT ![t] = "ouverte"]
  /\ UNCHANGED <<fin, decale, publies, fluxVars, connecte, relaisVars>>

\* The rows of t sort before a row that the running cycle may have read.
SousLeCycle(t) ==
  /\ etape # "repos"
  /\ \E e \in NonPublies : debut[t] < OccurredAt(e)

\* COMMIT: the rows become visible together with the change they announce.
Valider(t) ==
  /\ txEtat[t] = "ouverte"
  /\ heure' = heure + 1
  /\ fin' = [fin EXCEPT ![t] = heure + 1]
  /\ txEtat' = [txEtat EXCEPT ![t] = "validee"]
  /\ decale' = (decale \/ SousLeCycle(t))
  /\ UNCHANGED <<debut, publies, fluxVars, connecte, relaisVars>>

\* ROLLBACK: a refused command leaves no row.
Annuler(t) ==
  /\ txEtat[t] = "ouverte"
  /\ txEtat' = [txEtat EXCEPT ![t] = "annulee"]
  /\ UNCHANGED <<debut, fin, heure, decale, publies, fluxVars, connecte, relaisVars>>

----------------------------------------------------------------------------
(* The relay.                                                              *)

\* The cycle ends, or the process does: the locals of drainer disappear.
FinDeCycle ==
  /\ etape' = "repos"
  /\ page' = 0
  /\ lot' = <<>>
  /\ pleine' = FALSE
  /\ publiees' = FALSE
  /\ attente' = {}

\* A tick: drainer returns at once when a cycle runs or NATS is closed.
DemarrerCycle ==
  /\ etape = "repos"
  /\ connecte
  /\ etape' = "lecture"
  /\ UNCHANGED <<txVars, publies, fluxVars, connecte,
                 page, lot, pleine, publiees, attente>>

\* SELECT of one page; an empty page ends the cycle.
LirePage ==
  /\ etape = "lecture"
  /\ \E s \in Tris(NonPublies) :
       \/ /\ PageDe(s) = <<>>
          /\ FinDeCycle
       \/ /\ PageDe(s) # <<>>
          /\ lot' = PageDe(s)
          /\ pleine' = (Len(PageDe(s)) = TAILLE_LOT)
          /\ publiees' = FALSE
          /\ etape' = "publication"
          /\ UNCHANGED <<page, attente>>
  /\ UNCHANGED <<txVars, publies, fluxVars, connecte>>

\* The SELECT throws: the cycle is abandoned until the next tick.
LireEchec ==
  /\ "base" \in Pannes
  /\ etape = "lecture"
  /\ FinDeCycle
  /\ UNCHANGED <<txVars, publies, fluxVars, connecte>>

\* An older row of the same household failed in this cycle: skip this one.
Differer ==
  /\ etape = "publication"
  /\ lot # <<>>
  /\ FoyerDe[Head(lot)] \in attente
  /\ lot' = Tail(lot)
  /\ UNCHANGED <<txVars, publies, fluxVars, connecte,
                 etape, page, pleine, publiees, attente>>

\* The row under publication: head of the page and not to be skipped.
EnPublication(e) ==
  /\ etape = "publication"
  /\ lot # <<>>
  /\ e = Head(lot)
  /\ FoyerDe[e] \notin attente

\* JetStream stores the message unless its id is in the deduplication window.
Stocker(e) ==
  /\ flux' = IF e \in fenetre THEN flux ELSE Append(flux, e)
  /\ fenetre' = fenetre \cup {e}

\* nats.publier resolves.
Publier(e) ==
  /\ EnPublication(e)
  /\ connecte
  /\ e \notin Refuses
  /\ Stocker(e)
  /\ etape' = "marquage"
  /\ UNCHANGED <<txVars, publies, connecte, page, lot, pleine, publiees, attente>>

\* Mutant: the failure of a row does not hold back its household.
RetenirSansAttente(e) ==
  /\ lot' = Tail(lot)
  /\ etape' = "publication"
  /\ UNCHANGED <<page, pleine, publiees, attente>>

\* Mutant: the set holds the row instead of its household.
RetenirIdentifiant(e) ==
  /\ attente' = attente \cup {e}
  /\ lot' = Tail(lot)
  /\ etape' = "publication"
  /\ UNCHANGED <<page, pleine, publiees>>

\* The catch of publierLot: the household waits for the next cycle.
Retenir(e) ==
  /\ attente' = attente \cup ({FoyerDe[e]} \ {SansFoyer})
  /\ lot' = Tail(lot)
  /\ etape' = "publication"
  /\ UNCHANGED <<page, pleine, publiees>>

\* Mutant: the rejection is swallowed and the UPDATE follows.
PublierEchecAvale(e) ==
  /\ EnPublication(e)
  /\ e \in Refuses \/ "nats" \in Pannes \/ ~connecte
  /\ etape' = "marquage"
  /\ UNCHANGED <<txVars, publies, fluxVars, connecte,
                 page, lot, pleine, publiees, attente>>

\* nats.publier rejects and nothing is stored.
PublierEchec(e) ==
  /\ EnPublication(e)
  /\ e \in Refuses \/ "nats" \in Pannes \/ ~connecte
  /\ Retenir(e)
  /\ UNCHANGED <<txVars, publies, fluxVars, connecte>>

\* nats.publier rejects (timeout) although the broker stored the message.
PublierSansReponse(e) ==
  /\ "ackPerdu" \in Pannes
  /\ EnPublication(e)
  /\ connecte
  /\ e \notin Refuses
  /\ Stocker(e)
  /\ Retenir(e)
  /\ UNCHANGED <<txVars, publies, connecte>>

\* UPDATE ... SET published_at.
Marquer(e) ==
  /\ etape = "marquage"
  /\ e = Head(lot)
  /\ publies' = publies \cup {e}
  /\ publiees' = TRUE
  /\ lot' = Tail(lot)
  /\ etape' = "publication"
  /\ UNCHANGED <<txVars, fluxVars, connecte, page, pleine, attente>>

\* The UPDATE throws: the row stays unpublished and will be sent again.
MarquerEchec(e) ==
  /\ "base" \in Pannes
  /\ etape = "marquage"
  /\ e = Head(lot)
  /\ Retenir(e)
  /\ UNCHANGED <<txVars, publies, fluxVars, connecte>>

\* The UPDATE is committed, but its reply is lost and the client sees a throw.
MarquerSansReponse(e) ==
  /\ "majPerdue" \in Pannes
  /\ etape = "marquage"
  /\ e = Head(lot)
  /\ publies' = publies \cup {e}
  /\ Retenir(e)
  /\ decale' = TRUE
  /\ UNCHANGED <<txEtat, debut, fin, heure, fluxVars, connecte>>

\* Mutant: a cycle never looks beyond its first page.
PageUnique == FALSE

\* The next page is read only after a full page that published nothing.
PageSuivante == pleine /\ ~publiees /\ page + 1 < PAGES_MAX

FinDePage ==
  /\ etape = "publication"
  /\ lot = <<>>
  /\ \/ /\ PageSuivante
        /\ etape' = "lecture"
        /\ page' = page + 1
        /\ UNCHANGED <<lot, pleine, publiees, attente>>
     \/ /\ ~PageSuivante
        /\ FinDeCycle
  /\ UNCHANGED <<txVars, publies, fluxVars, connecte>>

\* The process stops and starts again; its memory is lost.
Redemarrer ==
  /\ "arret" \in Pannes
  /\ etape # "repos"
  /\ FinDeCycle
  /\ UNCHANGED <<txVars, publies, fluxVars, connecte>>

----------------------------------------------------------------------------
(* The broker.                                                             *)

\* The deduplication window slides over a message.
OublierDoublon(e) ==
  /\ e \in fenetre
  /\ Len(flux) + Cardinality(Evenements \ fenetre) < FLUX_MAX
  /\ fenetre' = fenetre \ {e}
  /\ UNCHANGED <<txVars, publies, flux, connecte, relaisVars>>

PerdreConnexion ==
  /\ "connexion" \in Pannes
  /\ connecte
  /\ connecte' = FALSE
  /\ UNCHANGED <<txVars, publies, fluxVars, relaisVars>>

Reconnecter ==
  /\ ~connecte
  /\ connecte' = TRUE
  /\ UNCHANGED <<txVars, publies, fluxVars, relaisVars>>

----------------------------------------------------------------------------
Commandes == \E t \in Transactions : Commencer(t) \/ Valider(t) \/ Annuler(t)

Cycle ==
  \/ DemarrerCycle
  \/ LirePage
  \/ LireEchec
  \/ Differer
  \/ \E e \in Evenements :
       \/ Publier(e)
       \/ PublierEchec(e)
       \/ PublierSansReponse(e)
       \/ Marquer(e)
       \/ MarquerEchec(e)
       \/ MarquerSansReponse(e)
  \/ FinDePage

Environnement ==
  \/ Redemarrer
  \/ PerdreConnexion
  \/ Reconnecter
  \/ \E e \in Evenements : OublierDoublon(e)

Next == Commandes \/ Cycle \/ Environnement

\* The timer ticks for ever and what follows an await always runs.
Equite == WF_vars(Cycle)

Spec == Init /\ [][Next]_vars
SpecEquitable == Spec /\ Equite

----------------------------------------------------------------------------
(* Properties.                                                             *)

DansFlux == {flux[i] : i \in DOMAIN flux}

\* A row is stamped published only after the broker stored it: a crash or an
\* error between the two repeats a message and never loses one
\* (outbox.relay.ts, publierLot: publier, then UPDATE).
MarqueApresStockage == publies \subseteq DansFlux

\* The outbox is transactional: consumers never see an event of a command
\* that was rolled back or is still open (outbox.options.ts).
PasDeFantome == \A e \in DansFlux : Valide(e)

\* e was committed before the transaction of f began.
Precede(e, f) ==
  /\ fin[TxDe[e]] # 0
  /\ fin[TxDe[e]] < debut[TxDe[f]]

MemeFoyer(e, f) == FoyerDe[e] = FoyerDe[f] /\ FoyerDe[e] # SansFoyer

\* The order the comment of publierLot promises: for one household, an event
\* is stored for the first time only when every event of a command that had
\* completed before its own command began is stored already.
OrdreParFoyer ==
  \A j \in DOMAIN flux : \A e \in Evenements :
    MemeFoyer(e, flux[j]) /\ Precede(e, flux[j])
      => \E i \in 1 .. j : flux[i] = e

\* That order holds whatever fails, overlaps or restarts, as long as nothing
\* moves the rows under the OFFSET of a running cycle: a command that commits
\* after a younger one, or an UPDATE committed without a reply.  It needs
\* UnFoyerParCommande: rows that tie on occurred_at may be sorted differently by
\* two SELECTs, so one of them can slip between two pages, and only another row
\* of its own household holds back the rows it must precede.
OrdreTenu == OrdreParFoyer \/ decale

\* No refused row in the household of e.
Sain(e) ==
  /\ e \notin Refuses
  /\ FoyerDe[e] = SansFoyer \/ \A r \in Refuses : FoyerDe[r] # FoyerDe[e]

\* A passing failure: of the process, the database or the broker.  A cycle
\* that ends by itself is a step of LirePage or FinDePage, and no failure.
Panne ==
  \/ (Redemarrer \/ LireEchec) /\ ~LirePage /\ ~FinDePage
  \/ \E e \in Evenements :
       \/ PublierEchec(e) /\ e \notin Refuses
       \/ PublierSansReponse(e)
       \/ MarquerEchec(e)
       \/ MarquerSansReponse(e)

Stabilise == <>[]connecte /\ <>[][~Panne]_vars

\* A row refused without end stops its own household only: once the passing
\* failures are over, every committed row of another household is published
\* and stamped (AM-61), as long as the blocked households have fewer rows than
\* the pages of a cycle show.
ToutPublie ==
  Stabilise => \A e \in Evenements : Sain(e) => (Valide(e) ~> e \in publies)
=============================================================================
