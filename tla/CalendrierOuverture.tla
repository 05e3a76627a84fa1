------------------------ MODULE CalendrierOuverture ------------------------
(***************************************************************************)
(* The days on which an establishment opens a service                      *)
(* (libs/planification/domain calendar, svc-planification/calendrier).     *)
(*                                                                         *)
(* A calendar is the lines that are open when the question is asked: the   *)
(* closed ones serve the months that were billed, and nothing bills one    *)
(* (facture_le is never written).  A period has the rank at which it was   *)
(* known: an edit makes it later than those that are open.                 *)
(***************************************************************************)
EXTENDS PrestationsMois

Etendue(p) == p.au - p.du

\* plusSpecifique: the shortest period, then the one known last, then the one
\* that begins last.
PlusSpecifique(periodes) ==
  CHOOSE p \in periodes : \A q \in periodes :
    \/ Etendue(p) < Etendue(q)
    \/ Etendue(p) = Etendue(q) /\ p.connu > q.connu
    \/ Etendue(p) = Etendue(q) /\ p.connu = q.connu /\ p.du >= q.du

\* The regime of a day: SCOLAIRE but within holidays.
Regime(cal, j) ==
  LET p == {q \in cal.periodes : q.du <= j /\ j <= q.au /\ q.type # "FERMETURE_ANNUELLE"} IN
  IF p # {} /\ PlusSpecifique(p).type = "VACANCES" THEN "VACANCES" ELSE "SCOLAIRE"

\* servicesRecurrents: without any recurrence every service is open; a
\* calendar that is silent on the day closes it.
ServicesRecurrents(cal, j) ==
  IF cal.recurrences = {} THEN Modes
  ELSE UNION {r.services : r \in {q \in cal.recurrences :
                 q.regime = Regime(cal, j) /\ q.jour = JourSemaine(j)}}

EnFermeture(cal, j) ==
  \E p \in cal.periodes : p.type = "FERMETURE_ANNUELLE" /\ p.du <= j /\ j <= p.au

\* appliquerException: an opening sets its services, or those of the week; any
\* other exception withdraws its services, or all of them.
AppliquerException(e, base, recurrents) ==
  CASE e.type = "OUVERTURE" /\ e.services = Rien -> recurrents
    [] e.type = "OUVERTURE" /\ e.services # Rien -> e.services
    [] e.type # "OUVERTURE" /\ e.services = Rien -> {}
    [] OTHER -> base \ e.services

\* resoudreDepuisConnu: exception, then public holiday, then closing period,
\* then the week.  At most one exception of a day is open.
ServicesOuverts(cal, j) ==
  LET recurrents == ServicesRecurrents(cal, j)
      base == IF j \in cal.feries \/ EnFermeture(cal, j) THEN {} ELSE recurrents
      exceptions == {e \in cal.exceptions : e.jour = j}
  IN IF exceptions = {} THEN base
     ELSE AppliquerException(CHOOSE e \in exceptions : TRUE, base, recurrents)

\* joursFermesPourService: an unknown calendar closes nothing.
JoursFermes(cal, m, service) ==
  IF cal.recurrences = {} THEN {}
  ELSE {j \in JoursDuMois(m) : service \notin ServicesOuverts(cal, j)}

----------------------------------------------------------------------------
(* Edits: a line is closed, another is opened at the same instant.         *)

RemplacerRecurrences(cal, recurrences) == [cal EXCEPT !.recurrences = recurrences]

\* poserException: the open exception of the same day is closed.
PoserException(cal, e) ==
  [cal EXCEPT !.exceptions = {x \in @ : x.jour # e.jour} \cup {e}]
CloreException(cal, e) == [cal EXCEPT !.exceptions = @ \ {e}]

SaisirPeriode(cal, p) ==
  [cal EXCEPT !.periodes = @ \cup
     {[type |-> p.type, du |-> p.du, au |-> p.au, connu |-> 1 + Max({0} \cup {q.connu : q \in @})]}]
ClorePeriode(cal, p)  == [cal EXCEPT !.periodes = @ \ {p}]

\* retoucherPeriode: the line is closed and the corrected one opened.
RetoucherPeriode(cal, p, q) == SaisirPeriode(ClorePeriode(cal, p), q)

\* poserRegimeFeries: the public holidays of another regime.
PoserRegimeFeries(cal, feries) == [cal EXCEPT !.feries = feries]
=============================================================================
