----------------------------- MODULE AlertRules -----------------------------
(***************************************************************************)
(* The alerts of one unit.  Each position it reports is stored, brings the *)
(* unit up to date and goes through the rules: speed, then the geofences   *)
(* it was in before.  Every minute a cron looks for units that have stood  *)
(* still.  All of them create an alert only if there is none of the type   *)
(* in its window, which they ask before they create it.                    *)
(***************************************************************************)
EXTENDS FiniteSets, Naturals

CONSTANTS
    Reports,    \* calls of ingest for the unit, one position each at a time
    Crons,      \* calls of checkProlongedStops; they may overlap
    Fences      \* geofences

ASSUME ReportsAssumption == IsFiniteSet(Reports)
ASSUME CronsAssumption == IsFiniteSet(Crons) /\ Reports \cap Crons = {}

Types == {"EXCESO_VELOCIDAD", "SALIDA_GEOCERCA", "PARADA_PROLONGADA"}
Speeds == {"still", "moving", "speeding"}

VARIABLES
    member,     \* unitGeofences: those the unit is known to be in
    standing,   \* whether Unit.status is DETENIDO and its lastPositionAt less
                \* than 3 minutes old
    drove,      \* whether a position of the last 10 minutes was moving
    older,      \* whether there is a position before that
    fresh,      \* how many alerts of each type are in their window
    stage,      \* what each report and each cron will do next
    at,         \* the geofences each reported position lies in
    news,       \* what it says of the unit, until the unit is up to date
    fences,     \* the geofences its evaluation read
    exits,      \* those it has found left and not dealt with yet
    alone       \* history: the reports whose evaluation of geofences nobody
                \* else's overlapped

vars == <<member, standing, drove, older, fresh, stage, at,
          news, fences, exits, alone>>
dataVars == <<member, standing, drove, older, fresh>>
reportVars == <<at, news, fences, exits, alone>>

Stages ==
    {"idle", "unit", "speedCheck", "speedAlert", "fences", "member", "exits",
     "exitAlert", "moved", "older", "stopCheck", "stopAlert"}

TypeOK ==
    /\ member \subseteq Fences
    /\ standing \in BOOLEAN
    /\ drove \in BOOLEAN
    /\ older \in BOOLEAN
    /\ fresh \in [Types -> Nat]
    /\ stage \in [Reports \cup Crons -> Stages]
    /\ at \in [Reports -> SUBSET Fences]
    /\ news \in [Reports -> {"standing", "driving", "speeding"}]
    /\ fences \in [Reports -> SUBSET Fences]
    /\ exits \in [Reports -> SUBSET Fences]
    /\ \A r \in Reports : exits[r] \subseteq fences[r] \ at[r]
    /\ alone \subseteq Reports

Init ==
    /\ member = {}
    /\ standing = FALSE
    /\ drove = FALSE
    /\ older \in BOOLEAN
    /\ fresh = [y \in Types |-> 0]
    /\ stage = [e \in Reports \cup Crons |-> "idle"]
    /\ at = [r \in Reports |-> {}]
    /\ news = [r \in Reports |-> "driving"]
    /\ fences = [r \in Reports |-> {}]
    /\ exits = [r \in Reports |-> {}]
    /\ alone = {}

-----------------------------------------------------------------------------
Goes(e, next) == stage' = [stage EXCEPT ![e] = next]

(* A report is over, and its variables with it. *)
Forgets(r) ==
    /\ at' = [at EXCEPT ![r] = {}]
    /\ news' = [news EXCEPT ![r] = "driving"]
    /\ fences' = [fences EXCEPT ![r] = {}]
    /\ exits' = [exits EXCEPT ![r] = {}]
    /\ alone' = alone \ {r}

(* ingest stores the position. *)
Report(r, place, v, late) ==
    /\ stage[r] = "idle"
    /\ Goes(r, "unit")
    /\ at' = [at EXCEPT ![r] = place]
    /\ news' = [news EXCEPT ![r] =
                    CASE v = "speeding" -> "speeding"
                      [] v = "still" /\ ~late -> "standing"
                      [] OTHER -> "driving"]
    /\ drove' = (drove \/ (~late /\ v # "still"))
    /\ older' = (older \/ late)
    /\ UNCHANGED <<member, standing, fresh, fences, exits, alone>>

(* It brings the unit up to date, whichever position is the newer. *)
UpdateUnit(r) ==
    /\ stage[r] = "unit"
    /\ standing' = (news[r] = "standing")
    /\ Goes(r, IF news[r] = "speeding" THEN "speedCheck" ELSE "fences")
    /\ news' = [news EXCEPT ![r] = "driving"]
    /\ UNCHANGED <<member, drove, older, fresh, at, fences, exits, alone>>

(* Mutant of Clear: only alerts beyond the first count. *)
ClearOfTwo(type) == fresh[type] < 2

(* maybeCreateAlert: there is no alert of the type in its window. *)
Clear(type) == fresh[type] = 0

(* alerts.create *)
Alerts(type) == fresh' = [fresh EXCEPT ![type] = @ + 1]

SpeedCheck(r) ==
    /\ stage[r] = "speedCheck"
    /\ Goes(r, IF Clear("EXCESO_VELOCIDAD") THEN "speedAlert" ELSE "fences")
    /\ UNCHANGED <<dataVars, reportVars>>

SpeedAlert(r) ==
    /\ stage[r] = "speedAlert"
    /\ Alerts("EXCESO_VELOCIDAD")
    /\ Goes(r, "fences")
    /\ UNCHANGED <<member, standing, drove, older, reportVars>>

-----------------------------------------------------------------------------
(* evaluateGeofences reads the active geofences: any, as they are switched *)
(* on and off all the time...                                              *)
ReadFences(r, active) ==
    /\ stage[r] = "fences"
    /\ Goes(r, "member")
    /\ fences' = [fences EXCEPT ![r] = active]
    /\ UNCHANGED <<dataVars, at, news, exits, alone>>

(* ... and returns if there are none: the membership stays. *)
NoFences(r) ==
    /\ stage[r] = "member"
    /\ fences[r] = {}
    /\ Goes(r, "idle")
    /\ Forgets(r)
    /\ UNCHANGED dataVars

Overlapped == \E q \in Reports : stage[q] \in {"exits", "exitAlert"}

(* Mutant of LookForExits: the membership is replaced before the alerts.   *)
LookForExitsEarly(r) ==
    /\ stage[r] = "member"
    /\ fences[r] # {}
    /\ Goes(r, "exits")
    /\ exits' = [exits EXCEPT ![r] = (member \cap fences[r]) \ at[r]]
    /\ member' = at[r] \cap fences[r]
    /\ alone' = IF Overlapped THEN {} ELSE {r}
    /\ UNCHANGED <<standing, drove, older, fresh,
                   at, news, fences>>

(* Else it looks which of them the unit was in and is no longer. *)
LookForExits(r) ==
    /\ stage[r] = "member"
    /\ fences[r] # {}
    /\ Goes(r, "exits")
    /\ exits' = [exits EXCEPT ![r] = (member \cap fences[r]) \ at[r]]
    /\ alone' = IF Overlapped THEN {} ELSE {r}
    /\ UNCHANGED <<dataVars, at, news, fences>>

(* One exit after the other: it needs an alert, or there is one already,   *)
(* whichever geofence that was for.                                        *)
ExitCheck(r, g) ==
    /\ stage[r] = "exits"
    /\ g \in exits[r]
    /\ \/ Clear("SALIDA_GEOCERCA") /\ Goes(r, "exitAlert")
       \/ ~Clear("SALIDA_GEOCERCA") /\ UNCHANGED stage
    /\ exits' = [exits EXCEPT ![r] = @ \ {g}]
    /\ UNCHANGED <<dataVars, at, news, fences, alone>>

ExitAlert(r) ==
    /\ stage[r] = "exitAlert"
    /\ Alerts("SALIDA_GEOCERCA")
    /\ Goes(r, "exits")
    /\ UNCHANGED <<member, standing, drove, older, reportVars>>

(* The membership is replaced, and ingest has answered. *)
SetMember(r) ==
    /\ stage[r] = "exits"
    /\ exits[r] = {}
    /\ member' = at[r] \cap fences[r]
    /\ Goes(r, "idle")
    /\ Forgets(r)
    /\ UNCHANGED <<standing, drove, older, fresh>>

(* The database refuses a call: ingest rejects, and the membership stays.  *)
ReportFails(r) ==
    /\ stage[r] # "idle"
    /\ Goes(r, "idle")
    /\ Forgets(r)
    /\ UNCHANGED dataVars

-----------------------------------------------------------------------------
(* checkProlongedStops finds the unit among the candidates. *)
StopLook(k) ==
    /\ stage[k] = "idle"
    /\ standing
    /\ Goes(k, "moved")
    /\ UNCHANGED <<dataVars, reportVars>>

StopMoved(k) ==
    /\ stage[k] = "moved"
    /\ Goes(k, IF drove THEN "idle" ELSE "older")
    /\ UNCHANGED <<dataVars, reportVars>>

(* Mutant of StopOlder: a unit with a history is passed over. *)
StopOlderNot(k) ==
    /\ stage[k] = "older"
    /\ Goes(k, IF older THEN "idle" ELSE "stopCheck")
    /\ UNCHANGED <<dataVars, reportVars>>

StopOlder(k) ==
    /\ stage[k] = "older"
    /\ Goes(k, IF older THEN "stopCheck" ELSE "idle")
    /\ UNCHANGED <<dataVars, reportVars>>

StopCheck(k) ==
    /\ stage[k] = "stopCheck"
    /\ Goes(k, IF Clear("PARADA_PROLONGADA") THEN "stopAlert" ELSE "idle")
    /\ UNCHANGED <<dataVars, reportVars>>

StopAlert(k) ==
    /\ stage[k] = "stopAlert"
    /\ Alerts("PARADA_PROLONGADA")
    /\ Goes(k, "idle")
    /\ UNCHANGED <<member, standing, drove, older, reportVars>>

(* The database refuses a call: the cron ends, until the next minute. *)
StopFails(k) ==
    /\ stage[k] # "idle"
    /\ Goes(k, "idle")
    /\ UNCHANGED <<dataVars, reportVars>>

-----------------------------------------------------------------------------
(* Minutes pass: alerts leave their window and positions theirs.  Requests *)
(* take milliseconds, and none is under way meanwhile.                     *)
Quiet == \A e \in Reports \cup Crons : stage[e] = "idle"

WindowPasses(type) ==
    /\ Quiet
    /\ fresh[type] > 0
    /\ fresh' = [fresh EXCEPT ![type] = 0]
    /\ UNCHANGED <<member, standing, drove, older, stage, reportVars>>

MinutesPass ==
    /\ Quiet
    /\ drove' \in {drove, FALSE}
    /\ older' \in {older, older \/ drove \/ standing}
    /\ standing' \in {standing, FALSE}
    /\ UNCHANGED <<member, fresh, stage, reportVars>>

(* The server restarts: calls in flight and the membership are gone. *)
Restart ==
    /\ member' = {}
    /\ stage' = [e \in Reports \cup Crons |-> "idle"]
    /\ at' = [r \in Reports |-> {}]
    /\ news' = [r \in Reports |-> "driving"]
    /\ fences' = [r \in Reports |-> {}]
    /\ exits' = [r \in Reports |-> {}]
    /\ alone' = {}
    /\ UNCHANGED <<standing, drove, older, fresh>>

ReportStep(r) ==
    \/ \E place \in SUBSET Fences, v \in Speeds, late \in BOOLEAN :
           Report(r, place, v, late)
    \/ UpdateUnit(r)
    \/ SpeedCheck(r)
    \/ SpeedAlert(r)
    \/ \E active \in SUBSET Fences : ReadFences(r, active)
    \/ NoFences(r)
    \/ LookForExits(r)
    \/ \E g \in Fences : ExitCheck(r, g)
    \/ ExitAlert(r)
    \/ SetMember(r)
    \/ ReportFails(r)

StopStep(k) ==
    \/ StopLook(k)
    \/ StopMoved(k)
    \/ StopOlder(k)
    \/ StopCheck(k)
    \/ StopAlert(k)

Next ==
    \/ \E r \in Reports : ReportStep(r)
    \/ \E k \in Crons : StopStep(k) \/ StopFails(k)
    \/ \E type \in Types : WindowPasses(type)
    \/ MinutesPass
    \/ Restart

Spec == Init /\ [][Next]_vars

(* The cron runs every minute, and the database answers each of its        *)
(* queries some time, however often it refuses them.                       *)
FairSpec ==
    /\ Spec
    /\ \A k \in Crons :
          /\ WF_vars(StopLook(k))
          /\ SF_vars(StopMoved(k))
          /\ SF_vars(StopOlder(k))
          /\ SF_vars(StopCheck(k))
          /\ SF_vars(StopAlert(k))

-----------------------------------------------------------------------------
(* "Evita duplicar alertas": whoever overlaps, at most one alert for each  *)
(* of the calls that evaluate the rule, and so one if they do not overlap, *)
(* is in the window of a type.                                             *)
Evaluators(type) == IF type = "PARADA_PROLONGADA" THEN Crons ELSE Reports

DuplicatesBounded ==
    \A type \in Types : fresh[type] <= Cardinality(Evaluators(type))

(* The unit is forgotten to be in a geofence only by a restart, by         *)
(* positions evaluated at once, by a geofence that was switched off, or    *)
(* when there is an alert of its exit: if that cannot be created, the next *)
(* position outside finds the exit again.                                  *)
ExitsAreReported ==
    [][\A g \in member \ member' :
          \/ Restart
          \/ fresh["SALIDA_GEOCERCA"] > 0
          \/ \E r \in Reports :
                /\ stage'[r] # stage[r]
                /\ r \notin alone \cup alone' \/ g \notin fences[r]
      ]_vars

(* A unit that goes on standing still and reporting is alerted, again and  *)
(* again as the window passes.                                             *)
Parked == standing /\ older /\ ~drove

StopsAreAlerted == <>[]Parked => []<>(fresh["PARADA_PROLONGADA"] > 0)
=============================================================================
