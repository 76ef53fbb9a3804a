--------------------------- MODULE Services_proofs ---------------------------
(***************************************************************************)
(* Proofs about the services around the radio: the rules that raise alerts *)
(* from the reports of the units, the chat, the push notifications and the *)
(* history of the radio, each by itself and the last three together.       *)
(***************************************************************************)
EXTENDS AlertRules, Messaging, SequenceTheorems, FiniteSetTheorems, TLAPS

-----------------------------------------------------------------------------
(* The alerts of a unit.  Where a report is in its evaluation tells what   *)
(* its variables hold: it has exits to deal with only between finding them *)
(* and replacing the membership.                                           *)
Leaving == {"exits", "exitAlert"}

ExitsInTime == \A r \in Reports : stage[r] \notin Leaving => exits[r] = {}

(* Initially nobody has read a geofence. *)
LEMMA AlertTypesInit == Init => TypeOK /\ ExitsInTime
<1> SUFFICES ASSUME Init PROVE TypeOK /\ ExitsInTime
  OBVIOUS
<1>1. standing \in BOOLEAN /\ drove \in BOOLEAN /\ older \in BOOLEAN
  BY Zenon DEF Init
<1>2. stage \in [Reports \cup Crons -> Stages]
  BY DEF Init, Stages
<1> QED BY <1>1, <1>2 DEF Init, TypeOK, ExitsInTime

(* The next stage of one report or cron, while the others stay in theirs. *)
LEMMA GoesFacts ==
    ASSUME TypeOK, NEW e \in Reports \cup Crons, NEW next \in Stages, Goes(e, next)
    PROVE  /\ stage' \in [Reports \cup Crons -> Stages]
           /\ stage'[e] = next
           /\ \A q \in (Reports \cup Crons) \ {e} : stage'[q] = stage[q]
  BY DEF Goes, TypeOK

(* One more alert of a type. *)
LEMMA AlertsFacts ==
    ASSUME TypeOK, NEW type \in Types, Alerts(type)
    PROVE  /\ fresh' \in [Types -> Nat]
           /\ fresh'[type] = fresh[type] + 1
           /\ \A y \in Types \ {type} : fresh'[y] = fresh[y]
  BY DEF Alerts, TypeOK

(* What a report knew is gone with it. *)
LEMMA ForgetsFacts ==
    ASSUME TypeOK, ExitsInTime, NEW r \in Reports, Goes(r, "idle"), Forgets(r)
    PROVE  /\ at' \in [Reports -> SUBSET Fences]
           /\ news' \in [Reports -> {"standing", "driving", "speeding"}]
           /\ fences' \in [Reports -> SUBSET Fences]
           /\ exits' \in [Reports -> SUBSET Fences]
           /\ \A q \in Reports : exits'[q] \subseteq fences'[q] \ at'[q]
           /\ alone' \subseteq Reports
           /\ stage' \in [Reports \cup Crons -> Stages]
           /\ ExitsInTime'
  BY GoesFacts DEF Forgets, TypeOK, ExitsInTime, Stages

(* The steps of a report. *)
LEMMA AlertTypesReport ==
    ASSUME TypeOK, ExitsInTime, NEW r \in Reports, ReportStep(r)
    PROVE  TypeOK' /\ ExitsInTime'
<1> USE DEF Stages, Types, Leaving
<1>1. ASSUME NEW place \in SUBSET Fences, NEW v \in Speeds, NEW late \in BOOLEAN,
             Report(r, place, v, late)
      PROVE  TypeOK' /\ ExitsInTime'
  <2>1. exits[r] = {}
    BY <1>1 DEF Report, ExitsInTime
  <2>2. ExitsInTime'
    BY <1>1, GoesFacts DEF Report, ExitsInTime
  <2>3. \A q \in Reports : exits'[q] \subseteq fences'[q] \ at'[q]
    BY <1>1, <2>1 DEF Report, TypeOK
  <2>4. stage' \in [Reports \cup Crons -> Stages]
    BY <1>1, GoesFacts DEF Report
  <2>5. news' \in [Reports -> {"standing", "driving", "speeding"}]
    BY <1>1 DEF Report, TypeOK
  <2>6. drove' \in BOOLEAN /\ older' \in BOOLEAN
    BY <1>1, Zenon DEF Report, TypeOK
  <2> QED BY <1>1, <2>2, <2>3, <2>4, <2>5, <2>6 DEF Report, TypeOK
<1>2. CASE UpdateUnit(r)
  <2>1. stage' \in [Reports \cup Crons -> Stages] /\ ExitsInTime'
    BY <1>2, GoesFacts DEF UpdateUnit, ExitsInTime
  <2>2. standing' \in BOOLEAN
    BY <1>2, Zenon DEF UpdateUnit
  <2> QED BY <1>2, <2>1, <2>2 DEF UpdateUnit, TypeOK
<1>3. CASE SpeedCheck(r)
  <2>1. stage' \in [Reports \cup Crons -> Stages] /\ ExitsInTime'
    BY <1>3, GoesFacts DEF SpeedCheck, ExitsInTime, reportVars
  <2> QED BY <1>3, <2>1 DEF SpeedCheck, TypeOK, dataVars, reportVars
<1>4. CASE SpeedAlert(r)
  <2>1. stage' \in [Reports \cup Crons -> Stages] /\ ExitsInTime'
    BY <1>4, GoesFacts DEF SpeedAlert, ExitsInTime, reportVars
  <2> QED BY <1>4, <2>1, AlertsFacts DEF SpeedAlert, TypeOK, reportVars
<1>5. ASSUME NEW active \in SUBSET Fences, ReadFences(r, active)
      PROVE  TypeOK' /\ ExitsInTime'
  <2>1. stage' \in [Reports \cup Crons -> Stages] /\ ExitsInTime'
    BY <1>5, GoesFacts DEF ReadFences, ExitsInTime
  <2>2. exits[r] = {}
    BY <1>5 DEF ReadFences, ExitsInTime
  <2> QED BY <1>5, <2>1, <2>2 DEF ReadFences, TypeOK, dataVars
<1>6. CASE NoFences(r) \/ ReportFails(r)
  BY <1>6, ForgetsFacts DEF NoFences, ReportFails, TypeOK, dataVars
<1>7. CASE LookForExits(r)
  <2>1. stage' \in [Reports \cup Crons -> Stages] /\ ExitsInTime'
    BY <1>7, GoesFacts DEF LookForExits, ExitsInTime, TypeOK
  <2> QED BY <1>7, <2>1 DEF LookForExits, TypeOK, dataVars
<1>8. ASSUME NEW g \in Fences, ExitCheck(r, g) PROVE TypeOK' /\ ExitsInTime'
  <2>1. stage' \in [Reports \cup Crons -> Stages] /\ ExitsInTime'
    BY <1>8, GoesFacts DEF ExitCheck, ExitsInTime, TypeOK
  <2> QED BY <1>8, <2>1 DEF ExitCheck, TypeOK, dataVars
<1>9. CASE ExitAlert(r)
  <2>1. stage' \in [Reports \cup Crons -> Stages] /\ ExitsInTime'
    BY <1>9, GoesFacts DEF ExitAlert, ExitsInTime, reportVars
  <2> QED BY <1>9, <2>1, AlertsFacts DEF ExitAlert, TypeOK, reportVars
<1>10. CASE SetMember(r)
  BY <1>10, ForgetsFacts DEF SetMember, TypeOK
<1> QED
  BY <1>1, <1>2, <1>3, <1>4, <1>5, <1>6, <1>7, <1>8, <1>9, <1>10 DEF ReportStep

(* Every step. *)
LEMMA AlertTypesNext ==
    ASSUME TypeOK, ExitsInTime, [Next]_vars
    PROVE  TypeOK' /\ ExitsInTime'
<1> USE DEF Stages, Types, Leaving
<1>1. ASSUME NEW r \in Reports, ReportStep(r) PROVE TypeOK' /\ ExitsInTime'
  BY <1>1, AlertTypesReport
<1>2. ASSUME NEW k \in Crons, NEW next \in Stages \ Leaving, Goes(k, next),
             UNCHANGED exits
      PROVE  stage' \in [Reports \cup Crons -> Stages] /\ ExitsInTime'
  <2>1. /\ next \in Stages /\ k \in Reports \cup Crons
        /\ \A r \in Reports : r # k /\ r \in Reports \cup Crons
    BY CronsAssumption
  <2>2. /\ stage' \in [Reports \cup Crons -> Stages]
        /\ \A r \in Reports : stage'[r] = stage[r]
    BY <1>2, <2>1, GoesFacts
  <2> QED BY <1>2, <2>2 DEF ExitsInTime
<1>3. ASSUME NEW k \in Crons,
             StopLook(k) \/ StopMoved(k) \/ StopOlder(k) \/ StopCheck(k) \/ StopFails(k)
      PROVE  TypeOK' /\ ExitsInTime'
  <2>1. CASE StopLook(k)
    BY <1>2, <2>1 DEF StopLook, TypeOK, dataVars, reportVars
  <2>2. CASE StopMoved(k)
    BY <1>2, <2>2 DEF StopMoved, TypeOK, dataVars, reportVars
  <2>3. CASE StopOlder(k)
    BY <1>2, <2>3 DEF StopOlder, TypeOK, dataVars, reportVars
  <2>4. CASE StopCheck(k)
    BY <1>2, <2>4 DEF StopCheck, TypeOK, dataVars, reportVars
  <2>5. CASE StopFails(k)
    BY <1>2, <2>5 DEF StopFails, TypeOK, dataVars, reportVars
  <2> QED BY <1>3, <2>1, <2>2, <2>3, <2>4, <2>5
<1>4. ASSUME NEW k \in Crons, StopAlert(k) PROVE TypeOK' /\ ExitsInTime'
  BY <1>2, <1>4, AlertsFacts DEF StopAlert, TypeOK, reportVars
<1>5. ASSUME NEW type \in Types, WindowPasses(type) PROVE TypeOK' /\ ExitsInTime'
  BY <1>5 DEF WindowPasses, TypeOK, ExitsInTime, reportVars
<1>6. CASE MinutesPass
  <2>1. drove' \in BOOLEAN /\ older' \in BOOLEAN /\ standing' \in BOOLEAN
    BY <1>6, Zenon DEF MinutesPass, TypeOK
  <2> QED BY <1>6, <2>1 DEF MinutesPass, TypeOK, ExitsInTime, reportVars
<1>7. CASE Restart
  BY <1>7 DEF Restart, TypeOK, ExitsInTime
<1>8. CASE UNCHANGED vars
  BY <1>8 DEF vars, TypeOK, ExitsInTime
<1> QED
  BY <1>1, <1>3, <1>4, <1>5, <1>6, <1>7, <1>8 DEF Next, StopStep

(* Every variable of the alerts has its type, and what a report has still  *)
(* to deal with are fences it read and is outside of.                      *)
THEOREM AlertTypes == Spec => []TypeOK
  BY AlertTypesInit, AlertTypesNext, PTL DEF Spec

-----------------------------------------------------------------------------
(* Duplicates.  Whoever asked while there was no alert may still create    *)
(* one; those, and the alerts there are, are no more than the evaluators,  *)
(* as nobody joins them once there is an alert.                            *)
AlertStage(type) ==
    CASE type = "EXCESO_VELOCIDAD" -> "speedAlert"
      [] type = "SALIDA_GEOCERCA" -> "exitAlert"
      [] OTHER -> "stopAlert"

Alerting(type) == {e \in Evaluators(type) : stage[e] = AlertStage(type)}

AlertsCounted ==
    \A type \in Types :
        fresh[type] + Cardinality(Alerting(type)) <= Cardinality(Evaluators(type))

(* Those about to create an alert are some of the evaluators. *)
LEMMA AlertingFinite ==
    ASSUME NEW type, NEW S, S \subseteq Evaluators(type)
    PROVE  /\ IsFiniteSet(S) /\ Cardinality(S) \in Nat
           /\ Cardinality(Evaluators(type)) \in Nat
           /\ Cardinality(S) <= Cardinality(Evaluators(type))
<1>1. IsFiniteSet(Evaluators(type))
  BY ReportsAssumption, CronsAssumption DEF Evaluators
<1> QED BY <1>1, FS_Subset, FS_CardinalityType

(* Nobody asks: the alerts and those about to create one are as many, or   *)
(* fewer.                                                                  *)
LEMMA NobodyAsks ==
    ASSUME TypeOK, AlertsCounted, NEW type \in Types,
           fresh'[type] = fresh[type],
           Alerting(type)' \subseteq Alerting(type)
    PROVE  fresh'[type] + Cardinality(Alerting(type)')
               <= Cardinality(Evaluators(type))
<1>1. Alerting(type) \subseteq Evaluators(type)
  BY DEF Alerting
<1>2. /\ Cardinality(Alerting(type)') \in Nat
      /\ Cardinality(Alerting(type)) \in Nat
      /\ Cardinality(Alerting(type)') <= Cardinality(Alerting(type))
  BY <1>1, AlertingFinite, FS_Subset, FS_CardinalityType
<1>3. fresh[type] \in Nat
  BY DEF TypeOK
<1>4. fresh[type] + Cardinality(Alerting(type)) <= Cardinality(Evaluators(type))
  BY DEF AlertsCounted
<1> QED BY <1>1, <1>2, <1>3, <1>4, AlertingFinite

(* There is no alert: however many are about to create one, they are       *)
(* evaluators.                                                             *)
LEMMA NoneYet ==
    ASSUME NEW type \in Types, fresh'[type] = 0
    PROVE  fresh'[type] + Cardinality(Alerting(type)')
               <= Cardinality(Evaluators(type))
<1>1. Alerting(type)' \subseteq Evaluators(type)
  BY DEF Alerting, Evaluators
<1> QED BY <1>1, AlertingFinite

(* One of those creates it. *)
LEMMA OneAlerts ==
    ASSUME TypeOK, AlertsCounted, NEW type \in Types, NEW e \in Alerting(type),
           fresh'[type] = fresh[type] + 1,
           Alerting(type)' = Alerting(type) \ {e}
    PROVE  fresh'[type] + Cardinality(Alerting(type)')
               <= Cardinality(Evaluators(type))
<1>1. Alerting(type) \subseteq Evaluators(type)
  BY DEF Alerting
<1>2. Cardinality(Alerting(type)') = Cardinality(Alerting(type)) - 1
  BY <1>1, AlertingFinite, FS_RemoveElement
<1>3. fresh[type] \in Nat
  BY DEF TypeOK
<1>4. fresh[type] + Cardinality(Alerting(type)) <= Cardinality(Evaluators(type))
  BY DEF AlertsCounted
<1> QED BY <1>1, <1>2, <1>3, <1>4, AlertingFinite

(* Every step keeps the count. *)
LEMMA AlertsCountedNext ==
    ASSUME TypeOK, AlertsCounted, [Next]_vars
    PROVE  AlertsCounted'
<1> SUFFICES ASSUME NEW type \in Types
             PROVE  fresh'[type] + Cardinality(Alerting(type)')
                        <= Cardinality(Evaluators(type))
  BY DEF AlertsCounted, Evaluators
<1> DEFINE Goal == fresh'[type] + Cardinality(Alerting(type)')
                       <= Cardinality(Evaluators(type))
<1> HIDE DEF Goal
<1> USE DEF Stages, Types
<1>1. ASSUME NEW e \in Reports \cup Crons, NEW next \in Stages, Goes(e, next),
             next # AlertStage(type), UNCHANGED fresh
      PROVE  Goal
  <2>1. Alerting(type)' \subseteq Alerting(type)
    BY <1>1, GoesFacts DEF Alerting, Evaluators
  <2> QED BY <1>1, <2>1, NobodyAsks DEF Goal
<1>2. ASSUME NEW e \in Reports \cup Crons, NEW y \in Types, NEW next \in Stages,
             Clear(y), Goes(e, next), next = AlertStage(y), UNCHANGED fresh
      PROVE  Goal
  <2>1. CASE y = type
    BY <1>2, <2>1, NoneYet DEF Clear, Goal
  <2>2. CASE y # type
    <3>1. next # AlertStage(type)
      BY <1>2, <2>2 DEF AlertStage
    <3> QED BY <1>1, <1>2, <3>1
  <2> QED BY <2>1, <2>2
<1>3. ASSUME NEW y \in Types, NEW e \in Evaluators(y), NEW next \in Stages,
             stage[e] = AlertStage(y), Alerts(y), Goes(e, next),
             \A z \in Types : next # AlertStage(z)
      PROVE  Goal
  <2>0. e \in Reports \cup Crons
    BY DEF Evaluators
  <2>1. CASE y = type
    <3>1. e \in Alerting(type) /\ Alerting(type)' = Alerting(type) \ {e}
      BY <1>3, <2>0, <2>1, GoesFacts DEF Alerting, Evaluators
    <3>2. fresh'[type] = fresh[type] + 1
      BY <1>3, <2>1, AlertsFacts
    <3> QED BY <3>1, <3>2, OneAlerts DEF Goal
  <2>2. CASE y # type
    <3>1. Alerting(type)' \subseteq Alerting(type)
      BY <1>3, <2>0, GoesFacts DEF Alerting, Evaluators
    <3>2. fresh'[type] = fresh[type]
      BY <1>3, <2>2, AlertsFacts
    <3> QED BY <3>1, <3>2, NobodyAsks DEF Goal
  <2> QED BY <2>1, <2>2
<1>4. ASSUME UNCHANGED <<fresh, stage>> PROVE Goal
  <2>1. Alerting(type)' = Alerting(type)
    BY <1>4 DEF Alerting, Evaluators
  <2> QED BY <1>4, <2>1, NobodyAsks DEF Goal
<1>5. ASSUME NEW r \in Reports, ReportStep(r) PROVE Goal
  <2>1. CASE SpeedCheck(r)
    BY <1>1, <1>2, <2>1 DEF SpeedCheck, AlertStage, dataVars
  <2>2. CASE SpeedAlert(r)
    BY <1>3, <2>2 DEF SpeedAlert, AlertStage, Evaluators
  <2>3. ASSUME NEW g \in Fences, ExitCheck(r, g) PROVE Goal
    BY <1>1, <1>2, <1>4, <2>3 DEF ExitCheck, AlertStage, dataVars
  <2>4. CASE ExitAlert(r)
    BY <1>3, <2>4 DEF ExitAlert, AlertStage, Evaluators
  <2>5. ASSUME NEW next \in Stages \ {"speedAlert", "exitAlert", "stopAlert"},
               Goes(r, next), UNCHANGED fresh
        PROVE  Goal
    BY <1>1, <2>5 DEF AlertStage
  <2> QED
    BY <1>5, <2>1, <2>2, <2>3, <2>4, <2>5
       DEF ReportStep, Report, UpdateUnit, ReadFences, NoFences, LookForExits,
           SetMember, ReportFails, dataVars
<1>6. ASSUME NEW k \in Crons, StopStep(k) \/ StopFails(k) PROVE Goal
  <2>1. CASE StopCheck(k)
    BY <1>1, <1>2, <2>1 DEF StopCheck, AlertStage, dataVars
  <2>2. CASE StopAlert(k)
    BY <1>3, <2>2 DEF StopAlert, AlertStage, Evaluators
  <2>3. CASE StopLook(k) \/ StopMoved(k) \/ StopOlder(k) \/ StopFails(k)
    BY <1>1, <2>3 DEF StopLook, StopMoved, StopOlder, StopFails, AlertStage, dataVars
  <2> QED BY <1>6, <2>1, <2>2, <2>3 DEF StopStep
<1>7. ASSUME NEW y \in Types, WindowPasses(y) PROVE Goal
  <2>1. CASE y = type
    BY <1>7, <2>1, NoneYet DEF WindowPasses, Goal, TypeOK
  <2>2. CASE y # type
    <3>1. Alerting(type)' = Alerting(type) /\ fresh'[type] = fresh[type]
      BY <1>7, <2>2 DEF WindowPasses, Alerting, Evaluators, TypeOK
    <3> QED BY <3>1, NobodyAsks DEF Goal
  <2> QED BY <2>1, <2>2
<1>8. CASE Restart
  <2>1. Alerting(type)' = {} /\ fresh'[type] = fresh[type]
    BY <1>8 DEF Restart, Alerting, Evaluators, AlertStage
  <2> QED BY <2>1, NobodyAsks DEF Goal
<1> QED
  BY <1>4, <1>5, <1>6, <1>7, <1>8 DEF Next, MinutesPass, vars, Goal

(* However the evaluations overlap, there are no more alerts of a type in  *)
(* its window than calls that evaluate its rule.                           *)
THEOREM FewDuplicates == Spec => []DuplicatesBounded
<1>1. Init => AlertsCounted
  <2> SUFFICES ASSUME Init, NEW type \in Types
               PROVE  fresh[type] + Cardinality(Alerting(type))
                          <= Cardinality(Evaluators(type))
    BY DEF AlertsCounted
  <2>1. fresh[type] = 0 /\ Alerting(type) \subseteq Evaluators(type)
    BY DEF Init, Alerting
  <2> QED BY <2>1, AlertingFinite
<1>2. TypeOK /\ ExitsInTime /\ AlertsCounted /\ [Next]_vars
          => TypeOK' /\ ExitsInTime' /\ AlertsCounted'
  BY AlertTypesNext, AlertsCountedNext
<1>3. TypeOK /\ AlertsCounted => DuplicatesBounded
  <2> SUFFICES ASSUME TypeOK, AlertsCounted, NEW type \in Types
               PROVE  fresh[type] <= Cardinality(Evaluators(type))
    BY DEF DuplicatesBounded
  <2>1. Alerting(type) \subseteq Evaluators(type) /\ fresh[type] \in Nat
    BY DEF Alerting, TypeOK
  <2>2. fresh[type] + Cardinality(Alerting(type)) <= Cardinality(Evaluators(type))
    BY DEF AlertsCounted
  <2> QED BY <2>1, <2>2, AlertingFinite
<1> QED BY <1>1, <1>2, <1>3, AlertTypesInit, PTL DEF Spec

-----------------------------------------------------------------------------
(* Exits.  A report that is alone among those that deal with exits has on  *)
(* its list whatever the unit left, until an alert of it exists or is      *)
(* about to; and nobody else changes the membership meanwhile.             *)
LeavesAlone(r) ==
    /\ stage[r] \in Leaving
    /\ \A q \in Reports \ {r} : stage[q] \notin Leaving
    /\ \/ (member \cap fences[r]) \ at[r] \subseteq exits[r]
       \/ stage[r] = "exitAlert"
       \/ fresh["SALIDA_GEOCERCA"] > 0

AloneLeaves == \A r \in alone : LeavesAlone(r)

(* The steps of a report. *)
LEMMA AloneLeavesReport ==
    ASSUME TypeOK, AloneLeaves, NEW r \in Reports, ReportStep(r)
    PROVE  AloneLeaves'
<1> USE DEF Stages, Types, Leaving
<1>a. "SALIDA_GEOCERCA" \in Types
  OBVIOUS
<1>1. ASSUME NEW next \in Stages \ Leaving, Goes(r, next), stage[r] \notin Leaving,
             alone' \subseteq alone, UNCHANGED member,
             fresh["SALIDA_GEOCERCA"] > 0 => fresh'["SALIDA_GEOCERCA"] > 0,
             \A q \in Reports \ {r} : /\ at'[q] = at[q] /\ fences'[q] = fences[q]
                                      /\ exits'[q] = exits[q]
      PROVE  AloneLeaves'
  <2> SUFFICES ASSUME NEW q \in alone' PROVE LeavesAlone(q)'
    BY DEF AloneLeaves
  <2>1. q \in Reports /\ q # r /\ LeavesAlone(q)
    BY <1>1 DEF AloneLeaves, LeavesAlone, TypeOK
  <2>2. stage'[q] = stage[q]
    BY <1>1, <2>1, GoesFacts
  <2>3. \A p \in Reports : stage'[p] \in Leaving => stage[p] \in Leaving
    BY <1>1, GoesFacts
  <2> QED BY <1>1, <2>1, <2>2, <2>3 DEF LeavesAlone
<1>2. ASSUME Goes(r, "idle"), Forgets(r), UNCHANGED fresh,
             member' = member \/ stage[r] \in Leaving
      PROVE  AloneLeaves'
  <2> SUFFICES ASSUME NEW q \in alone' PROVE LeavesAlone(q)'
    BY DEF AloneLeaves
  <2>1. q \in Reports /\ q # r /\ LeavesAlone(q)
    BY <1>2 DEF AloneLeaves, Forgets, TypeOK
  <2>2. stage[r] \notin Leaving /\ UNCHANGED member
    BY <1>2, <2>1 DEF LeavesAlone
  <2>3. stage'[q] = stage[q] /\ \A p \in Reports : stage'[p] \in Leaving => stage[p] \in Leaving
    BY <1>2, <2>1, GoesFacts
  <2>4. at'[q] = at[q] /\ fences'[q] = fences[q] /\ exits'[q] = exits[q]
    BY <1>2, <2>1 DEF Forgets, TypeOK
  <2> QED BY <1>2, <2>1, <2>2, <2>3, <2>4 DEF LeavesAlone
<1>3. ASSUME NEW place \in SUBSET Fences, NEW v \in Speeds, NEW late \in BOOLEAN,
             Report(r, place, v, late)
      PROVE  AloneLeaves'
  BY <1>1, <1>3 DEF Report, TypeOK
<1>4. CASE UpdateUnit(r) \/ SpeedCheck(r)
  BY <1>1, <1>4 DEF UpdateUnit, SpeedCheck, dataVars, reportVars, TypeOK
<1>5. CASE SpeedAlert(r)
  <2>1. fresh'["SALIDA_GEOCERCA"] = fresh["SALIDA_GEOCERCA"]
    BY <1>5, AlertsFacts DEF SpeedAlert
  <2> QED BY <1>1, <1>5, <2>1 DEF SpeedAlert, reportVars
<1>6. ASSUME NEW active \in SUBSET Fences, ReadFences(r, active) PROVE AloneLeaves'
  BY <1>1, <1>6 DEF ReadFences, dataVars, TypeOK
<1>7. CASE NoFences(r) \/ ReportFails(r) \/ SetMember(r)
  BY <1>2, <1>7 DEF NoFences, ReportFails, SetMember, dataVars
<1>8. CASE LookForExits(r)
  <2> SUFFICES ASSUME NEW q \in alone' PROVE LeavesAlone(q)'
    BY DEF AloneLeaves
  <2>1. q = r /\ ~Overlapped
    BY <1>8 DEF LookForExits
  <2>2. stage'[r] = "exits" /\ \A p \in Reports \ {r} : stage'[p] \notin Leaving
    BY <1>8, <2>1, GoesFacts DEF LookForExits, Overlapped
  <2>3. exits'[r] = (member \cap fences[r]) \ at[r]
    BY <1>8 DEF LookForExits, TypeOK
  <2> QED BY <1>8, <2>1, <2>2, <2>3 DEF LookForExits, dataVars, LeavesAlone
<1>9. ASSUME NEW g \in Fences, ExitCheck(r, g) PROVE AloneLeaves'
  <2> SUFFICES ASSUME NEW q \in alone' PROVE LeavesAlone(q)'
    BY DEF AloneLeaves
  <2>1. q \in Reports /\ LeavesAlone(q) /\ q = r
    BY <1>9 DEF AloneLeaves, ExitCheck, LeavesAlone, TypeOK
  <2>2. \/ stage'[r] = "exitAlert" /\ \A p \in Reports \ {r} : stage'[p] = stage[p]
        \/ UNCHANGED stage /\ fresh["SALIDA_GEOCERCA"] > 0
    BY <1>9, <1>a, GoesFacts DEF ExitCheck, Clear, TypeOK
  <2> QED BY <1>9, <2>1, <2>2 DEF ExitCheck, dataVars, LeavesAlone
<1>10. CASE ExitAlert(r)
  <2> SUFFICES ASSUME NEW q \in alone' PROVE LeavesAlone(q)'
    BY DEF AloneLeaves
  <2>1. q \in Reports /\ LeavesAlone(q) /\ q = r
    BY <1>10 DEF AloneLeaves, ExitAlert, LeavesAlone, reportVars, TypeOK
  <2>2. stage'[r] = "exits" /\ \A p \in Reports \ {r} : stage'[p] = stage[p]
    BY <1>10, GoesFacts DEF ExitAlert
  <2>3. fresh'["SALIDA_GEOCERCA"] > 0
    BY <1>10, <1>a, AlertsFacts DEF ExitAlert, TypeOK
  <2> QED BY <2>1, <2>2, <2>3 DEF LeavesAlone
<1> QED
  BY <1>3, <1>4, <1>5, <1>6, <1>7, <1>8, <1>9, <1>10 DEF ReportStep

(* Every step. *)
LEMMA AloneLeavesNext ==
    ASSUME TypeOK, AloneLeaves, [Next]_vars
    PROVE  AloneLeaves'
<1> USE DEF Stages, Types, Leaving
<1>1. ASSUME NEW r \in Reports, ReportStep(r) PROVE AloneLeaves'
  BY <1>1, AloneLeavesReport
<1>2. ASSUME UNCHANGED reportVars, UNCHANGED member,
             \A r \in Reports : stage'[r] = stage[r],
             fresh'["SALIDA_GEOCERCA"] = fresh["SALIDA_GEOCERCA"]
      PROVE  AloneLeaves'
  BY <1>2 DEF reportVars, AloneLeaves, LeavesAlone, TypeOK
<1>3. ASSUME NEW k \in Crons, NEW next \in Stages, Goes(k, next)
      PROVE  \A r \in Reports : stage'[r] = stage[r]
  BY <1>3, CronsAssumption, GoesFacts
<1>4. ASSUME NEW k \in Crons, StopStep(k) \/ StopFails(k) PROVE AloneLeaves'
  <2>1. fresh'["SALIDA_GEOCERCA"] = fresh["SALIDA_GEOCERCA"]
    BY <1>4, AlertsFacts DEF StopStep, StopLook, StopMoved, StopOlder, StopCheck,
                             StopAlert, StopFails, dataVars
  <2> QED BY <1>2, <1>3, <1>4, <2>1
          DEF StopStep, StopLook, StopMoved, StopOlder, StopCheck, StopAlert,
              StopFails, dataVars
<1>5. ASSUME Quiet PROVE alone = {}
  BY <1>5 DEF Quiet, AloneLeaves, LeavesAlone, TypeOK
<1>6. ASSUME NEW type \in Types, WindowPasses(type) PROVE AloneLeaves'
  BY <1>5, <1>6 DEF WindowPasses, reportVars, AloneLeaves
<1>7. CASE MinutesPass
  BY <1>5, <1>7 DEF MinutesPass, reportVars, AloneLeaves
<1>8. CASE Restart
  BY <1>8 DEF Restart, AloneLeaves
<1>9. CASE UNCHANGED vars
  BY <1>2, <1>9 DEF vars, reportVars
<1> QED BY <1>1, <1>4, <1>6, <1>7, <1>8, <1>9 DEF Next

(* A step at which a report ends reports the exits it was to report. *)
LEMMA ExitsAreReportedNext ==
    ASSUME TypeOK, AloneLeaves, [Next]_vars, NEW g \in member \ member'
    PROVE  \/ Restart
           \/ fresh["SALIDA_GEOCERCA"] > 0
           \/ \E r \in Reports :
                 /\ stage'[r] # stage[r]
                 /\ r \notin alone \cup alone' \/ g \notin fences[r]
<1>1. \/ Restart
      \/ \E r \in Reports : SetMember(r)
  BY DEF Next, ReportStep, Report, UpdateUnit, SpeedCheck, SpeedAlert, ReadFences,
         NoFences, LookForExits, ExitCheck, ExitAlert, ReportFails, StopStep,
         StopLook, StopMoved, StopOlder, StopCheck, StopAlert, StopFails,
         WindowPasses, MinutesPass, dataVars, reportVars, vars
<1>2. ASSUME NEW r \in Reports, SetMember(r), r \in alone, g \in fences[r]
      PROVE  fresh["SALIDA_GEOCERCA"] > 0
  BY <1>2 DEF SetMember, AloneLeaves, LeavesAlone
<1>3. ASSUME NEW r \in Reports, SetMember(r)
      PROVE  stage'[r] # stage[r] /\ alone' \subseteq alone
  BY <1>3, GoesFacts DEF SetMember, Forgets, Stages
<1> QED BY <1>1, <1>2, <1>3

(* The unit is not forgotten to be in a geofence without an alert of its   *)
(* exit, unless the server restarts, positions are evaluated at once or    *)
(* the geofence was switched off.                                          *)
THEOREM ExitsReported == Spec => ExitsAreReported
<1>1. Init => AloneLeaves
  BY DEF Init, AloneLeaves
<1>2. TypeOK /\ ExitsInTime /\ AloneLeaves /\ [Next]_vars
          => TypeOK' /\ ExitsInTime' /\ AloneLeaves'
  BY AlertTypesNext, AloneLeavesNext
<1>3. TypeOK /\ AloneLeaves /\ [Next]_vars =>
          [\A g \in member \ member' :
              \/ Restart
              \/ fresh["SALIDA_GEOCERCA"] > 0
              \/ \E r \in Reports :
                    /\ stage'[r] # stage[r]
                    /\ r \notin alone \cup alone' \/ g \notin fences[r]]_vars
  BY ExitsAreReportedNext
<1> QED
  BY <1>1, <1>2, <1>3, AlertTypesInit, PTL DEF Spec, ExitsAreReported

-----------------------------------------------------------------------------
(* Chat. *)
LEMMA ChatTypesInit == ChatInit => ChatTypes
  BY ClockBound DEF ChatInit, ChatTypes

(* A reading at rest is not one under way. *)
LEMMA RestFacts ==
    /\ Rest.step = "rest" /\ Rest \notin Underway
    /\ \A r \in Underway : /\ r # Rest
                           /\ r.by \in Talkers /\ r.of \in Conversations
                           /\ r.step \in {"member", "receipts"}
    /\ \A step \in ReadingSteps, u \in Talkers, c \in Conversations :
          [step |-> step, by |-> u, of |-> c] \in Underway
  BY DEF Rest, Underway, ReadingSteps

(* The end of one reading, while the others go on. *)
LEMMA RestsFacts ==
    ASSUME ChatTypes, NEW k \in Readings, Rests(k)
    PROVE  /\ reading' \in [Readings -> {Rest} \cup Underway]
           /\ now' \in [Readings -> 0..MaxClock]
           /\ settled' \in [Readings -> SUBSET Messages]
           /\ reading'[k] = Rest /\ settled'[k] = {}
           /\ \A q \in Readings \ {k} : /\ reading'[q] = reading[q]
                                        /\ now'[q] = now[q]
                                        /\ settled'[q] = settled[q]
           /\ \A q \in Readings : now'[q] = now[q] \/ now'[q] = 0
  BY ClockBound DEF Rests, ChatTypes

(* The steps of a message. *)
LEMMA ChatTypesMessage ==
    ASSUME ChatTypes, NEW m \in Messages,
           \/ \E u \in Talkers, c \in Conversations : Store(m, u, c)
           \/ Touch(m) \/ Deliver(m) \/ Announce(m) \/ SendFails(m)
    PROVE  ChatTypes'
<1> USE DEF readingVars
<1>1. ASSUME NEW u \in Talkers, NEW c \in Conversations, Store(m, u, c)
      PROVE  ChatTypes'
  <2>1. chatClock + 1 \in 0..MaxClock
    BY <1>1, ClockBound DEF Store, ChatTypes
  <2>2. crossed' \subseteq Messages
    BY <1>1 DEF Store, ChatTypes
  <2> QED BY <1>1, <2>1, <2>2 DEF Store, ChatTypes
<1>2. CASE Touch(m)
  <2>1. within[m] \in Conversations /\ stamp[m] \in 0..MaxClock
    BY <1>2 DEF Touch, ChatTypes
  <2> QED BY <1>2, <2>1 DEF Touch, ChatTypes
<1>3. CASE Deliver(m)
  BY <1>3 DEF Deliver, ChatTypes
<1>4. CASE Announce(m)
  BY <1>4 DEF Announce, ChatTypes
<1>5. CASE SendFails(m)
  BY <1>5 DEF SendFails, InFlight, ChatTypes
<1> QED BY <1>1, <1>2, <1>3, <1>4, <1>5

(* The steps of a reading. *)
LEMMA ChatTypesReading ==
    ASSUME ChatTypes, NEW k \in Readings,
           \/ \E u \in Talkers, c \in Conversations : ReadNow(k, u, c)
           \/ ReadMember(k) \/ ReadReceipts(k) \/ ReadFails(k)
    PROVE  ChatTypes'
<1> USE DEF messageVars
<1>1. ASSUME NEW u \in Talkers, NEW c \in Conversations, ReadNow(k, u, c)
      PROVE  ChatTypes'
  <2>1. chatClock + 1 \in 0..MaxClock
    BY <1>1, ClockBound DEF ReadNow, ChatTypes
  <2>2. crossed' \subseteq Messages
    BY <1>1 DEF ReadNow, To, ChatTypes
  <2>3. settled' \in [Readings -> SUBSET Messages]
    BY <1>1 DEF ReadNow, To, ChatTypes
  <2>4. reading' \in [Readings -> {Rest} \cup Underway]
    BY <1>1, RestFacts DEF ReadNow, ChatTypes, ReadingSteps
  <2> QED BY <1>1, <2>1, <2>2, <2>3, <2>4 DEF ReadNow, ChatTypes
<1>2. CASE ReadMember(k)
  <2>1. reading[k] \in Underway
    BY <1>2, RestFacts DEF ReadMember, ChatTypes
  <2>2. [reading[k] EXCEPT !.step = "receipts"] \in Underway
    BY <2>1 DEF Underway, ReadingSteps
  <2>3. reading' \in [Readings -> {Rest} \cup Underway]
    BY <1>2, <2>2 DEF ReadMember, ChatTypes
  <2>4. lastReadAt' \in [Conversations -> [Talkers -> 0..MaxClock]]
    BY <1>2, <2>1, RestFacts DEF ReadMember, ChatTypes
  <2> QED BY <1>2, <2>3, <2>4 DEF ReadMember, ChatTypes
<1>3. CASE ReadReceipts(k)
  <2>1. crossed' \subseteq Messages
    BY <1>3 DEF ReadReceipts, ChatTypes
  <2>2. /\ receipt' \in [Messages -> {"none", "delivered", "read"}]
        /\ \A m \in Messages : receipt[m] # "none" => receipt'[m] # "none"
    BY <1>3 DEF ReadReceipts, ChatTypes
  <2> QED BY <1>3, <2>1, <2>2, RestsFacts DEF ReadReceipts, ChatTypes
<1>4. CASE ReadFails(k)
  <2>1. crossed' \subseteq Messages
    BY <1>4 DEF ReadFails, To, ChatTypes
  <2> QED BY <1>4, <2>1, RestsFacts DEF ReadFails, ChatTypes
<1> QED BY <1>1, <1>2, <1>3, <1>4

(* Every step. *)
LEMMA ChatTypesNext == ChatTypes /\ [ChatNext]_chatVars => ChatTypes'
<1> SUFFICES ASSUME ChatTypes, [ChatNext]_chatVars PROVE ChatTypes'
  OBVIOUS
<1>1. ASSUME NEW x \in Makers, FindDirect(x) PROVE ChatTypes'
  BY <1>1 DEF FindDirect, ChatTypes, messageVars, readingVars
<1>2. ASSUME NEW x \in Makers, NEW c \in Conversations, CreateDirect(x, c)
      PROVE  ChatTypes'
  BY <1>2 DEF CreateDirect, ChatTypes, messageVars, readingVars
<1>3. CASE UNCHANGED chatVars
  BY <1>3 DEF chatVars, ChatTypes
<1> QED BY <1>1, <1>2, <1>3, ChatTypesMessage, ChatTypesReading DEF ChatNext

(* Every variable of the chat has its type: whatever was sent is in a      *)
(* conversation, and announced only with its receipt.                      *)
THEOREM ChatTyped == ChatSpec => []ChatTypes
  BY ChatTypesInit, ChatTypesNext, PTL DEF ChatSpec

(* "Para conversaciones directas, reutiliza la existente": there are never *)
(* more than callers that looked for one at the same time.                 *)
THEOREM FewDirects == ChatSpec => []DirectsBounded
<1> DEFINE Counted == IsFiniteSet(open) /\ DirectsBounded
<1>m. ASSUME ChatTypes PROVE IsFiniteSet(making) /\ Cardinality(making) \in Nat
  BY <1>m, FewMakers, FS_Subset, FS_CardinalityType DEF ChatTypes
<1>1. ChatInit => Counted
  BY FewMakers, FS_EmptySet, FS_CardinalityType DEF ChatInit, DirectsBounded
<1>2. ASSUME ChatTypes, ChatTypes', Counted, [ChatNext]_chatVars PROVE Counted'
  <2>1. ASSUME NEW x \in Makers, FindDirect(x) PROVE Counted'
    <3>1. /\ Cardinality(making') \in Nat
          /\ Cardinality(making') <= Cardinality(Makers)
      BY <1>2, FewMakers, FS_Subset, FS_CardinalityType DEF ChatTypes
    <3>2. open' = {} /\ IsFiniteSet(open') /\ Cardinality(open') = 0
      BY <2>1, FS_EmptySet DEF FindDirect
    <3> QED BY <3>1, <3>2 DEF DirectsBounded
  <2>2. ASSUME NEW x \in Makers, NEW c \in Conversations, CreateDirect(x, c)
        PROVE  Counted'
    <3>1. /\ IsFiniteSet(open \cup {c})
          /\ Cardinality(open \cup {c}) = Cardinality(open) + 1
      BY <1>2, <2>2, FS_AddElement DEF CreateDirect
    <3>2. Cardinality(making \ {x}) = Cardinality(making) - 1
      BY <1>2, <1>m, <2>2, FS_RemoveElement DEF CreateDirect
    <3>3. Cardinality(open) \in Nat /\ Cardinality(making) \in Nat
      BY <1>2, <1>m, FS_CardinalityType
    <3>4. Cardinality(Makers) \in Nat
      BY FewMakers, FS_CardinalityType
    <3>5. Cardinality(open') + Cardinality(making') <= Cardinality(Makers)
      BY <1>2, <2>2, <3>1, <3>2, <3>3, <3>4 DEF CreateDirect, DirectsBounded
    <3> QED BY <2>2, <3>1, <3>5 DEF CreateDirect, DirectsBounded
  <2>3. CASE UNCHANGED <<open, making>>
    BY <1>2, <2>3 DEF DirectsBounded
  <2> QED
    BY <1>2, <2>1, <2>2, <2>3
       DEF ChatNext, Store, Touch, Deliver, Announce, SendFails, ReadNow,
           ReadMember, ReadReceipts, ReadFails, chatVars
<1> QED BY <1>1, <1>2, ChatTypesInit, ChatTypesNext, PTL DEF ChatSpec

-----------------------------------------------------------------------------
(* The badge and the receipts.  What the proof needs of times: the clock   *)
(* is ahead of all that was taken from it.                                 *)
ClockAhead ==
    /\ \A m \in Messages : stamp[m] <= chatClock
    /\ \A c \in Conversations, u \in Talkers : lastReadAt[c][u] <= chatClock
    /\ \A k \in Readings : now[k] <= chatClock

Unsent == \A m \in Messages : sent[m] = "no" => receipt[m] = "none"

(* What a reading is to mend was sent before, to the one who reads. *)
SettledDone ==
    \A k \in Readings : \A m \in settled[k] :
        /\ reading[k] # Rest
        /\ m \in To(reading[k].by, reading[k].of)
        /\ ~InFlight(m)

(* A message in flight that no reading crossed is not read by any. *)
UnreadInFlight ==
    \A u \in Talkers, c \in Conversations : \A m \in To(u, c) \ crossed :
        InFlight(m) => /\ ReadBy(u, c) = {}
                       /\ receipt[m] # "read"
                       /\ lastReadAt[c][u] < stamp[m]

(* The messages a reading under way agrees with, or is going to: their     *)
(* times come before that of the reading, and before the badge's as soon   *)
(* as one of the readings has stored its own.                              *)
Vouched(u, c) ==
    {m \in To(u, c) : m \notin crossed \/ \E k \in ReadBy(u, c) : m \in settled[k]}

ReadLater ==
    \A u \in Talkers, c \in Conversations :
        \A m \in Vouched(u, c), k \in ReadBy(u, c) :
            /\ stamp[m] <= now[k]
            /\ reading[k].step = "receipts" => stamp[m] <= lastReadAt[c][u]

(* As long as no reading is between the badge and the receipts they agree. *)
Agree ==
    \A u \in Talkers, c \in Conversations :
        (\A k \in ReadBy(u, c) : reading[k].step = "member") =>
            \A m \in To(u, c) \ crossed :
                receipt[m] # "none" =>
                    (receipt[m] = "read" <=> stamp[m] <= lastReadAt[c][u])

BadgeInv == ClockAhead /\ Unsent /\ SettledDone /\ UnreadInFlight /\ ReadLater /\ Agree

(* The two people who talk. *)
LEMMA TwoTalkers == \E a, b \in Talkers : a # b /\ Talkers = {a, b}
<1>1. PICK a \in Talkers : TRUE
  BY TwoTalk, FS_EmptySet
<1>2. IsFiniteSet(Talkers \ {a}) /\ Cardinality(Talkers \ {a}) = 1
  BY TwoTalk, FS_RemoveElement
<1>3. PICK b : Talkers \ {a} = {b}
  BY <1>2, FS_Singleton
<1> QED BY <1>3

(* The reader of a message is the other one. *)
LEMMA ReaderFacts ==
    ASSUME NEW m, sender[m] \in Talkers
    PROVE  Reader(m) \in Talkers /\ Reader(m) # sender[m]
<1>1. \E u \in Talkers : u # sender[m]
  BY TwoTalkers
<1> QED BY <1>1 DEF Reader

(* Whoever did not send it reads it. *)
LEMMA OneReader ==
    ASSUME NEW m, sender[m] \in Talkers, NEW u \in Talkers, u # sender[m],
           NEW w \in Talkers, w # sender[m]
    PROVE  u = w
  BY TwoTalkers

(* Initially nothing is unread. *)
LEMMA BadgeInit == ChatInit => BadgeInv
<1> SUFFICES ASSUME ChatInit PROVE BadgeInv
  OBVIOUS
<1>1. \A u, c : To(u, c) = {} /\ Vouched(u, c) = {}
  BY DEF ChatInit, To, Vouched
<1>2. ClockAhead /\ Unsent /\ SettledDone
  BY DEF ChatInit, ClockAhead, Unsent, SettledDone
<1>3. UnreadInFlight /\ ReadLater /\ Agree
  BY <1>1 DEF UnreadInFlight, ReadLater, Agree
<1> QED BY <1>2, <1>3 DEF BadgeInv

(* Readings and times stay, and the messages at most end their flight.     *)
LEMMA BadgeSending ==
    ASSUME ChatTypes, BadgeInv, NEW m \in Messages,
           Touch(m) \/ Deliver(m) \/ Announce(m) \/ SendFails(m)
    PROVE  BadgeInv'
<1> USE DEF BadgeInv, readingVars
<1>1. /\ UNCHANGED <<chatClock, sender, within, stamp, crossed, readingVars>>
      /\ sent[m] \in {"stored", "receipts", "emit"}
      /\ sent' = [sent EXCEPT ![m] = sent'[m]] /\ sent'[m] # "no"
      /\ receipt' = receipt \/ (InFlight(m) /\ receipt' = [receipt EXCEPT ![m] = "delivered"])
  BY DEF Touch, Deliver, Announce, SendFails, InFlight, ChatTypes
<1>2. /\ \A n \in Messages : InFlight(n)' => InFlight(n)
      /\ \A u, c : To(u, c)' = To(u, c) /\ ReadBy(u, c)' = ReadBy(u, c)
      /\ \A u, c : Vouched(u, c)' = Vouched(u, c)
  <2>1. \A n \in Messages : InFlight(n)' => InFlight(n)
    BY <1>1 DEF InFlight, ChatTypes
  <2>2. \A n \in Messages : sent'[n] # "no" <=> sent[n] # "no"
    BY <1>1 DEF ChatTypes
  <2>3. \A u, c : To(u, c)' = To(u, c)
    BY <1>1, <2>2 DEF To
  <2>4. \A u, c : ReadBy(u, c)' = ReadBy(u, c)
    BY <1>1 DEF ReadBy
  <2> QED BY <1>1, <2>1, <2>3, <2>4 DEF Vouched
<1>3. \A n \in Messages : \/ receipt'[n] = receipt[n]
                          \/ n = m /\ InFlight(m) /\ receipt'[n] = "delivered"
  <2>1. receipt \in [Messages -> {"none", "delivered", "read"}]
    BY DEF ChatTypes
  <2> QED BY <1>1, <2>1
<1>4. ClockAhead' /\ ReadLater'
  BY <1>1, <1>2 DEF ClockAhead, ReadLater
<1>5. Unsent'
  BY <1>1, <1>3 DEF Unsent, ChatTypes
<1>6. SettledDone'
  <2> SUFFICES ASSUME NEW k \in Readings, NEW n \in settled[k]
               PROVE  reading[k] # Rest /\ n \in To(reading[k].by, reading[k].of)
                      /\ ~InFlight(n)'
    BY <1>1, <1>2 DEF SettledDone
  <2> QED BY <1>2 DEF SettledDone, To
<1>7. UnreadInFlight'
  <2> SUFFICES ASSUME NEW u \in Talkers, NEW c \in Conversations,
                      NEW n \in To(u, c) \ crossed, InFlight(n)'
               PROVE  ReadBy(u, c) = {} /\ receipt'[n] # "read"
                      /\ lastReadAt[c][u] < stamp[n]
    BY <1>1, <1>2 DEF UnreadInFlight
  <2>1. n \in Messages
    BY DEF To
  <2>2. InFlight(n)
    BY <1>2, <2>1
  <2>3. ReadBy(u, c) = {} /\ receipt[n] # "read" /\ lastReadAt[c][u] < stamp[n]
    BY <2>2 DEF UnreadInFlight
  <2> QED BY <1>3, <2>1, <2>3
<1>8. Agree'
  <2> SUFFICES ASSUME NEW u \in Talkers, NEW c \in Conversations,
                      \A k \in ReadBy(u, c) : reading[k].step = "member",
                      NEW n \in To(u, c) \ crossed, receipt'[n] # "none"
               PROVE  receipt'[n] = "read" <=> stamp[n] <= lastReadAt[c][u]
    BY <1>1, <1>2 DEF Agree
  <2>1. CASE receipt'[n] = receipt[n]
    BY <2>1 DEF Agree
  <2>2. CASE InFlight(n) /\ receipt'[n] = "delivered"
    <3>1. lastReadAt[c][u] < stamp[n]
      BY <2>2 DEF UnreadInFlight
    <3>2. lastReadAt[c][u] \in Nat /\ stamp[n] \in Nat
      BY ClockBound DEF ChatTypes, To
    <3> QED BY <2>2, <3>1, <3>2
  <2> QED BY <1>3, <2>1, <2>2 DEF To
<1> QED BY <1>4, <1>5, <1>6, <1>7, <1>8

(* A message is stored. *)
LEMMA BadgeStore ==
    ASSUME ChatTypes, BadgeInv, NEW m \in Messages, NEW v \in Talkers,
           NEW d \in Conversations, Store(m, v, d)
    PROVE  BadgeInv'
<1> USE DEF BadgeInv, readingVars
<1>1. /\ chatClock' = chatClock + 1 /\ chatClock \in Nat
      /\ sent[m] = "no" /\ sent' = [sent EXCEPT ![m] = "stored"]
      /\ sender' = [sender EXCEPT ![m] = v]
      /\ within' = [within EXCEPT ![m] = d]
      /\ stamp' = [stamp EXCEPT ![m] = chatClock + 1]
      /\ UNCHANGED <<receipt, lastMessageAt, readingVars>>
      /\ crossed \subseteq crossed'
  BY ClockBound DEF Store, ChatTypes
<1>2. /\ \A n \in Messages \ {m} : /\ InFlight(n)' <=> InFlight(n)
                                   /\ stamp'[n] = stamp[n]
                                   /\ n \in crossed' <=> n \in crossed
                                   /\ \A u, c : n \in To(u, c)' <=> n \in To(u, c)
      /\ \A u, c : ReadBy(u, c)' = ReadBy(u, c) /\ m \notin To(u, c)
      /\ \A u, c : m \in To(u, c)' <=> u # v /\ c = d
  BY <1>1 DEF Store, InFlight, To, ReadBy, ChatTypes
<1>3. \A u \in Talkers, c \in Conversations :
          m \in To(u, c)' \ crossed' => ReadBy(u, c) = {}
  BY <1>2 DEF Store
<1>4. \A k \in Readings : m \notin settled[k]
  BY <1>2 DEF SettledDone
<1>5. ClockAhead'
  <2>1. /\ \A n \in Messages : stamp[n] \in Nat
        /\ \A c \in Conversations, u \in Talkers : lastReadAt[c][u] \in Nat
        /\ \A k \in Readings : now[k] \in Nat
    BY ClockBound DEF ChatTypes
  <2>2. \A n \in Messages : stamp'[n] <= chatClock'
    BY <1>1, <2>1 DEF ClockAhead, ChatTypes
  <2> QED BY <1>1, <2>1, <2>2 DEF ClockAhead
<1>6. Unsent' /\ receipt[m] = "none"
  BY <1>1 DEF Unsent, ChatTypes
<1>7. SettledDone'
  <2> SUFFICES ASSUME NEW k \in Readings, NEW n \in settled[k]
               PROVE  reading[k] # Rest /\ n \in To(reading[k].by, reading[k].of)'
                      /\ ~InFlight(n)'
    BY <1>1 DEF SettledDone
  <2>1. n \in Messages \ {m}
    BY <1>4 DEF ChatTypes
  <2>2. reading' = reading
    BY <1>1
  <2> QED BY <1>2, <2>1, <2>2 DEF SettledDone
<1>8. UnreadInFlight'
  <2> SUFFICES ASSUME NEW u \in Talkers, NEW c \in Conversations,
                      NEW n \in To(u, c)' \ crossed', InFlight(n)'
               PROVE  ReadBy(u, c) = {} /\ receipt[n] # "read"
                      /\ lastReadAt[c][u] < stamp'[n]
    BY <1>1, <1>2 DEF UnreadInFlight
  <2>1. CASE n = m
    <3>1. lastReadAt[c][u] <= chatClock /\ lastReadAt[c][u] \in Nat
      BY ClockBound DEF ClockAhead, ChatTypes
    <3>2. stamp'[m] = chatClock + 1
      BY <1>1 DEF ChatTypes
    <3> QED BY <1>1, <1>3, <1>6, <2>1, <3>1, <3>2
  <2>2. CASE n # m
    <3>1. n \in Messages \ {m}
      BY <2>2 DEF To
    <3>2. n \in To(u, c) \ crossed /\ InFlight(n) /\ stamp'[n] = stamp[n]
      BY <1>2, <3>1
    <3> QED BY <3>2 DEF UnreadInFlight
  <2> QED BY <2>1, <2>2
<1>9. ReadLater'
  <2> SUFFICES ASSUME NEW u \in Talkers, NEW c \in Conversations,
                      NEW n \in Vouched(u, c)', NEW k \in ReadBy(u, c)
               PROVE  /\ stamp'[n] <= now[k]
                      /\ reading[k].step = "receipts" => stamp'[n] <= lastReadAt[c][u]
    BY <1>1, <1>2 DEF ReadLater
  <2>1. n \in Messages \ {m}
    BY <1>1, <1>2, <1>3, <1>4 DEF Vouched, To, ReadBy
  <2>2. n \in Vouched(u, c)
    BY <1>1, <1>2, <2>1 DEF Vouched
  <2> QED BY <1>2, <2>1, <2>2 DEF ReadLater
<1>10. Agree'
  <2> SUFFICES ASSUME NEW u \in Talkers, NEW c \in Conversations,
                      \A k \in ReadBy(u, c) : reading[k].step = "member",
                      NEW n \in To(u, c)' \ crossed', receipt[n] # "none"
               PROVE  receipt[n] = "read" <=> stamp'[n] <= lastReadAt[c][u]
    BY <1>1, <1>2 DEF Agree
  <2>1. n \in Messages \ {m}
    BY <1>6 DEF To
  <2> QED BY <1>2, <2>1 DEF Agree
<1> QED BY <1>5, <1>6, <1>7, <1>8, <1>9, <1>10

(* A reading takes its time. *)
LEMMA BadgeReadNow ==
    ASSUME ChatTypes, BadgeInv, NEW k \in Readings, NEW v \in Talkers,
           NEW d \in Conversations, ReadNow(k, v, d)
    PROVE  BadgeInv'
<1> USE DEF BadgeInv, messageVars
<1>1. /\ reading[k] = Rest
      /\ chatClock' = chatClock + 1 /\ chatClock \in Nat
      /\ now' = [now EXCEPT ![k] = chatClock + 1]
      /\ reading'[k] = [step |-> "member", by |-> v, of |-> d]
      /\ \A q \in Readings \ {k} : /\ reading'[q] = reading[q]
                                   /\ settled'[q] = settled[q]
                                   /\ now'[q] = now[q]
      /\ UNCHANGED <<open, making, messageVars, lastReadAt>>
      /\ \A n \in To(v, d) : InFlight(n) => n \in crossed'
      /\ crossed \subseteq crossed'
      /\ \A n \in crossed' \ crossed : InFlight(n)
  BY ClockBound DEF ReadNow, ChatTypes
<1>2. /\ reading'[k] # Rest /\ reading'[k].step = "member"
      /\ reading'[k].by = v /\ reading'[k].of = d /\ now'[k] = chatClock + 1
  BY <1>1, RestFacts DEF ReadingSteps, Rest, ChatTypes
<1>3. /\ \A n : InFlight(n)' <=> InFlight(n)
      /\ \A u, c : To(u, c)' = To(u, c)
      /\ \A u, c : \A q \in Readings \ {k} : q \in ReadBy(u, c)' <=> q \in ReadBy(u, c)
      /\ \A u, c : k \notin ReadBy(u, c)
      /\ \A u, c : k \in ReadBy(u, c)' <=> u = v /\ c = d
      /\ \A u, c : ReadBy(u, c)' \subseteq Readings /\ ReadBy(u, c) \subseteq Readings
  BY <1>1, <1>2 DEF InFlight, To, ReadBy
<1>4. \/ settled'[k] = {n \in To(v, d) : ~InFlight(n)} /\ ReadBy(v, d) = {}
      \/ settled'[k] = {}
  BY DEF ReadNow, ChatTypes
<1>5. /\ \A n \in Messages : stamp[n] \in Nat /\ stamp[n] <= chatClock
      /\ \A c \in Conversations, u \in Talkers :
            lastReadAt[c][u] \in Nat /\ lastReadAt[c][u] <= chatClock
      /\ \A q \in Readings : now[q] \in Nat /\ now[q] <= chatClock
  BY ClockBound DEF ClockAhead, ChatTypes
<1>6. ClockAhead' /\ Unsent'
  <2>1. \A q \in Readings : now'[q] <= chatClock'
    BY <1>1, <1>2, <1>5
  <2> QED BY <1>1, <1>5, <2>1 DEF ClockAhead, Unsent
<1>7. SettledDone'
  <2> SUFFICES ASSUME NEW q \in Readings, NEW n \in settled'[q]
               PROVE  (/\ reading[q] # Rest
                       /\ n \in To(reading[q].by, reading[q].of)
                       /\ ~InFlight(n))'
    BY DEF SettledDone
  <2>1. CASE q = k
    BY <1>2, <1>3, <1>4, <2>1
  <2>2. CASE q # k
    BY <1>1, <1>3, <2>2 DEF SettledDone
  <2> QED BY <2>1, <2>2
<1>8. UnreadInFlight'
  <2> SUFFICES ASSUME NEW u \in Talkers, NEW c \in Conversations,
                      NEW n \in To(u, c) \ crossed', InFlight(n)
               PROVE  ReadBy(u, c)' = {} /\ receipt[n] # "read"
                      /\ lastReadAt[c][u] < stamp[n]
    BY <1>1, <1>3 DEF UnreadInFlight
  <2>1. ~(u = v /\ c = d) /\ n \notin crossed
    BY <1>1
  <2>2. ReadBy(u, c) = {} /\ receipt[n] # "read" /\ lastReadAt[c][u] < stamp[n]
    BY <2>1 DEF UnreadInFlight
  <2> QED BY <1>3, <2>1, <2>2
<1>9. ReadLater'
  <2> SUFFICES ASSUME NEW u \in Talkers, NEW c \in Conversations,
                      NEW n \in Vouched(u, c)', NEW q \in ReadBy(u, c)'
               PROVE  /\ stamp[n] <= now'[q]
                      /\ reading'[q].step = "receipts" => stamp[n] <= lastReadAt[c][u]
    BY <1>1 DEF ReadLater
  <2>0. n \in To(u, c)'
    BY DEF Vouched
  <2>1. n \in Messages /\ n \in To(u, c) /\ q \in Readings
    <3>1. n \in To(u, c)
      BY <1>3, <2>0
    <3>2. n \in Messages
      BY <3>1 DEF To
    <3> QED BY <1>3, <3>1, <3>2
  <2>2. CASE q = k
    <3>1. stamp[n] <= chatClock + 1
      BY <1>1, <1>5, <2>1
    <3> QED BY <1>2, <2>2, <3>1
  <2>3. CASE q # k
    <3>1. q \in ReadBy(u, c)
      BY <1>3, <2>1, <2>3
    <3>2. n \in Vouched(u, c)
      <4>1. CASE n \notin crossed'
        BY <1>1, <2>1, <4>1 DEF Vouched
      <4>2. ASSUME NEW p \in ReadBy(u, c)', n \in settled'[p]
            PROVE  n \in Vouched(u, c)
        <5>1. CASE p = k
          BY <1>3, <1>4, <3>1, <4>2, <5>1
        <5>2. CASE p # k
          BY <1>1, <1>3, <2>1, <4>2, <5>2 DEF Vouched
        <5> QED BY <5>1, <5>2
      <4> QED BY <4>1, <4>2 DEF Vouched
    <3> QED BY <1>1, <2>1, <2>3, <3>1, <3>2 DEF ReadLater
  <2> QED BY <2>2, <2>3
<1>10. Agree'
  <2> SUFFICES ASSUME NEW u \in Talkers, NEW c \in Conversations,
                      \A q \in ReadBy(u, c)' : reading'[q].step = "member",
                      NEW n \in To(u, c) \ crossed', receipt[n] # "none"
               PROVE  receipt[n] = "read" <=> stamp[n] <= lastReadAt[c][u]
    BY <1>1, <1>3 DEF Agree
  <2>1. \A q \in ReadBy(u, c) : reading[q].step = "member"
    BY <1>1, <1>3
  <2> QED BY <1>1, <2>1 DEF Agree
<1> QED BY <1>6, <1>7, <1>8, <1>9, <1>10

(* A reading writes its time, which the badge counts from. *)
LEMMA BadgeReadMember ==
    ASSUME ChatTypes, BadgeInv, NEW k \in Readings, ReadMember(k)
    PROVE  BadgeInv'
<1> USE DEF BadgeInv, messageVars
<1> DEFINE v == reading[k].by
           d == reading[k].of
<1>1. /\ reading[k] \in Underway /\ v \in Talkers /\ d \in Conversations
      /\ reading[k].step = "member" /\ reading[k] # Rest
  BY RestFacts DEF ReadMember, ChatTypes
<1>2. /\ UNCHANGED <<chatClock, messageVars, now, settled, crossed>>
      /\ reading'[k] = [reading[k] EXCEPT !.step = "receipts"]
      /\ \A q \in Readings \ {k} : reading'[q] = reading[q]
      /\ lastReadAt'[d][v] = now[k]
      /\ \A c \in Conversations, u \in Talkers :
            ~(u = v /\ c = d) => lastReadAt'[c][u] = lastReadAt[c][u]
  BY <1>1 DEF ReadMember, ChatTypes
<1>3. /\ reading'[k].by = v /\ reading'[k].of = d /\ reading'[k].step = "receipts"
      /\ reading'[k] # Rest
  BY <1>1, <1>2, RestFacts DEF Underway, ReadingSteps, Rest
<1> HIDE DEF v, d
<1>4. /\ \A u, c : ReadBy(u, c)' = ReadBy(u, c)
      /\ k \in ReadBy(v, d)
      /\ \A n : InFlight(n)' <=> InFlight(n)
      /\ \A u, c : To(u, c)' = To(u, c) /\ Vouched(u, c)' = Vouched(u, c)
  <2>1. ASSUME NEW u, NEW c PROVE ReadBy(u, c)' = ReadBy(u, c)
    <3>1. \A q \in Readings : /\ reading'[q] # Rest <=> reading[q] # Rest
                              /\ reading'[q].by = reading[q].by
                              /\ reading'[q].of = reading[q].of
      BY <1>1, <1>2, <1>3 DEF v, d
    <3> QED BY <3>1 DEF ReadBy
  <2>2. k \in ReadBy(v, d)
    BY <1>1 DEF ReadBy, v, d
  <2>3. \A u, c : To(u, c)' = To(u, c)
    BY <1>2 DEF To
  <2>4. \A n : InFlight(n)' <=> InFlight(n)
    BY <1>2 DEF InFlight
  <2> QED BY <1>2, <2>1, <2>2, <2>3, <2>4 DEF Vouched
<1>5. ClockAhead' /\ Unsent'
  BY <1>2 DEF ClockAhead, Unsent
<1>6. SettledDone'
  <2> SUFFICES ASSUME NEW q \in Readings, NEW n \in settled[q]
               PROVE  reading'[q] # Rest /\ n \in To(reading'[q].by, reading'[q].of)
                      /\ ~InFlight(n)
    BY <1>2, <1>4 DEF SettledDone
  <2>1. reading'[q].by = reading[q].by /\ reading'[q].of = reading[q].of
    BY <1>2, <1>3 DEF v, d
  <2>2. reading'[q] # Rest
    BY <1>2, <1>3 DEF SettledDone
  <2> QED BY <2>1, <2>2 DEF SettledDone
<1>7. UnreadInFlight'
  <2> SUFFICES ASSUME NEW u \in Talkers, NEW c \in Conversations,
                      NEW n \in To(u, c) \ crossed, InFlight(n)
               PROVE  ReadBy(u, c) = {} /\ receipt[n] # "read"
                      /\ lastReadAt'[c][u] < stamp[n]
    BY <1>2, <1>4 DEF UnreadInFlight
  <2>1. ReadBy(u, c) = {} /\ receipt[n] # "read" /\ lastReadAt[c][u] < stamp[n]
    BY DEF UnreadInFlight
  <2> QED BY <1>2, <1>4, <2>1
<1>8. ReadLater'
  <2> SUFFICES ASSUME NEW u \in Talkers, NEW c \in Conversations,
                      NEW n \in Vouched(u, c), NEW q \in ReadBy(u, c)
               PROVE  /\ stamp[n] <= now[q]
                      /\ reading'[q].step = "receipts" => stamp[n] <= lastReadAt'[c][u]
    BY <1>2, <1>4 DEF ReadLater
  <2>1. CASE u = v /\ c = d
    BY <1>2, <1>4, <2>1 DEF ReadLater
  <2>2. CASE ~(u = v /\ c = d)
    <3>1. q \in Readings /\ q # k
      BY <2>2 DEF ReadBy, v, d
    <3> QED BY <1>2, <2>2, <3>1 DEF ReadLater
  <2> QED BY <2>1, <2>2
<1>9. Agree'
  <2> SUFFICES ASSUME NEW u \in Talkers, NEW c \in Conversations,
                      \A q \in ReadBy(u, c) : reading'[q].step = "member",
                      NEW n \in To(u, c) \ crossed, receipt[n] # "none"
               PROVE  receipt[n] = "read" <=> stamp[n] <= lastReadAt'[c][u]
    BY <1>2, <1>4 DEF Agree
  <2>1. ~(u = v /\ c = d)
    BY <1>3, <1>4
  <2>2. \A q \in ReadBy(u, c) : q \in Readings /\ q # k
    BY <2>1 DEF ReadBy, v, d
  <2>3. \A q \in ReadBy(u, c) : reading[q].step = "member"
    BY <1>2, <2>2
  <2> QED BY <1>2, <2>1, <2>3 DEF Agree
<1> QED BY <1>5, <1>6, <1>7, <1>8, <1>9

(* A reading ends.  Those that go on are what they were. *)
LEMMA ReadingOver ==
    ASSUME ChatTypes, NEW k \in Readings, Rests(k)
    PROVE  /\ \A u, c : ReadBy(u, c)' = ReadBy(u, c) \ {k}
           /\ \A u, c : \A q \in ReadBy(u, c)' : /\ q \in Readings \ {k}
                                                 /\ reading'[q] = reading[q]
                                                 /\ settled'[q] = settled[q]
                                                 /\ now'[q] = now[q]
  BY RestsFacts DEF ReadBy

(* A reading marks the receipts. *)
LEMMA BadgeReadReceipts ==
    ASSUME ChatTypes, ChatTypes', BadgeInv, NEW k \in Readings, ReadReceipts(k)
    PROVE  BadgeInv'
<1> USE DEF BadgeInv, messageVars
<1> DEFINE v == reading[k].by
           d == reading[k].of
<1>1. /\ v \in Talkers /\ d \in Conversations
      /\ reading[k].step = "receipts" /\ reading[k] # Rest
  BY RestFacts DEF ReadReceipts, ChatTypes
<1>2. /\ UNCHANGED <<chatClock, sent, sender, within, stamp, lastReadAt>>
      /\ receipt' = [n \in Messages |->
                        IF n \in To(v, d) /\ receipt[n] # "none" THEN "read"
                        ELSE receipt[n]]
      /\ crossed' = IF ReadBy(v, d) = {k} THEN crossed \ settled[k] ELSE crossed
      /\ Rests(k)
  BY DEF ReadReceipts
<1>3. k \in ReadBy(v, d)
  BY <1>1 DEF ReadBy
<1>4. \A n \in settled[k] : n \in To(v, d) /\ ~InFlight(n)
  BY DEF SettledDone
<1> HIDE DEF v, d
<1>5. /\ \A n : InFlight(n)' <=> InFlight(n)
      /\ \A u, c : To(u, c)' = To(u, c)
      /\ \A u, c : ReadBy(u, c)' = ReadBy(u, c) \ {k}
      /\ \A u, c : \A q \in ReadBy(u, c)' : /\ q \in Readings \ {k}
                                            /\ reading'[q] = reading[q]
                                            /\ settled'[q] = settled[q]
                                            /\ now'[q] = now[q]
  BY <1>2, ReadingOver DEF InFlight, To
<1>6. \A n \in Messages : /\ n \in To(v, d) => receipt'[n] \in {"none", "read"}
                          /\ n \notin To(v, d) => receipt'[n] = receipt[n]
                          /\ receipt[n] = "none" <=> receipt'[n] = "none"
  BY <1>2 DEF ChatTypes
<1>7. ASSUME NEW u \in Talkers, NEW c \in Conversations,
             NEW n \in To(u, c), ~(u = v /\ c = d)
      PROVE  n \in Messages /\ n \notin To(v, d)
  <2>1. /\ n \in Messages /\ sender[n] # u /\ within[n] = c /\ sender[n] \in Talkers
    BY DEF To, ChatTypes
  <2> QED BY <1>1, <1>7, <2>1, OneReader DEF To
<1>8. ASSUME NEW u \in Talkers, NEW c \in Conversations,
             NEW n \in To(u, c) \ crossed', n \in crossed
      PROVE  u = v /\ c = d /\ n \in settled[k] /\ ReadBy(v, d) = {k}
  BY <1>2, <1>4, <1>7, <1>8
<1>9. ClockAhead' /\ Unsent'
  <2>1. \A q \in Readings : now'[q] <= chatClock
    <3>1. \A q \in Readings : now'[q] = now[q] \/ now'[q] = 0
      BY <1>2, RestsFacts
    <3>2. chatClock >= 0
      BY ClockBound DEF ChatTypes
    <3> QED BY <3>1, <3>2 DEF ClockAhead
  <2> QED BY <1>2, <1>6, <2>1 DEF ClockAhead, Unsent
<1>10. SettledDone'
  <2> SUFFICES ASSUME NEW q \in Readings, NEW n \in settled'[q]
               PROVE  (/\ reading[q] # Rest
                       /\ n \in To(reading[q].by, reading[q].of)
                       /\ ~InFlight(n))'
    BY DEF SettledDone
  <2>1. q # k /\ reading'[q] = reading[q] /\ settled'[q] = settled[q]
    BY <1>2, RestsFacts
  <2> QED BY <1>5, <2>1 DEF SettledDone
<1>11. UnreadInFlight'
  <2> SUFFICES ASSUME NEW u \in Talkers, NEW c \in Conversations,
                      NEW n \in To(u, c) \ crossed', InFlight(n)
               PROVE  ReadBy(u, c)' = {} /\ receipt'[n] # "read"
                      /\ lastReadAt[c][u] < stamp[n]
    BY <1>2, <1>5 DEF UnreadInFlight
  <2>1. n \notin crossed
    BY <1>4, <1>8
  <2>2. ReadBy(u, c) = {} /\ receipt[n] # "read" /\ lastReadAt[c][u] < stamp[n]
    BY <2>1 DEF UnreadInFlight
  <2>3. n \in Messages /\ n \notin To(v, d)
    BY <1>3, <1>7, <2>2
  <2> QED BY <1>5, <1>6, <2>2, <2>3
<1>12. ReadLater'
  <2> SUFFICES ASSUME NEW u \in Talkers, NEW c \in Conversations,
                      NEW n \in Vouched(u, c)', NEW q \in ReadBy(u, c)'
               PROVE  /\ stamp[n] <= now'[q]
                      /\ reading'[q].step = "receipts" => stamp[n] <= lastReadAt[c][u]
    BY <1>2 DEF ReadLater
  <2>1. n \in To(u, c) /\ q \in ReadBy(u, c)
    <3>1. n \in To(u, c)'
      BY DEF Vouched
    <3> QED BY <1>5, <3>1
  <2>2. n \in Vouched(u, c)
    <3>1. CASE n \notin crossed'
      <4>1. n \notin crossed
        BY <1>5, <1>8, <2>1, <3>1
      <4> QED BY <2>1, <4>1 DEF Vouched
    <3>2. ASSUME NEW p \in ReadBy(u, c)', n \in settled'[p]
          PROVE  n \in Vouched(u, c)
      <4>1. p \in ReadBy(u, c) /\ n \in settled[p]
        BY <1>5, <3>2
      <4> QED BY <2>1, <4>1 DEF Vouched
    <3> QED BY <3>1, <3>2 DEF Vouched
  <2> QED BY <1>5, <2>1, <2>2 DEF ReadLater
<1>13. Agree'
  <2> SUFFICES ASSUME NEW u \in Talkers, NEW c \in Conversations,
                      \A q \in ReadBy(u, c)' : reading'[q].step = "member",
                      NEW n \in To(u, c) \ crossed', receipt'[n] # "none"
               PROVE  receipt'[n] = "read" <=> stamp[n] <= lastReadAt[c][u]
    BY <1>2, <1>5 DEF Agree
  <2>1. n \in Messages
    BY DEF To
  <2>2. CASE u = v /\ c = d
    <3>1. n \in Vouched(u, c)
      BY <1>3, <1>8, <2>2 DEF Vouched
    <3>2. stamp[n] <= lastReadAt[c][u]
      BY <1>1, <1>3, <2>2, <3>1 DEF ReadLater
    <3> QED BY <1>6, <2>1, <2>2, <3>2
  <2>3. CASE ~(u = v /\ c = d)
    <3>1. n \notin To(v, d) /\ n \notin crossed /\ k \notin ReadBy(u, c)
      BY <1>7, <1>8, <2>3 DEF ReadBy, v, d
    <3>2. \A q \in ReadBy(u, c) : reading[q].step = "member"
      BY <1>5, <3>1
    <3> QED BY <1>6, <2>1, <3>1, <3>2 DEF Agree
  <2> QED BY <2>2, <2>3
<1> QED BY <1>9, <1>10, <1>11, <1>12, <1>13

(* A reading fails, before or after it has written its time. *)
LEMMA BadgeReadFails ==
    ASSUME ChatTypes, ChatTypes', BadgeInv, NEW k \in Readings, ReadFails(k)
    PROVE  BadgeInv'
<1> USE DEF BadgeInv, messageVars
<1> DEFINE v == reading[k].by
           d == reading[k].of
<1>1. /\ v \in Talkers /\ d \in Conversations /\ reading[k] # Rest
      /\ reading[k].step \in {"member", "receipts"}
  BY RestFacts DEF ReadFails, ChatTypes
<1>2. /\ UNCHANGED <<chatClock, messageVars, lastReadAt>>
      /\ crossed \subseteq crossed'
      /\ reading[k].step = "receipts" => To(v, d) \subseteq crossed'
      /\ Rests(k)
  BY DEF ReadFails
<1>3. k \in ReadBy(v, d) /\ \A u, c : k \in ReadBy(u, c) => u = v /\ c = d
  BY <1>1 DEF ReadBy
<1> HIDE DEF v, d
<1>4. /\ \A n : InFlight(n)' <=> InFlight(n)
      /\ \A u, c : To(u, c)' = To(u, c)
      /\ \A u, c : ReadBy(u, c)' = ReadBy(u, c) \ {k}
      /\ \A u, c : \A q \in ReadBy(u, c)' : /\ q \in Readings \ {k}
                                            /\ reading'[q] = reading[q]
                                            /\ settled'[q] = settled[q]
                                            /\ now'[q] = now[q]
  BY <1>2, ReadingOver DEF InFlight, To
<1>5. ClockAhead' /\ Unsent'
  <2>1. \A q \in Readings : now'[q] <= chatClock
    <3>1. \A q \in Readings : now'[q] = now[q] \/ now'[q] = 0
      BY <1>2, RestsFacts
    <3>2. chatClock >= 0
      BY ClockBound DEF ChatTypes
    <3> QED BY <3>1, <3>2 DEF ClockAhead
  <2> QED BY <1>2, <2>1 DEF ClockAhead, Unsent
<1>6. SettledDone'
  <2> SUFFICES ASSUME NEW q \in Readings, NEW n \in settled'[q]
               PROVE  (/\ reading[q] # Rest
                       /\ n \in To(reading[q].by, reading[q].of)
                       /\ ~InFlight(n))'
    BY DEF SettledDone
  <2>1. q # k /\ reading'[q] = reading[q] /\ settled'[q] = settled[q]
    BY <1>2, RestsFacts
  <2> QED BY <1>4, <2>1 DEF SettledDone
<1>7. UnreadInFlight'
  <2> SUFFICES ASSUME NEW u \in Talkers, NEW c \in Conversations,
                      NEW n \in To(u, c) \ crossed', InFlight(n)
               PROVE  ReadBy(u, c)' = {} /\ receipt[n] # "read"
                      /\ lastReadAt[c][u] < stamp[n]
    BY <1>2, <1>4 DEF UnreadInFlight
  <2>1. ReadBy(u, c) = {} /\ receipt[n] # "read" /\ lastReadAt[c][u] < stamp[n]
    BY <1>2 DEF UnreadInFlight
  <2> QED BY <1>4, <2>1
<1>8. ReadLater'
  <2> SUFFICES ASSUME NEW u \in Talkers, NEW c \in Conversations,
                      NEW n \in Vouched(u, c)', NEW q \in ReadBy(u, c)'
               PROVE  /\ stamp[n] <= now'[q]
                      /\ reading'[q].step = "receipts" => stamp[n] <= lastReadAt[c][u]
    BY <1>2 DEF ReadLater
  <2>1. n \in To(u, c) /\ q \in ReadBy(u, c)
    <3>1. n \in To(u, c)'
      BY DEF Vouched
    <3> QED BY <1>4, <3>1
  <2>2. n \in Vouched(u, c)
    <3>1. CASE n \notin crossed'
      BY <1>2, <2>1, <3>1 DEF Vouched
    <3>2. ASSUME NEW p \in ReadBy(u, c)', n \in settled'[p]
          PROVE  n \in Vouched(u, c)
      <4>1. p \in ReadBy(u, c) /\ n \in settled[p]
        BY <1>4, <3>2
      <4> QED BY <2>1, <4>1 DEF Vouched
    <3> QED BY <3>1, <3>2 DEF Vouched
  <2> QED BY <1>4, <2>1, <2>2 DEF ReadLater
<1>9. Agree'
  <2> SUFFICES ASSUME NEW u \in Talkers, NEW c \in Conversations,
                      \A q \in ReadBy(u, c)' : reading'[q].step = "member",
                      NEW n \in To(u, c) \ crossed', receipt[n] # "none"
               PROVE  receipt[n] = "read" <=> stamp[n] <= lastReadAt[c][u]
    BY <1>2, <1>4 DEF Agree
  <2>1. \A q \in ReadBy(u, c) : reading[q].step = "member"
    <3>1. k \in ReadBy(u, c) => reading[k].step = "member"
      BY <1>1, <1>2, <1>3
    <3> QED BY <1>4, <3>1
  <2> QED BY <1>2, <2>1 DEF Agree
<1> QED BY <1>5, <1>6, <1>7, <1>8, <1>9

(* Every step. *)
LEMMA BadgeNext ==
    ASSUME ChatTypes, BadgeInv, [ChatNext]_chatVars
    PROVE  BadgeInv'
<1>0. ChatTypes'
  BY ChatTypesNext
<1>1. CASE UNCHANGED <<chatClock, crossed, messageVars, readingVars>>
  BY <1>1 DEF messageVars, readingVars, BadgeInv, ClockAhead, Unsent, SettledDone,
              UnreadInFlight, ReadLater, Agree, Vouched, To, ReadBy, InFlight
<1> QED
  BY <1>0, <1>1, BadgeSending, BadgeStore, BadgeReadNow, BadgeReadMember,
     BadgeReadReceipts, BadgeReadFails
     DEF ChatNext, FindDirect, CreateDirect, chatVars, messageVars, readingVars

(* The badge and the receipts agree on what is read, but for messages that *)
(* were on their way while their reader read or that a reading left        *)
(* halfway, until a later one has mended them.                             *)
THEOREM BadgeAgrees == ChatSpec => []BadgeMatchesReceipts
<1>1. ChatTypes /\ BadgeInv => BadgeMatchesReceipts
  <2> SUFFICES ASSUME ChatTypes, BadgeInv, NEW m \in Messages \ crossed,
                      receipt[m] # "none", ReadBy(Reader(m), within[m]) = {}
               PROVE  receipt[m] = "read" <=>
                          stamp[m] <= lastReadAt[within[m]][Reader(m)]
    BY DEF BadgeMatchesReceipts
  <2>1. sent[m] # "no" /\ within[m] \in Conversations /\ sender[m] \in Talkers
    BY DEF BadgeInv, Unsent, ChatTypes
  <2>2. Reader(m) \in Talkers /\ m \in To(Reader(m), within[m])
    BY <2>1, ReaderFacts DEF To
  <2> QED BY <2>1, <2>2 DEF BadgeInv, Agree
<1>2. ChatTypes /\ BadgeInv /\ [ChatNext]_chatVars => BadgeInv'
  BY BadgeNext
<1> QED BY <1>1, <1>2, ChatTypesInit, ChatTypesNext, BadgeInit, PTL DEF ChatSpec

-----------------------------------------------------------------------------
(* Push notifications. *)

(* What a sending has not reached yet is empty. *)
Untouched ==
    \A s \in Sendings :
        /\ phase[s] \in {"rest", "prefs", "devices"} =>
              queue[s] = <<>> /\ unknown[s] = {} /\ ~lost[s]
        /\ phase[s] \in {"rest", "prefs"} => eligible[s] = {}

(* Devices that are registered have an owner. *)
LEMMA OwnerFacts ==
    ASSUME PushTypes
    PROVE  Registered \subseteq Devices /\ owner \in [Registered -> Owners]
<1>1. PICK registered \in SUBSET Devices : owner \in [registered -> Owners]
  BY DEF PushTypes
<1> QED BY <1>1 DEF Registered

(* Tokens are deleted, and the others keep their owner. *)
LEMMA WithoutFacts ==
    ASSUME PushTypes, NEW tokens
    PROVE  /\ DOMAIN Without(tokens) = Registered \ tokens
           /\ \A d \in Registered \ tokens : Without(tokens)[d] = owner[d]
           /\ \E registered \in SUBSET Devices :
                 Without(tokens) \in [registered -> Owners]
<1>1. Registered \ tokens \in SUBSET Devices
  BY OwnerFacts
<1>2. Without(tokens) \in [Registered \ tokens -> Owners]
  BY OwnerFacts DEF Without
<1> QED BY <1>1, <1>2 DEF Without

(* The queue of a sending that has none. *)
LEMMA NoQueueFacts ==
    /\ <<>> \in Seq(Devices) /\ <<>> \in Seq(Tickets) /\ <<>> \in Seq(Owners)
    /\ Len(<<>>) = 0
  BY EmptySeq

(* Initially no device is registered. *)
LEMMA PushTypesInit == PushInit => PushTypes /\ Untouched
<1> SUFFICES ASSUME PushInit PROVE PushTypes /\ Untouched
  OBVIOUS
<1>1. owner \in [1..0 -> Owners] /\ 1..0 \in SUBSET Devices
  BY NoQueueFacts, LenProperties DEF PushInit
<1>2. \E registered \in SUBSET Devices : owner \in [registered -> Owners]
  BY <1>1
<1>3. Default \in Preferences
  BY DEF Default, Preferences
<1>4. \A s \in Sendings :
         /\ eligible[s] = {} /\ recipients[s] = {} /\ queue[s] = <<>> /\ unknown[s] = {}
         /\ given[s] = 0 /\ tickets[s] = <<>> /\ lost[s] = FALSE
  BY DEF PushInit
<1>5. \A s \in Sendings :
         /\ eligible[s] \subseteq recipients[s]
         /\ Len(tickets[s]) <= given[s] /\ given[s] <= Len(queue[s])
         /\ lost[s] \/ Len(tickets[s]) = given[s]
  BY <1>4, NoQueueFacts
<1>6. Untouched
  BY <1>4 DEF Untouched
<1>7. /\ pref \in [Owners -> Preferences] /\ known \subseteq Devices
      /\ phase \in [Sendings -> {"rest", "prefs", "devices", "chunks", "tickets"}]
      /\ category \in [Sendings -> Categories]
      /\ recipients \in [Sendings -> SUBSET Owners]
      /\ eligible \in [Sendings -> SUBSET Owners]
      /\ queue \in [Sendings -> Seq(Devices)]
      /\ given \in [Sendings -> Nat]
      /\ tickets \in [Sendings -> Seq(Tickets)]
      /\ lost \in [Sendings -> BOOLEAN]
      /\ unknown \in [Sendings -> SUBSET Devices]
      /\ moved \in [Sendings -> SUBSET Devices]
  BY <1>3, NoQueueFacts DEF PushInit, Categories
<1> QED BY <1>2, <1>5, <1>6, <1>7 DEF PushTypes

(* The end of a sending, whichever tokens it deletes. *)
LEMMA EndsTypes ==
    ASSUME PushTypes, Untouched, NEW s \in Sendings, NEW gone \in SUBSET Devices,
           Ends(s, gone), UNCHANGED <<pref, known>>
    PROVE  PushTypes' /\ Untouched'
<1>1. \E registered \in SUBSET Devices : owner' \in [registered -> Owners]
  BY WithoutFacts DEF Ends
<1>2. moved' \in [Sendings -> SUBSET Devices]
  BY DEF Ends, PushTypes
<1>3. \A q \in Sendings \ {s} :
         /\ phase'[q] = phase[q] /\ eligible'[q] = eligible[q]
         /\ recipients'[q] = recipients[q] /\ queue'[q] = queue[q]
         /\ given'[q] = given[q] /\ tickets'[q] = tickets[q]
         /\ lost'[q] = lost[q] /\ unknown'[q] = unknown[q]
  BY DEF Ends, PushTypes
<1>4. /\ phase'[s] = "rest" /\ eligible'[s] = {} /\ recipients'[s] = {}
      /\ queue'[s] = <<>> /\ given'[s] = 0 /\ tickets'[s] = <<>>
      /\ lost'[s] = FALSE /\ unknown'[s] = {}
  BY DEF Ends, PushTypes
<1>5. /\ phase' \in [Sendings -> {"rest", "prefs", "devices", "chunks", "tickets"}]
      /\ category' \in [Sendings -> Categories]
      /\ recipients' \in [Sendings -> SUBSET Owners]
      /\ eligible' \in [Sendings -> SUBSET Owners]
      /\ queue' \in [Sendings -> Seq(Devices)]
      /\ given' \in [Sendings -> Nat]
      /\ tickets' \in [Sendings -> Seq(Tickets)]
      /\ lost' \in [Sendings -> BOOLEAN]
      /\ unknown' \in [Sendings -> SUBSET Devices]
  BY NoQueueFacts DEF Ends, PushTypes, Categories
<1>6. \A q \in Sendings :
         /\ eligible'[q] \subseteq recipients'[q]
         /\ Len(tickets'[q]) <= given'[q] /\ given'[q] <= Len(queue'[q])
         /\ lost'[q] \/ Len(tickets'[q]) = given'[q]
  BY <1>3, <1>4, NoQueueFacts DEF PushTypes
<1>7. Untouched'
  BY <1>3, <1>4 DEF Untouched
<1> QED BY <1>1, <1>2, <1>5, <1>6, <1>7 DEF PushTypes

(* Users and their applications, while the sendings stay as they are. *)
LEMMA UsersTypes ==
    ASSUME PushTypes, Untouched, UNCHANGED sendingVars,
           \/ \E u \in Owners, p \in Choices : UpdatePreference(u, p)
           \/ \E u \in Owners, d \in Devices : RegisterDevice(u, d) \/ RemoveDevice(u, d)
           \/ \E d \in Devices : Install(d)
    PROVE  PushTypes' /\ Untouched'
<1>1. ASSUME pref' \in [Owners -> Preferences], known' \subseteq Devices,
             \E registered \in SUBSET Devices : owner' \in [registered -> Owners],
             moved' \in [Sendings -> SUBSET Devices]
      PROVE  PushTypes' /\ Untouched'
  BY <1>1 DEF PushTypes, Untouched, sendingVars
<1>2. ASSUME NEW d \in Devices, Moves(d) PROVE moved' \in [Sendings -> SUBSET Devices]
  BY <1>2 DEF Moves, PushTypes
<1>3. ASSUME NEW u \in Owners, NEW p \in Choices, UpdatePreference(u, p)
      PROVE  PushTypes' /\ Untouched'
  <2>1. pref' \in [Owners -> Preferences]
    BY <1>3, SomeChoices DEF UpdatePreference, PushTypes
  <2> QED BY <1>1, <1>3, <2>1 DEF UpdatePreference, PushTypes
<1>4. ASSUME NEW u \in Owners, NEW d \in Devices, RegisterDevice(u, d)
      PROVE  PushTypes' /\ Untouched'
  <2>1. owner' \in [Registered \cup {d} -> Owners]
    BY <1>4, OwnerFacts DEF RegisterDevice
  <2>2. Registered \cup {d} \in SUBSET Devices
    BY OwnerFacts
  <2> QED BY <1>1, <1>2, <1>4, <2>1, <2>2 DEF RegisterDevice, PushTypes
<1>5. ASSUME NEW u \in Owners, NEW d \in Devices, RemoveDevice(u, d)
      PROVE  PushTypes' /\ Untouched'
  BY <1>1, <1>2, <1>5, WithoutFacts DEF RemoveDevice, PushTypes
<1>6. ASSUME NEW d \in Devices, Install(d)
      PROVE  PushTypes' /\ Untouched'
  BY <1>1, <1>6 DEF Install, PushTypes
<1> QED BY <1>3, <1>4, <1>5, <1>6

(* The sequences in which the devices of a set can be found. *)
LEMMA OrdersFacts ==
    ASSUME NEW tokens \in SUBSET Devices, NEW q \in Orders(tokens)
    PROVE  /\ q \in Seq(Devices)
           /\ \A i \in 1..Len(q) : q[i] \in tokens
<1>1. Cardinality(tokens) \in Nat
  BY FewDevices, FS_Subset, FS_CardinalityType
<1>2. q \in [1..Cardinality(tokens) -> tokens]
  BY DEF Orders
<1>3. q \in [1..Cardinality(tokens) -> Devices]
  BY <1>2
<1>4. q \in Seq(Devices)
  BY <1>1, <1>3, SeqDef
<1>5. DOMAIN q = 1..Len(q)
  BY <1>4, LenProperties
<1> QED BY <1>2, <1>4, <1>5

(* A sending begins, reads the preferences and then the devices. *)
LEMMA FindTypes ==
    ASSUME PushTypes, Untouched, NEW s \in Sendings,
           \/ \E users \in SUBSET Owners, about \in Categories :
                 SendToUsers(s, users, about)
           \/ \E cur \in Minute : FilterEligible(s, cur)
           \/ FindDevices(s)
    PROVE  PushTypes' /\ Untouched'
<1>1. ASSUME NEW users \in SUBSET Owners, NEW about \in Categories,
             SendToUsers(s, users, about)
      PROVE  PushTypes' /\ Untouched'
  <2>1. /\ phase' \in [Sendings -> {"rest", "prefs", "devices", "chunks", "tickets"}]
        /\ category' \in [Sendings -> Categories]
        /\ recipients' \in [Sendings -> SUBSET Owners]
    BY <1>1 DEF SendToUsers, PushTypes
  <2>2. \A q \in Sendings : eligible'[q] \subseteq recipients'[q]
    BY <1>1 DEF SendToUsers, PushTypes, Untouched
  <2>3. Untouched'
    BY <1>1 DEF SendToUsers, PushTypes, Untouched
  <2> QED BY <1>1, <2>1, <2>2, <2>3 DEF SendToUsers, PushTypes
<1>2. ASSUME NEW cur \in Minute, FilterEligible(s, cur)
      PROVE  PushTypes' /\ Untouched'
  <2> DEFINE allowing == {u \in recipients[s] : Allows(u, category[s], cur)}
  <2>1. CASE allowing = {}
    BY <1>2, <2>1, EndsTypes DEF FilterEligible
  <2>2. CASE allowing # {}
    <3>1. /\ phase[s] = "prefs"
          /\ eligible' = [eligible EXCEPT ![s] = allowing]
          /\ phase' = [phase EXCEPT ![s] = "devices"]
          /\ category' = [category EXCEPT ![s] = "chatMessages"]
          /\ UNCHANGED <<pref, known, recipients, queue, given, tickets, lost, unknown,
                         moved, owner>>
      BY <1>2, <2>2 DEF FilterEligible
    <3>2. allowing \subseteq recipients[s] /\ allowing \in SUBSET Owners
      BY DEF PushTypes
    <3> HIDE DEF allowing
    <3>3. /\ phase' \in [Sendings -> {"rest", "prefs", "devices", "chunks", "tickets"}]
          /\ category' \in [Sendings -> Categories]
          /\ eligible' \in [Sendings -> SUBSET Owners]
          /\ \A q \in Sendings : eligible'[q] \subseteq recipients'[q]
      BY <3>1, <3>2 DEF PushTypes, Categories
    <3>4. Untouched'
      BY <3>1 DEF Untouched, PushTypes
    <3> QED BY <3>1, <3>3, <3>4 DEF PushTypes
  <2> QED BY <2>1, <2>2
<1>3. CASE FindDevices(s)
  <2> DEFINE theirs == {d \in Registered : owner[d] \in eligible[s]}
  <2>1. CASE theirs = {}
    BY <1>3, <2>1, EndsTypes DEF FindDevices
  <2>2. CASE theirs # {}
    <3>1. PICK q \in Orders(theirs) : queue' = [queue EXCEPT ![s] = q]
      BY <1>3, <2>2 DEF FindDevices
    <3>2. /\ phase[s] = "devices"
          /\ phase' = [phase EXCEPT ![s] = "chunks"]
          /\ moved' = [moved EXCEPT ![s] = {}]
          /\ UNCHANGED <<pref, known, category, recipients, eligible, given, tickets,
                         lost, unknown, owner>>
      BY <1>3, <2>2 DEF FindDevices
    <3>3. q \in Seq(Devices)
      BY OwnerFacts, OrdersFacts
    <3>4. Len(q) \in Nat
      BY <3>3, LenProperties
    <3> HIDE DEF theirs
    <3>5. /\ phase' \in [Sendings -> {"rest", "prefs", "devices", "chunks", "tickets"}]
          /\ queue' \in [Sendings -> Seq(Devices)]
          /\ moved' \in [Sendings -> SUBSET Devices]
      BY <3>1, <3>2, <3>3 DEF PushTypes
    <3>6. given[s] = 0
      BY <3>2, NoQueueFacts DEF Untouched, PushTypes
    <3>7. \A r \in Sendings : given'[r] <= Len(queue'[r])
      BY <3>1, <3>2, <3>4, <3>6 DEF PushTypes
    <3>8. Untouched'
      BY <3>1, <3>2 DEF Untouched, PushTypes
    <3> QED BY <3>2, <3>5, <3>7, <3>8 DEF PushTypes
  <2> QED BY <2>1, <2>2
<1> QED BY <1>1, <1>2, <1>3

(* The next chunk. *)
LEMMA ChunkFacts ==
    ASSUME PushTypes, NEW s \in Sendings
    PROVE  /\ Upto(s) \in Nat /\ given[s] <= Upto(s) /\ Upto(s) <= Len(queue[s])
           /\ Len(queue[s]) \in Nat
           /\ Chunk(s) \in Seq(Devices)
           /\ DOMAIN Chunk(s) = 1..Len(Chunk(s))
           /\ Len(Chunk(s)) = Upto(s) - given[s]
           /\ \A i \in 1..Len(Chunk(s)) : Chunk(s)[i] = queue[s][given[s] + i]
<1>1. queue[s] \in Seq(Devices) /\ given[s] \in Nat /\ given[s] <= Len(queue[s])
  BY DEF PushTypes
<1>2. Len(queue[s]) \in Nat
  BY <1>1, LenProperties
<1>3. Upto(s) \in Nat /\ given[s] <= Upto(s) /\ Upto(s) <= Len(queue[s])
  BY <1>1, <1>2, SomeRoom DEF Upto
<1>4. \A i \in given[s] + 1 .. Upto(s) : queue[s][i] \in Devices
  BY <1>1, <1>2, <1>3, ElementOfSeq
<1>5. /\ Chunk(s) \in Seq(Devices)
      /\ Len(Chunk(s)) = IF given[s] + 1 <= Upto(s) THEN Upto(s) - (given[s] + 1) + 1 ELSE 0
      /\ \A i \in 1 .. Upto(s) - (given[s] + 1) + 1 :
            Chunk(s)[i] = queue[s][(given[s] + 1) + i - 1]
  <2>1. given[s] + 1 \in Int /\ Upto(s) \in Int
    BY <1>1, <1>3
  <2> QED BY <1>4, <2>1, SubSeqProperties DEF Chunk
<1>6. Len(Chunk(s)) = Upto(s) - given[s]
  BY <1>1, <1>3, <1>5
<1>7. \A i \in 1..Len(Chunk(s)) : Chunk(s)[i] = queue[s][given[s] + i]
  <2> SUFFICES ASSUME NEW i \in 1..Len(Chunk(s))
               PROVE  Chunk(s)[i] = queue[s][given[s] + i]
    OBVIOUS
  <2>1. i \in 1 .. Upto(s) - (given[s] + 1) + 1
    BY <1>1, <1>3, <1>6
  <2>2. (given[s] + 1) + i - 1 = given[s] + i
    BY <1>1, <1>3, <1>6
  <2> QED BY <1>5, <2>1, <2>2
<1>8. DOMAIN Chunk(s) = 1..Len(Chunk(s))
  BY <1>5, LenProperties
<1> QED BY <1>2, <1>3, <1>5, <1>6, <1>7, <1>8

(* What Expo answers to it: the tickets come after those that there were. *)
LEMMA AnswerFacts ==
    ASSUME PushTypes, NEW s \in Sendings, NEW a \in Answers(Chunk(s))
    PROVE  /\ tickets[s] \o a \in Seq(Tickets)
           /\ Len(tickets[s]) \in Nat
           /\ Len(tickets[s] \o a) = Len(tickets[s]) + Upto(s) - given[s]
           /\ \A i \in 1..Len(tickets[s]) : (tickets[s] \o a)[i] = tickets[s][i]
           /\ \A i \in 1..Len(Chunk(s)) : (tickets[s] \o a)[Len(tickets[s]) + i] = a[i]
<1>1. Len(Chunk(s)) \in Nat /\ Len(Chunk(s)) = Upto(s) - given[s]
  BY ChunkFacts DEF PushTypes
<1>2. a \in [1..Len(Chunk(s)) -> Tickets]
  BY DEF Answers
<1>3. a \in Seq(Tickets)
  BY <1>1, <1>2, SeqDef
<1>4. 1..Len(a) = 1..Len(Chunk(s)) /\ Len(a) \in Nat
  BY <1>2, <1>3, LenProperties
<1>5. Len(a) = Len(Chunk(s))
  BY <1>1, <1>4
<1>6. tickets[s] \in Seq(Tickets) /\ Len(tickets[s]) \in Nat
  BY LenProperties DEF PushTypes
<1>7. /\ tickets[s] \o a \in Seq(Tickets)
      /\ Len(tickets[s] \o a) = Len(tickets[s]) + Len(a)
      /\ \A i \in 1 .. Len(tickets[s]) + Len(a) :
            (tickets[s] \o a)[i] = IF i <= Len(tickets[s]) THEN tickets[s][i]
                                   ELSE a[i - Len(tickets[s])]
  BY <1>3, <1>6, ConcatProperties
<1>8. \A i \in 1..Len(tickets[s]) : (tickets[s] \o a)[i] = tickets[s][i]
  BY <1>4, <1>6, <1>7
<1>9. \A i \in 1..Len(Chunk(s)) : (tickets[s] \o a)[Len(tickets[s]) + i] = a[i]
  <2> SUFFICES ASSUME NEW i \in 1..Len(Chunk(s))
               PROVE  (tickets[s] \o a)[Len(tickets[s]) + i] = a[i]
    OBVIOUS
  <2>1. /\ Len(tickets[s]) + i \in 1 .. Len(tickets[s]) + Len(a)
        /\ ~(Len(tickets[s]) + i <= Len(tickets[s]))
        /\ Len(tickets[s]) + i - Len(tickets[s]) = i
    BY <1>1, <1>5, <1>6
  <2> QED BY <1>7, <2>1
<1>10. Len(tickets[s] \o a) = Len(tickets[s]) + Upto(s) - given[s]
  BY <1>1, <1>5, <1>6, <1>7, ChunkFacts DEF PushTypes
<1> QED BY <1>6, <1>7, <1>8, <1>9, <1>10

(* A chunk is given to Expo, whether or not that fails. *)
LEMMA GivesTypes ==
    ASSUME PushTypes, Untouched, NEW s \in Sendings, Gives(s), UNCHANGED queue
    PROVE  /\ phase' \in [Sendings -> {"rest", "prefs", "devices", "chunks", "tickets"}]
           /\ \A q \in Sendings : phase'[q] # phase[q] => phase'[q] = "tickets"
           /\ phase[s] = "chunks" /\ phase'[s] \in {"chunks", "tickets"}
           /\ given' \in [Sendings -> Nat] /\ given'[s] = Upto(s)
           /\ \A q \in Sendings \ {s} : given'[q] = given[q] /\ phase'[q] = phase[q]
           /\ \A q \in Sendings : given'[q] <= Len(queue'[q])
<1>1. given' = [given EXCEPT ![s] = Upto(s)]
  BY DEF Gives
<1>2. \A q \in Sendings : given'[q] <= Len(queue'[q])
  BY <1>1, ChunkFacts DEF PushTypes
<1>3. given' \in [Sendings -> Nat]
  BY <1>1, ChunkFacts DEF PushTypes
<1> QED BY <1>1, <1>2, <1>3 DEF Gives, PushTypes

(* A chunk and its tickets, or its failure. *)
LEMMA ChunkTypes ==
    ASSUME PushTypes, Untouched, NEW s \in Sendings, SendChunk(s) \/ ChunkFails(s)
    PROVE  PushTypes' /\ Untouched'
<1>1. CASE SendChunk(s)
  <2>1. PICK a \in Answers(Chunk(s)) : tickets' = [tickets EXCEPT ![s] = @ \o a]
    BY <1>1 DEF SendChunk
  <2>2. tickets'[s] = tickets[s] \o a /\ \A q \in Sendings \ {s} : tickets'[q] = tickets[q]
    BY <2>1 DEF PushTypes
  <2>3. tickets' \in [Sendings -> Seq(Tickets)]
    BY <2>1, AnswerFacts DEF PushTypes
  <2>4. /\ unknown' \in [Sendings -> SUBSET Devices]
        /\ \A q \in Sendings \ {s} : unknown'[q] = unknown[q]
    BY <1>1 DEF SendChunk, PushTypes
  <2>5. Gives(s) /\ UNCHANGED queue
    BY <1>1 DEF SendChunk
  <2>6. /\ Len(tickets'[s]) <= given'[s]
        /\ lost[s] \/ Len(tickets'[s]) = given'[s]
    BY <2>2, <2>5, AnswerFacts, GivesTypes, ChunkFacts DEF PushTypes
  <2>7. \A q \in Sendings :
           /\ Len(tickets'[q]) <= given'[q]
           /\ lost[q] \/ Len(tickets'[q]) = given'[q]
    <3> TAKE q \in Sendings
    <3>1. CASE q = s
      BY <2>6, <3>1
    <3>2. CASE q # s
      BY <2>2, <2>5, <3>2, GivesTypes DEF PushTypes
    <3> QED BY <3>1, <3>2
  <2>8. Untouched'
    BY <1>1, <2>4, <2>5, GivesTypes DEF SendChunk, Untouched
  <2> QED BY <1>1, <2>3, <2>4, <2>5, <2>7, <2>8, GivesTypes DEF SendChunk, PushTypes
<1>2. CASE ChunkFails(s)
  <2>1. Gives(s) /\ UNCHANGED queue
    BY <1>2 DEF ChunkFails
  <2>2. /\ lost' \in [Sendings -> BOOLEAN] /\ lost'[s] = TRUE
        /\ \A q \in Sendings \ {s} : lost'[q] = lost[q]
    BY <1>2 DEF ChunkFails, PushTypes
  <2>3. \A q \in Sendings : Len(tickets[q]) \in Nat
    BY LenProperties DEF PushTypes
  <2>4. \A q \in Sendings :
           /\ Len(tickets[q]) <= given'[q]
           /\ lost'[q] \/ Len(tickets[q]) = given'[q]
    <3> TAKE q \in Sendings
    <3>1. CASE q = s
      <4>1. /\ Len(tickets[s]) <= given[s] /\ given[s] <= Upto(s) /\ given'[s] = Upto(s)
            /\ given[s] \in Nat /\ Upto(s) \in Nat /\ lost'[s] = TRUE
        BY <2>1, <2>2, GivesTypes, ChunkFacts DEF PushTypes
      <4> QED BY <2>3, <3>1, <4>1
    <3>2. CASE q # s
      BY <2>1, <2>2, <3>2, GivesTypes DEF PushTypes
    <3> QED BY <3>1, <3>2
  <2>5. Untouched'
    BY <1>2, <2>1, <2>2, GivesTypes DEF ChunkFails, Untouched
  <2> QED BY <1>2, <2>1, <2>2, <2>4, <2>5, GivesTypes DEF ChunkFails, PushTypes
<1> QED BY <1>1, <1>2

(* What is deleted are devices the sending went to. *)
LEMMA DeadFacts ==
    ASSUME PushTypes, NEW s \in Sendings
    PROVE  Dead(s) \in SUBSET Devices
<1>1. /\ Len(tickets[s]) \in Nat /\ Len(queue[s]) \in Nat
      /\ queue[s] \in Seq(Devices)
  BY LenProperties DEF PushTypes
<1>2. \A i \in 1..Len(tickets[s]) : i \in 1..Len(queue[s])
  BY <1>1 DEF PushTypes
<1> QED BY <1>1, <1>2, ElementOfSeq DEF Dead

(* Every step. *)
LEMMA PushTypesNext == PushTypes /\ Untouched /\ [PushNext]_pushVars => PushTypes' /\ Untouched'
<1> SUFFICES ASSUME PushTypes, Untouched, [PushNext]_pushVars PROVE PushTypes' /\ Untouched'
  OBVIOUS
<1>1. ASSUME NEW s \in Sendings, HandleTickets(s) PROVE PushTypes' /\ Untouched'
  BY <1>1, DeadFacts, EndsTypes DEF HandleTickets
<1>2. ASSUME NEW s \in Sendings, SendingFails(s) PROVE PushTypes' /\ Untouched'
  BY <1>2, EndsTypes DEF SendingFails
<1>3. ASSUME \/ \E u \in Owners, p \in Choices : UpdatePreference(u, p)
             \/ \E u \in Owners, d \in Devices : RegisterDevice(u, d) \/ RemoveDevice(u, d)
             \/ \E d \in Devices : Install(d)
      PROVE  PushTypes' /\ Untouched'
  BY <1>3, UsersTypes DEF UpdatePreference, RegisterDevice, RemoveDevice, Install
<1>4. CASE UNCHANGED pushVars
  BY <1>4 DEF pushVars, PushTypes, Untouched
<1> QED BY <1>1, <1>2, <1>3, <1>4, FindTypes, ChunkTypes DEF PushNext

(* Every variable of the sendings has its type: there are never more       *)
(* tickets than messages given to Expo, nor fewer unless a chunk failed.   *)
THEOREM PushTyped == PushSpec => []PushTypes
<1>1. PushSpec => [](PushTypes /\ Untouched)
  BY PushTypesInit, PushTypesNext, PTL DEF PushSpec
<1> QED BY <1>1, PTL

(* The hours of rest, by arithmetic modulo the day. *)
LEMMA AroundTheClock ==
    ASSUME NEW x \in 0 .. 2 * Minutes - 1
    PROVE  x % Minutes = IF x < Minutes THEN x ELSE x - Minutes
  BY SomeMinutes

(* isWithinDnd computes the minutes around the clock. *)
LEMMA WindowFacts ==
    ASSUME NEW dnd \in {NoRest} \cup (Minute \X Minute), NEW cur \in Minute
    PROVE  WithinDnd(dnd, cur) <=> cur \in Window(dnd)
<1>1. CASE dnd = NoRest
  BY <1>1 DEF WithinDnd, Window
<1>2. CASE dnd # NoRest
  <2> DEFINE a == dnd[1]
             b == dnd[2]
             length == (b + Minutes - a) % Minutes
  <2>1. /\ a \in Nat /\ b \in Nat /\ cur \in Nat /\ Minutes \in Nat
        /\ a < Minutes /\ b < Minutes /\ cur < Minutes
    BY <1>2, SomeMinutes DEF Minute
  <2>2. WithinDnd(dnd, cur) <=> IF a <= b THEN cur >= a /\ cur < b ELSE cur >= a \/ cur < b
    BY <1>2 DEF WithinDnd
  <2>3. cur \in Window(dnd) <=> \E k \in 0 .. length - 1 : cur = (a + k) % Minutes
    BY <1>2 DEF Window
  <2> HIDE DEF a, b
  <2>4. length = IF a <= b THEN b - a ELSE b + Minutes - a
    <3>1. b + Minutes - a \in 0 .. 2 * Minutes - 1
      BY <2>1
    <3> QED BY <2>1, <3>1, AroundTheClock
  <2> HIDE DEF length
  <2>5. ASSUME NEW k \in 0 .. length - 1
        PROVE  (a + k) % Minutes = IF a + k < Minutes THEN a + k ELSE a + k - Minutes
    <3>1. a + k \in 0 .. 2 * Minutes - 1
      BY <2>1, <2>4
    <3> QED BY <2>1, <2>4, <3>1, AroundTheClock
  <2>6. ASSUME NEW k \in 0 .. length - 1, cur = (a + k) % Minutes
        PROVE  IF a <= b THEN cur >= a /\ cur < b ELSE cur >= a \/ cur < b
    BY <2>1, <2>4, <2>5, <2>6
  <2>7. ASSUME IF a <= b THEN cur >= a /\ cur < b ELSE cur >= a \/ cur < b
        PROVE  \E k \in 0 .. length - 1 : cur = (a + k) % Minutes
    <3>1. CASE cur >= a
      <4>1. cur - a \in 0 .. length - 1 /\ a + (cur - a) = cur
        BY <2>1, <2>4, <2>7, <3>1
      <4> QED BY <2>1, <2>5, <4>1
    <3>2. CASE cur < a
      <4>1. /\ cur + Minutes - a \in 0 .. length - 1
            /\ a + (cur + Minutes - a) = cur + Minutes
        BY <2>1, <2>4, <2>7, <3>2
      <4>2. (a + (cur + Minutes - a)) % Minutes = cur
        BY <2>1, <2>5, <4>1
      <4> QED BY <4>1, <4>2
    <3> QED BY <2>1, <3>1, <3>2
  <2> QED BY <2>2, <2>3, <2>6, <2>7
<1> QED BY <1>1, <1>2

(* Hence the hours of rest of a user are those minutes. *)
LEMMA QuietFacts == PushTypes => QuietHours
<1> SUFFICES ASSUME PushTypes, NEW u \in Owners, NEW cur \in Minute
             PROVE  /\ Allows(u, "criticalAlerts", cur) <=>
                          "criticalAlerts" \in pref[u].wanted
                    /\ \A about \in Categories \ {"criticalAlerts"} :
                          Allows(u, about, cur) <=>
                             about \in pref[u].wanted /\ cur \notin Window(pref[u].dnd)
  BY DEF QuietHours
<1>1. pref[u] \in Preferences
  BY DEF PushTypes
<1>2. pref[u].dnd \in {NoRest} \cup (Minute \X Minute)
  BY <1>1 DEF Preferences
<1>3. WithinDnd(pref[u].dnd, cur) <=> cur \in Window(pref[u].dnd)
  BY <1>2, WindowFacts
<1>4. Allows(u, "criticalAlerts", cur) <=> "criticalAlerts" \in pref[u].wanted
  BY DEF Allows
<1>5. \A about \in Categories \ {"criticalAlerts"} :
         Allows(u, about, cur) <=>
            about \in pref[u].wanted /\ ~WithinDnd(pref[u].dnd, cur)
  BY DEF Allows
<1> QED BY <1>3, <1>4, <1>5

(* A message goes to a device of somebody who was found to allow it, or to *)
(* one that has changed hands since: those that were sent already too, so  *)
(* that an owner who takes a device over later is covered as well.         *)
Allowed(s, d) == d \in moved[s] \/ (d \in Registered /\ owner[d] \in eligible[s])
QueueAllowed == \A s \in Sendings : \A i \in 1..Len(queue[s]) : Allowed(s, queue[s][i])

(* A sending ends and deletes tokens of the others. *)
LEMMA AllowedEnds ==
    ASSUME PushTypes, Untouched, QueueAllowed, NEW s \in Sendings, NEW gone,
           Ends(s, gone)
    PROVE  QueueAllowed'
<1> SUFFICES ASSUME NEW q \in Sendings, NEW i \in 1..Len(queue'[q])
             PROVE  Allowed(q, queue[q][i])'
  BY DEF QueueAllowed
<1>1. CASE q = s
  BY <1>1, NoQueueFacts DEF Ends, PushTypes
<1>2. CASE q # s
  <2>1. queue'[q] = queue[q] /\ eligible'[q] = eligible[q]
    BY <1>2 DEF Ends, PushTypes
  <2>2. Allowed(q, queue[q][i])
    BY <2>1 DEF QueueAllowed
  <2>3. phase[q] # "rest"
    BY <2>1, NoQueueFacts DEF Untouched
  <2>4. moved'[q] = moved[q] \cup gone
    BY <1>2, <2>3 DEF Ends
  <2>5. DOMAIN owner' = Registered \ gone /\ \A d \in Registered \ gone : owner'[d] = owner[d]
    BY WithoutFacts DEF Ends
  <2> QED BY <2>1, <2>2, <2>4, <2>5 DEF Allowed, Registered
<1> QED BY <1>1, <1>2

(* Devices change hands while the sendings stay as they are. *)
LEMMA AllowedMoves ==
    ASSUME PushTypes, Untouched, QueueAllowed, NEW d \in Devices, Moves(d),
           UNCHANGED sendingVars,
           \A e \in Registered \ {d} : e \in DOMAIN owner' /\ owner'[e] = owner[e]
    PROVE  QueueAllowed'
<1> SUFFICES ASSUME NEW q \in Sendings, NEW i \in 1..Len(queue'[q])
             PROVE  Allowed(q, queue[q][i])'
  BY DEF QueueAllowed
<1>1. queue'[q] = queue[q] /\ eligible'[q] = eligible[q]
  BY DEF sendingVars
<1>2. Allowed(q, queue[q][i])
  BY <1>1 DEF QueueAllowed
<1>3. phase[q] # "rest"
  BY <1>1, NoQueueFacts DEF Untouched
<1>4. moved'[q] = moved[q] \cup {d}
  BY <1>3 DEF Moves
<1> QED BY <1>1, <1>2, <1>4 DEF Allowed, Registered

(* Every step. *)
LEMMA AllowedNext ==
    ASSUME PushTypes, Untouched, QueueAllowed, [PushNext]_pushVars
    PROVE  QueueAllowed'
<1>1. ASSUME UNCHANGED <<owner, eligible, queue, moved>> PROVE QueueAllowed'
  BY <1>1 DEF QueueAllowed, Allowed, Registered
<1>2. ASSUME NEW u \in Owners, NEW d \in Devices, RegisterDevice(u, d) PROVE QueueAllowed'
  BY <1>2, AllowedMoves DEF RegisterDevice
<1>3. ASSUME NEW u \in Owners, NEW d \in Devices, RemoveDevice(u, d) PROVE QueueAllowed'
  BY <1>3, WithoutFacts, AllowedMoves DEF RemoveDevice
<1>4. ASSUME NEW s \in Sendings, NEW cur \in Minute, FilterEligible(s, cur)
      PROVE  QueueAllowed'
  <2> DEFINE allowing == {u \in recipients[s] : Allows(u, category[s], cur)}
  <2>1. CASE allowing = {}
    BY <1>4, <2>1, AllowedEnds DEF FilterEligible
  <2>2. CASE allowing # {}
    <3>1. /\ phase[s] = "prefs" /\ UNCHANGED <<queue, owner, moved>>
          /\ \A q \in Sendings \ {s} : eligible'[q] = eligible[q]
      BY <1>4, <2>2 DEF FilterEligible, PushTypes
    <3>2. 1..Len(queue[s]) = {}
      BY <3>1, NoQueueFacts DEF Untouched
    <3> QED BY <3>1, <3>2 DEF QueueAllowed, Allowed, Registered
  <2> QED BY <2>1, <2>2
<1>5. ASSUME NEW s \in Sendings, FindDevices(s) PROVE QueueAllowed'
  <2> DEFINE theirs == {d \in Registered : owner[d] \in eligible[s]}
  <2>1. CASE theirs = {}
    BY <1>5, <2>1, AllowedEnds DEF FindDevices
  <2>2. CASE theirs # {}
    <3>1. PICK q \in Orders(theirs) : queue' = [queue EXCEPT ![s] = q]
      BY <1>5, <2>2 DEF FindDevices
    <3>2. moved' = [moved EXCEPT ![s] = {}] /\ UNCHANGED <<eligible, owner>>
      BY <1>5, <2>2 DEF FindDevices
    <3>3. \A i \in 1..Len(q) : q[i] \in theirs
      BY OwnerFacts, OrdersFacts
    <3>4. queue'[s] = q /\ \A r \in Sendings \ {s} : queue'[r] = queue[r] /\ moved'[r] = moved[r]
      BY <3>1, <3>2 DEF PushTypes
    <3>5. \A i \in 1..Len(queue'[s]) : Allowed(s, queue[s][i])'
      BY <3>2, <3>3, <3>4 DEF Allowed, Registered
    <3>6. \A r \in Sendings \ {s} : \A i \in 1..Len(queue'[r]) : Allowed(r, queue[r][i])'
      BY <3>2, <3>4 DEF QueueAllowed, Allowed, Registered
    <3> QED BY <3>5, <3>6 DEF QueueAllowed
  <2> QED BY <2>1, <2>2
<1>6. ASSUME NEW s \in Sendings, HandleTickets(s) \/ SendingFails(s) PROVE QueueAllowed'
  BY <1>6, AllowedEnds DEF HandleTickets, SendingFails
<1> QED
  BY <1>1, <1>2, <1>3, <1>4, <1>5, <1>6
     DEF PushNext, pushVars, sendingVars, UpdatePreference, Install, SendToUsers,
         SendChunk, ChunkFails

(* A message goes only to a device whose owner, a recipient, was found to  *)
(* allow it, unless the device changed hands since. Nobody is found to     *)
(* allow a category that is switched off, nor any other than alerts in the *)
(* hours of rest, which go around the clock; critical alerts that are      *)
(* switched on come through in them.                                       *)
THEOREM MutedSpared == PushSpec => []MutedAreSpared
<1>1. PushInit => QueueAllowed
  BY NoQueueFacts DEF PushInit, QueueAllowed
<1>2. ASSUME PushTypes, QueueAllowed PROVE MutedAreSpared
  <2>1. ASSUME NEW s \in Sendings, NEW i \in given[s] + 1 .. Len(queue[s])
        PROVE  Allowed(s, queue[s][i])
    <3>1. Len(queue[s]) \in Nat /\ given[s] \in Nat
      BY <1>2, LenProperties DEF PushTypes
    <3>2. i \in 1..Len(queue[s])
      BY <3>1
    <3> QED BY <1>2, <3>2 DEF QueueAllowed
  <2>2. \A s \in Sendings : \A i \in given[s] + 1 .. Len(queue[s]) :
           queue[s][i] \notin moved[s] =>
              queue[s][i] \in Registered /\ owner[queue[s][i]] \in eligible[s]
    BY <2>1 DEF Allowed
  <2> QED BY <1>2, <2>2, QuietFacts DEF MutedAreSpared
<1> QED BY <1>1, <1>2, PushTypesInit, PushTypesNext, AllowedNext, PTL DEF PushSpec

(* As long as no chunk failed, the tokens whose tickets say that they are  *)
(* not registered are those that Expo did not know.                        *)
Matched == \A s \in Sendings : lost[s] \/ unknown[s] = Dead(s)

(* Without a ticket nothing is deleted. *)
LEMMA DeadOf ==
    ASSUME PushTypes, NEW s \in Sendings, tickets[s] = <<>>
    PROVE  Dead(s) = {}
  BY NoQueueFacts DEF Dead

(* A sending ends, and the others go on. *)
LEMMA MatchedEnds ==
    ASSUME PushTypes, Matched, NEW s \in Sendings, NEW gone, Ends(s, gone)
    PROVE  Matched'
<1>1. unknown'[s] = {} /\ tickets'[s] = <<>>
  BY DEF Ends, PushTypes
<1>2. Dead(s)' = {}
  BY <1>1, NoQueueFacts DEF Dead
<1>3. \A q \in Sendings \ {s} :
         /\ lost'[q] = lost[q] /\ unknown'[q] = unknown[q]
         /\ queue'[q] = queue[q] /\ tickets'[q] = tickets[q]
  BY DEF Ends, PushTypes
<1>4. \A q \in Sendings \ {s} : lost'[q] \/ unknown'[q] = Dead(q)'
  BY <1>3 DEF Matched, Dead
<1> QED BY <1>1, <1>2, <1>4 DEF Matched

(* The tickets of a chunk are those of its messages, one by one. *)
LEMMA MatchedChunk ==
    ASSUME PushTypes, Matched, NEW s \in Sendings, SendChunk(s), ~lost[s]
    PROVE  unknown'[s] = Dead(s)'
<1>1. PICK a \in Answers(Chunk(s)) : tickets' = [tickets EXCEPT ![s] = @ \o a]
  BY DEF SendChunk
<1> DEFINE before == Len(tickets[s])
           size == Len(Chunk(s))
           strange == {d \in Devices \ known : \E i \in DOMAIN Chunk(s) : d = Chunk(s)[i]}
<1>2. /\ tickets'[s] = tickets[s] \o a /\ queue'[s] = queue[s]
      /\ unknown'[s] = unknown[s] \cup strange
  BY <1>1 DEF SendChunk, PushTypes
<1>3. /\ before \in Nat /\ before = given[s] /\ Upto(s) \in Nat /\ before <= Upto(s)
      /\ size = Upto(s) - before
  BY ChunkFacts DEF PushTypes
<1>4. Len(tickets[s] \o a) = before + Upto(s) - before
  BY <1>3, AnswerFacts
<1>5. \A i \in 1..size : (tickets[s] \o a)[before + i] = a[i]
  BY AnswerFacts
<1>6. size \in Nat /\ Len(tickets'[s]) = before + size
  <2> HIDE DEF before, size
  <2> QED BY <1>2, <1>3, <1>4
<1>7. \A i \in 1..before : tickets'[s][i] = tickets[s][i]
  BY <1>2, AnswerFacts
<1>8. \A i \in 1..size : /\ tickets'[s][before + i] = a[i]
                         /\ queue[s][before + i] = Chunk(s)[i]
                         /\ Chunk(s)[i] \in Devices
                         /\ a[i] = "DeviceNotRegistered" <=> Chunk(s)[i] \notin known
  <2> TAKE i \in 1..size
  <2>1. tickets'[s][before + i] = a[i]
    BY <1>2, <1>5
  <2>2. queue[s][before + i] = Chunk(s)[i]
    BY <1>3, ChunkFacts
  <2>3. Chunk(s)[i] \in Devices
    BY ChunkFacts, ElementOfSeq
  <2>4. a[i] = "DeviceNotRegistered" <=> Chunk(s)[i] \notin known
    BY DEF Answers
  <2> QED BY <2>1, <2>2, <2>3, <2>4
<1>9. DOMAIN Chunk(s) = 1..size
  BY ChunkFacts
<1> HIDE DEF before, size
<1>10. ASSUME NEW d \in Dead(s)' PROVE d \in Dead(s) \cup strange
  <2>1. PICK i \in 1..(before + size) :
                tickets'[s][i] = "DeviceNotRegistered" /\ d = queue[s][i]
    BY <1>2, <1>6 DEF Dead
  <2>2. CASE i <= before
    <3>1. i \in 1..before
      BY <1>3, <2>1, <2>2
    <3>2. i \in 1..Len(tickets[s]) /\ tickets[s][i] = "DeviceNotRegistered"
      BY <1>7, <2>1, <3>1 DEF before
    <3> QED BY <2>1, <3>2 DEF Dead
  <2>3. CASE ~(i <= before)
    <3>1. before \in Nat /\ size \in Nat
      BY <1>3, <1>6
    <3>2. i - before \in 1..size /\ before + (i - before) = i
      BY <2>3, <3>1
    <3> QED BY <1>8, <1>9, <2>1, <3>2
  <2> QED BY <2>2, <2>3
<1>11. ASSUME NEW d \in Dead(s) PROVE d \in Dead(s)'
  <2>1. PICK i \in 1..before : tickets[s][i] = "DeviceNotRegistered" /\ d = queue[s][i]
    BY DEF Dead, before
  <2>2. i \in 1..Len(tickets'[s])
    BY <1>3, <1>6
  <2> QED BY <1>2, <1>7, <2>1, <2>2 DEF Dead
<1>12. ASSUME NEW d \in strange PROVE d \in Dead(s)'
  <2>1. PICK i \in 1..size : d = Chunk(s)[i]
    BY <1>9
  <2>2. before + i \in 1..Len(tickets'[s])
    <3>1. before \in Nat /\ size \in Nat
      BY <1>3, <1>6
    <3>2. before + i \in 1..(before + size)
      BY <3>1
    <3> QED BY <1>6, <3>2
  <2>3. tickets'[s][before + i] = "DeviceNotRegistered" /\ queue'[s][before + i] = d
    BY <1>2, <1>8, <2>1
  <2> QED BY <2>2, <2>3 DEF Dead
<1>13. unknown[s] = Dead(s)
  BY DEF Matched
<1> QED BY <1>2, <1>10, <1>11, <1>12, <1>13

(* Every step. *)
LEMMA MatchedNext ==
    ASSUME PushTypes, Untouched, Matched, [PushNext]_pushVars
    PROVE  Matched'
<1>1. ASSUME UNCHANGED <<queue, tickets, lost, unknown>> PROVE Matched'
  BY <1>1 DEF Matched, Dead
<1>2. ASSUME NEW s \in Sendings, NEW cur \in Minute, FilterEligible(s, cur) PROVE Matched'
  BY <1>1, <1>2, MatchedEnds DEF FilterEligible
<1>3. ASSUME NEW s \in Sendings, FindDevices(s) PROVE Matched'
  <2> DEFINE theirs == {d \in Registered : owner[d] \in eligible[s]}
  <2>1. CASE theirs = {}
    BY <1>3, <2>1, MatchedEnds DEF FindDevices
  <2>2. CASE theirs # {}
    <3>0. PICK q \in Orders(theirs) : queue' = [queue EXCEPT ![s] = q]
      BY <1>3, <2>2 DEF FindDevices
    <3>1. /\ phase[s] = "devices" /\ UNCHANGED <<tickets, lost, unknown>>
          /\ \A r \in Sendings \ {s} : queue'[r] = queue[r]
      <4>1. phase[s] = "devices" /\ UNCHANGED <<tickets, lost, unknown>>
        BY <1>3, <2>2 DEF FindDevices
      <4> QED BY <3>0, <4>1 DEF PushTypes
    <3>2. Len(tickets[s]) \in Nat /\ unknown[s] = {} /\ given[s] <= 0
      BY <3>1, NoQueueFacts, LenProperties DEF Untouched, PushTypes
    <3>3. 1..Len(tickets[s]) = {}
      BY <3>2 DEF PushTypes
    <3>4. Dead(s)' = {}
      BY <3>1, <3>3 DEF Dead
    <3>5. \A r \in Sendings \ {s} : Dead(r)' = Dead(r)
      BY <3>1 DEF Dead
    <3> QED BY <3>1, <3>2, <3>4, <3>5 DEF Matched
  <2> QED BY <2>1, <2>2
<1>4. ASSUME NEW s \in Sendings, SendChunk(s) PROVE Matched'
  <2>1. \A q \in Sendings \ {s} :
           /\ lost'[q] = lost[q] /\ unknown'[q] = unknown[q]
           /\ queue'[q] = queue[q] /\ tickets'[q] = tickets[q]
    BY <1>4 DEF SendChunk, PushTypes
  <2>2. \A q \in Sendings \ {s} : lost'[q] \/ unknown'[q] = Dead(q)'
    BY <2>1 DEF Matched, Dead
  <2>3. lost'[s] \/ unknown'[s] = Dead(s)'
    BY <1>4, MatchedChunk DEF SendChunk
  <2> QED BY <2>2, <2>3 DEF Matched
<1>5. ASSUME NEW s \in Sendings, ChunkFails(s) PROVE Matched'
  <2>1. /\ lost'[s] = TRUE /\ \A q \in Sendings \ {s} : lost'[q] = lost[q]
        /\ UNCHANGED <<unknown, queue, tickets>>
    BY <1>5 DEF ChunkFails, PushTypes
  <2> QED BY <2>1 DEF Matched, Dead
<1>6. ASSUME NEW s \in Sendings, HandleTickets(s) \/ SendingFails(s) PROVE Matched'
  BY <1>6, MatchedEnds DEF HandleTickets, SendingFails
<1> QED
  BY <1>1, <1>2, <1>3, <1>4, <1>5, <1>6
     DEF PushNext, pushVars, sendingVars, UpdatePreference, RegisterDevice, RemoveDevice,
         Install, SendToUsers

(* The tokens that a sending deletes are those that Expo did not know when *)
(* it was given them, unless a chunk of it failed: one ticket out of place *)
(* would delete the token of somebody else.                                *)
THEOREM TokensAreSpared == PushSpec => TokensSpared
<1>1. PushInit => Matched
  BY DeadOf, PushTypesInit DEF PushInit, Matched
<1>2. ASSUME PushTypes, Matched, NEW s \in Sendings, HandleTickets(s), ~lost[s]
      PROVE  Registered \ DOMAIN owner' = unknown[s] \cap Registered
  <2>1. DOMAIN owner' = Registered \ Dead(s)
    BY <1>2, WithoutFacts DEF HandleTickets, Ends
  <2> QED BY <1>2, <2>1 DEF Matched
<1>3. PushTypes /\ Matched =>
         \A s \in Sendings : HandleTickets(s) /\ ~lost[s] =>
              Registered \ DOMAIN owner' = unknown[s] \cap Registered
  BY <1>2
<1> QED
  BY <1>1, <1>3, PushTypesInit, PushTypesNext, MatchedNext, PTL
     DEF PushSpec, TokensSpared

-----------------------------------------------------------------------------
(* The radio history: first, the posts in order. *)
LEMMA BeforeOrders ==
    ASSUME HistoryTypes
    PROVE  /\ \A i \in Posts : ~Before(i, i)
           /\ \A i, j, k \in Posts : Before(i, j) /\ Before(j, k) => Before(i, k)
           /\ \A i, j \in Posts : i # j => Before(i, j) \/ Before(j, i)
           /\ \A i, j \in Posts : Before(i, j) => ~Before(j, i)
<1>1. /\ \A i \in Posts : created[i] \in Nat
      /\ \A i \in Posts : i \in Nat
  BY PostsNumbered, TimeBound, FS_CardinalityType DEF HistoryTypes
<1> QED BY <1>1 DEF Before

(* Of the sets of those that come before a post of S, one is the smallest. *)
LEMMA FirstExists ==
    ASSUME HistoryTypes, NEW S \in SUBSET Posts, S # {}
    PROVE  \E i \in S : \A j \in S \ {i} : Before(i, j)
<1> DEFINE Below(i) == {j \in S : Before(j, i)}
           Belows == {Below(i) : i \in S}
<1>1. IsFiniteSet(S)
  BY PostsNumbered, FS_Subset
<1>2. Belows \subseteq FiniteSubsetsOf(S) /\ Belows # {}
  <2>1. \A i \in S : Below(i) \in SUBSET S
    OBVIOUS
  <2>2. \A T \in SUBSET S : T \in FiniteSubsetsOf(S)
    BY <1>1, FS_Subset DEF FiniteSubsetsOf
  <2> HIDE DEF Below
  <2> QED BY <2>1, <2>2
<1>3. PICK x \in Belows : \A y \in Belows : <<y, x>> \notin StrictSubsetOrdering(S)
  <2> HIDE DEF Belows
  <2>1. IsWellFoundedOn(StrictSubsetOrdering(S), FiniteSubsetsOf(S))
    BY FS_StrictSubsetOrderingWellFounded
  <2> QED BY <1>2, <2>1, WFMin, Zenon
<1>4. PICK i \in S : x = Below(i)
  BY <1>3
<1>5. \A j \in S \ {i} : Before(i, j)
  <2> SUFFICES ASSUME NEW j \in S \ {i}, ~Before(i, j) PROVE FALSE
    OBVIOUS
  <2>1. Before(j, i) /\ ~Before(j, j)
    BY BeforeOrders
  <2>2. Below(j) \subseteq Below(i) /\ j \in Below(i) /\ j \notin Below(j)
    BY <2>1, BeforeOrders
  <2>3. <<Below(j), Below(i)>> \in StrictSubsetOrdering(S)
    BY <2>2 DEF StrictSubsetOrdering
  <2> QED BY <1>3, <1>4, <2>3
<1> QED BY <1>5

(* And of the sets of those that come after one. *)
LEMMA LastExists ==
    ASSUME HistoryTypes, NEW S \in SUBSET Posts, S # {}
    PROVE  \E i \in S : \A j \in S \ {i} : Before(j, i)
<1> DEFINE Above(i) == {j \in S : Before(i, j)}
           Aboves == {Above(i) : i \in S}
<1>1. IsFiniteSet(S)
  BY PostsNumbered, FS_Subset
<1>2. Aboves \subseteq FiniteSubsetsOf(S) /\ Aboves # {}
  <2>1. \A i \in S : Above(i) \in SUBSET S
    OBVIOUS
  <2>2. \A T \in SUBSET S : T \in FiniteSubsetsOf(S)
    BY <1>1, FS_Subset DEF FiniteSubsetsOf
  <2> HIDE DEF Above
  <2> QED BY <2>1, <2>2
<1>3. PICK x \in Aboves : \A y \in Aboves : <<y, x>> \notin StrictSubsetOrdering(S)
  <2> HIDE DEF Aboves
  <2>1. IsWellFoundedOn(StrictSubsetOrdering(S), FiniteSubsetsOf(S))
    BY FS_StrictSubsetOrderingWellFounded
  <2> QED BY <1>2, <2>1, WFMin, Zenon
<1>4. PICK i \in S : x = Above(i)
  BY <1>3
<1>5. \A j \in S \ {i} : Before(j, i)
  <2> SUFFICES ASSUME NEW j \in S \ {i}, ~Before(j, i) PROVE FALSE
    OBVIOUS
  <2>1. Before(i, j) /\ ~Before(j, j)
    BY BeforeOrders
  <2>2. Above(j) \subseteq Above(i) /\ j \in Above(i) /\ j \notin Above(j)
    BY <2>1, BeforeOrders
  <2>3. <<Above(j), Above(i)>> \in StrictSubsetOrdering(S)
    BY <2>2 DEF StrictSubsetOrdering
  <2> QED BY <1>3, <1>4, <2>3
<1> QED BY <1>5

(* Hence a page has a first and a last post. *)
LEMMA EndsOfPages ==
    ASSUME HistoryTypes, NEW S \in SUBSET Posts, S # {}
    PROVE  /\ First(S) \in S /\ \A j \in S \ {First(S)} : Before(First(S), j)
           /\ Last(S) \in S /\ \A j \in S \ {Last(S)} : Before(j, Last(S))
  BY FirstExists, LastExists DEF First, Last

(* A page of a set holds some of it, and nothing it leaves out comes       *)
(* between its posts: what it leaves out comes before the first of them,   *)
(* or after the last if the page is taken from the other end.              *)
LEMMA NewestFacts ==
    ASSUME HistoryTypes, NEW S \in SUBSET Posts, S # {}
    PROVE  /\ Newest(S) \subseteq S /\ Newest(S) # {}
           /\ \A i \in S \ Newest(S), p \in Newest(S) : Before(i, p)
<1>1. IsFiniteSet(S)
  BY PostsNumbered, FS_Subset
<1>2. Newest(S) # {}
  <2>1. {j \in S : Before(Last(S), j)} = {}
    BY EndsOfPages, BeforeOrders
  <2>2. Last(S) \in Newest(S)
    BY <2>1, EndsOfPages, FS_EmptySet, SomeTake DEF Newest
  <2> QED BY <2>2
<1>3. ASSUME NEW i \in S \ Newest(S), NEW p \in Newest(S), ~Before(i, p)
      PROVE  FALSE
  <2> DEFINE AboveI == {j \in S : Before(i, j)}
             AboveP == {j \in S : Before(p, j)}
  <2>1. p \in S /\ i \in S /\ p # i
    BY DEF Newest
  <2>2. Before(p, i)
    BY <1>3, <2>1, BeforeOrders
  <2>3. AboveI \subseteq AboveP
    BY <2>1, <2>2, BeforeOrders
  <2>4. IsFiniteSet(AboveP)
    BY <1>1, FS_Subset
  <2>5. /\ Cardinality(AboveI) <= Cardinality(AboveP)
        /\ Cardinality(AboveI) \in Nat /\ Cardinality(AboveP) \in Nat
    BY <2>3, <2>4, FS_Subset, FS_CardinalityType
  <2>6. Cardinality(AboveP) < Take /\ ~(Cardinality(AboveI) < Take)
    BY DEF Newest
  <2> QED BY <2>5, <2>6, SomeTake
<1> QED BY <1>2, <1>3 DEF Newest

(* The same from the other end. *)
LEMMA OldestFacts ==
    ASSUME HistoryTypes, NEW S \in SUBSET Posts, S # {}
    PROVE  /\ Oldest(S) \subseteq S /\ Oldest(S) # {}
           /\ \A i \in S \ Oldest(S), p \in Oldest(S) : Before(p, i)
<1>1. IsFiniteSet(S)
  BY PostsNumbered, FS_Subset
<1>2. Oldest(S) # {}
  <2>1. {j \in S : Before(j, First(S))} = {}
    BY EndsOfPages, BeforeOrders
  <2>2. First(S) \in Oldest(S)
    BY <2>1, EndsOfPages, FS_EmptySet, SomeTake DEF Oldest
  <2> QED BY <2>2
<1>3. ASSUME NEW i \in S \ Oldest(S), NEW p \in Oldest(S), ~Before(p, i)
      PROVE  FALSE
  <2> DEFINE BelowI == {j \in S : Before(j, i)}
             BelowP == {j \in S : Before(j, p)}
  <2>1. p \in S /\ i \in S /\ p # i
    BY DEF Oldest
  <2>2. Before(i, p)
    BY <1>3, <2>1, BeforeOrders
  <2>3. BelowI \subseteq BelowP
    BY <2>1, <2>2, BeforeOrders
  <2>4. IsFiniteSet(BelowP)
    BY <1>1, FS_Subset
  <2>5. /\ Cardinality(BelowI) <= Cardinality(BelowP)
        /\ Cardinality(BelowI) \in Nat /\ Cardinality(BelowP) \in Nat
    BY <2>3, <2>4, FS_Subset, FS_CardinalityType
  <2>6. Cardinality(BelowP) < Take /\ ~(Cardinality(BelowI) < Take)
    BY DEF Oldest
  <2> QED BY <2>5, <2>6, SomeTake
<1> QED BY <1>2, <1>3 DEF Oldest

(* The cursors that clients take from pages are posts of the table.        *)
LEMMA CursorFacts ==
    ASSUME HistoryTypes, NEW S \in SUBSET kept, S # {}
    PROVE  /\ Newest(S) \subseteq kept /\ Newest(S) # {} /\ First(Newest(S)) \in kept
           /\ Last(Newest(S)) \in kept
           /\ Oldest(S) \subseteq kept /\ Oldest(S) # {} /\ Last(Oldest(S)) \in kept
           /\ \A i \in S : i \in Newest(S) \/ Before(i, First(Newest(S)))
           /\ \A i \in S : i \in Oldest(S) \/ Before(Last(Oldest(S)), i)
<1>1. S \in SUBSET Posts
  BY DEF HistoryTypes
<1>2. /\ Newest(S) \subseteq S /\ Newest(S) # {}
      /\ Oldest(S) \subseteq S /\ Oldest(S) # {}
  BY <1>1, NewestFacts, OldestFacts
<1>3. /\ First(Newest(S)) \in Newest(S) /\ Last(Newest(S)) \in Newest(S)
      /\ Last(Oldest(S)) \in Oldest(S)
  BY <1>1, <1>2, EndsOfPages
<1> QED BY <1>1, <1>2, <1>3, NewestFacts, OldestFacts

-----------------------------------------------------------------------------
(* Initially nothing is posted. *)
LEMMA HistoryTypesInit == HistoryInit => HistoryTypes
<1>1. NewClient \in Clients
  BY DEF NewClient, Clients, Cursors, None
<1> QED BY <1>1, TimeBound DEF HistoryInit, HistoryTypes, NewClient

(* What clients do is nothing to the table, and leaves them with a cursor. *)
LEMMA ClientTypes ==
    ASSUME HistoryTypes,
           PagerStarts \/ PagerCursor \/ PagerPage \/ FollowerStarts \/ FollowerCursor
              \/ FollowerPage
    PROVE  /\ client' \in Clients /\ client'.has \subseteq posted
           /\ UNCHANGED <<time, kept, posted, created, files, purgeVars>>
<1>1. client \in Clients /\ client.has \subseteq posted /\ kept \subseteq Posts
      /\ kept \subseteq posted
  BY DEF HistoryTypes
<1>2. ASSUME NEW way \in {"back", "on"}, NEW step \in {"rest", "ask", "page", "done"},
             NEW cursor \in Cursors, NEW has \in SUBSET Posts, NEW owed \in SUBSET Posts
      PROVE  [way |-> way, step |-> step, cursor |-> cursor, has |-> has, owed |-> owed]
                \in Clients
  BY DEF Clients
<1>3. CASE PagerStarts
  <2>1. CASE kept = {}
    <3>1. Newest(kept) = {}
      BY <2>1 DEF Newest
    <3> QED BY <1>2, <1>3, <2>1, <3>1 DEF PagerStarts, Cursors, Clients
  <2>2. CASE kept # {}
    <3>1. Newest(kept) \subseteq kept /\ First(Newest(kept)) \in kept
      BY <2>2, CursorFacts
    <3>2. Newest(kept) \in SUBSET Posts /\ First(Newest(kept)) \in Cursors
      BY <1>1, <3>1 DEF Cursors
    <3> QED BY <1>1, <1>3, <2>2, <3>1, <3>2 DEF PagerStarts, Clients
  <2> QED BY <2>1, <2>2
<1>4. CASE PagerCursor
  BY <1>1, <1>4 DEF PagerCursor, Clients
<1>5. CASE PagerPage
  <2> DEFINE page == Newest(Older(client.cursor))
  <2>1. CASE page = {}
    BY <1>1, <1>5, <2>1 DEF PagerPage, Clients
  <2>2. CASE page # {}
    <3>1. Older(client.cursor) \subseteq kept /\ Older(client.cursor) # {}
      BY <2>2 DEF Older, Newest
    <3>2. page \subseteq kept /\ First(page) \in kept
      BY <3>1, CursorFacts
    <3>3. page \in SUBSET Posts /\ First(page) \in Cursors
      BY <1>1, <3>2 DEF Cursors
    <3>4. client' = [client EXCEPT !.step = "ask", !.cursor = First(page),
                                   !.has = @ \cup page]
      BY <1>5, <2>2 DEF PagerPage
    <3>5. UNCHANGED <<time, kept, posted, created, files, purgeVars>>
      BY <1>5 DEF PagerPage
    <3> HIDE DEF page
    <3> QED BY <1>1, <3>2, <3>3, <3>4, <3>5 DEF Clients
  <2> QED BY <2>1, <2>2
<1>6. CASE FollowerStarts
  <2>1. Newest(kept) \subseteq kept /\ Last(Newest(kept)) \in kept
    BY <1>6, CursorFacts DEF FollowerStarts
  <2>2. Newest(kept) \in SUBSET Posts /\ Last(Newest(kept)) \in Cursors
    BY <1>1, <2>1 DEF Cursors
  <2> QED BY <1>1, <1>6, <2>1, <2>2 DEF FollowerStarts, Clients
<1>7. CASE FollowerCursor
  <2>1. {i \in kept : Before(client.cursor, i)} \in SUBSET Posts
    BY <1>1
  <2> QED BY <1>1, <1>7, <2>1 DEF FollowerCursor, Clients
<1>8. CASE FollowerPage
  <2> DEFINE set == {j \in kept : Before(client.cursor, j)}
             page == After(client.cursor)
  <2>0. page = Oldest(set)
    BY DEF After
  <2>1. CASE page = {}
    BY <1>1, <1>8, <2>1 DEF FollowerPage, Clients
  <2>2. CASE page # {}
    <3>1. set \subseteq kept /\ set # {}
      BY <2>0, <2>2 DEF Oldest
    <3>2. page \subseteq kept /\ Last(page) \in kept
      BY <2>0, <3>1, CursorFacts
    <3>3. page \in SUBSET Posts /\ Last(page) \in Cursors
      BY <1>1, <3>2 DEF Cursors
    <3>4. client' = [client EXCEPT !.step = "ask", !.cursor = Last(page),
                                   !.has = @ \cup page]
      BY <1>8, <2>2 DEF FollowerPage
    <3>5. UNCHANGED <<time, kept, posted, created, files, purgeVars>>
      BY <1>8 DEF FollowerPage
    <3> HIDE DEF page
    <3> QED BY <1>1, <3>2, <3>3, <3>4, <3>5 DEF Clients
  <2> QED BY <2>1, <2>2
<1> QED BY <1>3, <1>4, <1>5, <1>6, <1>7, <1>8

(* Every step. *)
LEMMA HistoryTypesNext == HistoryTypes /\ [HistoryNext]_historyVars => HistoryTypes'
<1> SUFFICES ASSUME HistoryTypes, [HistoryNext]_historyVars PROVE HistoryTypes'
  OBVIOUS
<1> USE DEF purgeVars
<1>1. CASE Tick
  BY <1>1, TimeBound DEF Tick, HistoryTypes
<1>2. ASSUME NEW i \in Posts, NEW t \in 0..MaxTime, Post(i, t) PROVE HistoryTypes'
  BY <1>2 DEF Post, HistoryTypes
<1>3. CASE PurgeLook
  <2>1. time - Retention \in 0..MaxTime
    BY <1>3, SomeRetention, TimeBound DEF PurgeLook, HistoryTypes
  <2> QED BY <1>3, <2>1 DEF PurgeLook, Due, HistoryTypes
<1>4. ASSUME NEW i \in Posts, PurgeFile(i) PROVE HistoryTypes'
  BY <1>4 DEF PurgeFile, HistoryTypes
<1>5. CASE PurgeRows
  BY <1>5, TimeBound DEF PurgeRows, PurgeEnds, HistoryTypes
<1>6. CASE PurgeFails
  BY <1>6, TimeBound DEF PurgeFails, PurgeEnds, HistoryTypes
<1>7. ASSUME client' \in Clients, client'.has \subseteq posted,
             UNCHANGED <<time, kept, posted, created, files, purgeVars>>
      PROVE  HistoryTypes'
  BY <1>7 DEF HistoryTypes
<1>8. CASE UNCHANGED historyVars
  BY <1>8 DEF historyVars, HistoryTypes
<1> QED BY <1>1, <1>2, <1>3, <1>4, <1>5, <1>6, <1>7, <1>8, ClientTypes DEF HistoryNext

(* Every variable of the history has its type: a file is of a post that    *)
(* was posted, and what the purge has found is still in the table.         *)
THEOREM HistoryTyped == HistorySpec => []HistoryTypes
  BY HistoryTypesInit, HistoryTypesNext, PTL DEF HistorySpec

-----------------------------------------------------------------------------
(* The files: the purge deletes those of posts that are too old, and its   *)
(* second look, which deletes the posts, finds those that it found first.  *)
FilesInv ==
    /\ purge = "files" =>
          /\ cutoff + Retention <= time
          /\ old \subseteq Due(cutoff)
          /\ Due(cutoff) \cap files \subseteq old
    /\ FilesGoWithPosts

(* Every step: what is posted meanwhile is too young for the cutoff. *)
LEMMA FilesInvNext ==
    ASSUME HistoryTypes, HistoryTypes', FilesInv, [HistoryNext]_historyVars
    PROVE  FilesInv'
<1> USE DEF purgeVars
<1>1. /\ time \in Nat /\ cutoff \in Nat /\ Retention \in Nat /\ Retention >= 1
      /\ \A i \in Posts : created[i] \in Nat
      /\ kept \subseteq Posts
  BY TimeBound, SomeRetention DEF HistoryTypes
<1>2. CASE Tick
  BY <1>1, <1>2 DEF Tick, FilesInv, FilesGoWithPosts, Due
<1>3. ASSUME NEW i \in Posts, NEW t \in 0..MaxTime, Post(i, t) PROVE FilesInv'
  <2>1. /\ t \in Nat /\ t + 1 >= time /\ created'[i] = t
        /\ \A j \in kept : created'[j] = created[j] /\ j # i
        /\ UNCHANGED <<time, purge, cutoff, old>>
        /\ kept' = kept \cup {i} /\ files' = files \cup {i}
    BY <1>1, <1>3 DEF Post, HistoryTypes
  <2>2. kept' \ files' = kept \ files
    BY <2>1, <1>3 DEF Post, HistoryTypes
  <2>3. FilesGoWithPosts'
    BY <2>1, <2>2 DEF FilesInv, FilesGoWithPosts
  <2>4. ASSUME purge = "files" PROVE Due(cutoff)' = Due(cutoff)
    <3>1. ~(t < cutoff)
      BY <1>1, <2>1, <2>4 DEF FilesInv
    <3> QED BY <2>1, <3>1 DEF Due
  <2>5. i \notin Due(cutoff)
    BY <2>1 DEF Due
  <2> QED BY <2>1, <2>3, <2>4, <2>5 DEF FilesInv
<1>4. CASE PurgeLook
  <2>1. /\ cutoff' = time - Retention /\ old' = Due(cutoff') /\ time >= Retention
        /\ UNCHANGED <<time, kept, created, files>>
    BY <1>4 DEF PurgeLook
  <2>2. cutoff' + Retention <= time
    BY <1>1, <2>1
  <2> QED BY <2>1, <2>2 DEF FilesInv, FilesGoWithPosts, Due
<1>5. ASSUME NEW i \in Posts, PurgeFile(i) PROVE FilesInv'
  <2>1. /\ old' = old \ {i} /\ files' = files \ {i} /\ i \in old /\ purge = "files"
        /\ UNCHANGED <<time, kept, created, purge, cutoff>>
    BY <1>5 DEF PurgeFile
  <2>2. created[i] < cutoff /\ cutoff + Retention <= time
    BY <2>1 DEF FilesInv, Due
  <2>3. created[i] + Retention < time
    BY <1>1, <2>2
  <2>4. FilesGoWithPosts'
    BY <2>1, <2>3 DEF FilesInv, FilesGoWithPosts
  <2> QED BY <2>1, <2>4 DEF FilesInv, Due
<1>6. CASE PurgeRows
  <2>1. /\ Due(cutoff) \cap files = {} /\ kept' = kept \ Due(cutoff) /\ purge' = "rest"
        /\ UNCHANGED <<time, created, files>>
    BY <1>6 DEF PurgeRows, PurgeEnds, FilesInv
  <2> QED BY <2>1 DEF FilesInv, FilesGoWithPosts
<1>7. CASE PurgeFails
  BY <1>7 DEF PurgeFails, PurgeEnds, FilesInv, FilesGoWithPosts
<1>8. CASE UNCHANGED <<time, kept, created, files, purgeVars>>
  BY <1>8 DEF FilesInv, FilesGoWithPosts, Due
<1> QED
  BY <1>2, <1>3, <1>4, <1>5, <1>6, <1>7, <1>8, ClientTypes DEF HistoryNext, historyVars

(* A post loses its file only when it is too old to be kept, and a post    *)
(* that is purged leaves no file behind, however often a purge is cut      *)
(* short between the files and the posts.                                  *)
THEOREM FilesFollowPosts == HistorySpec => []FilesGoWithPosts
<1>1. HistoryInit => FilesInv
  BY DEF HistoryInit, FilesInv, FilesGoWithPosts
<1>2. FilesInv => FilesGoWithPosts
  BY DEF FilesInv
<1> QED
  BY <1>1, <1>2, HistoryTypesInit, HistoryTypesNext, FilesInvNext, PTL DEF HistorySpec

-----------------------------------------------------------------------------
(* What was purged is older than what is kept, and than what is posted     *)
(* from then on, though a post may appear with a time that has passed.     *)
PurgedInv ==
    \A j \in posted \ kept :
        created[j] + Retention < time /\ \A i \in kept : created[j] < created[i]

(* Every step: the rows are deleted by the cutoff, those above it stay. *)
LEMMA PurgedInvNext ==
    ASSUME HistoryTypes, HistoryTypes', FilesInv, PurgedInv, [HistoryNext]_historyVars
    PROVE  PurgedInv'
<1> USE DEF purgeVars
<1>1. /\ time \in Nat /\ cutoff \in Nat /\ Retention \in Nat /\ Retention >= 1
      /\ \A i \in Posts : created[i] \in Nat
      /\ kept \subseteq Posts /\ posted \subseteq Posts
  BY TimeBound, SomeRetention DEF HistoryTypes
<1>2. CASE Tick
  BY <1>1, <1>2 DEF Tick, PurgedInv
<1>3. ASSUME NEW i \in Posts, NEW t \in 0..MaxTime, Post(i, t) PROVE PurgedInv'
  <2>1. /\ t \in Nat /\ t + 1 >= time /\ created'[i] = t /\ time' = time
        /\ \A j \in posted : created'[j] = created[j] /\ j # i
        /\ posted' \ kept' = posted \ kept /\ kept' = kept \cup {i}
    BY <1>1, <1>3 DEF Post, HistoryTypes
  <2>2. ASSUME NEW j \in posted \ kept PROVE created[j] < t
    BY <1>1, <2>1, <2>2 DEF PurgedInv
  <2>3. ASSUME NEW j \in posted \ kept, NEW k \in kept' PROVE created'[j] < created'[k]
    BY <2>1, <2>2, <2>3 DEF PurgedInv, HistoryTypes
  <2> QED BY <2>1, <2>3 DEF PurgedInv
<1>4. CASE PurgeRows
  <2>1. /\ kept' = kept \ Due(cutoff) /\ purge = "files"
        /\ UNCHANGED <<time, posted, created>>
    BY <1>4 DEF PurgeRows
  <2>2. cutoff + Retention <= time
    BY <2>1 DEF FilesInv
  <2>3. ASSUME NEW j \in posted' \ kept', j \notin kept
        PROVE  created[j] + Retention < time /\ \A i \in kept' : created[j] < created[i]
    BY <2>1, <2>3 DEF PurgedInv
  <2>4. ASSUME NEW j \in Due(cutoff)
        PROVE  created[j] + Retention < time /\ \A i \in kept' : created[j] < created[i]
    BY <1>1, <2>1, <2>2 DEF Due
  <2> QED BY <2>1, <2>3, <2>4 DEF PurgedInv
<1>5. CASE UNCHANGED <<time, kept, posted, created>>
  BY <1>5 DEF PurgedInv
<1> QED
  BY <1>2, <1>3, <1>4, <1>5, ClientTypes
     DEF HistoryNext, historyVars, PurgeLook, PurgeFile, PurgeFails

(* What a client has not been given yet of what it is owed is beyond its   *)
(* cursor, on the side it goes to.                                         *)
Reading == client.step \in {"ask", "page"}
ClientInv ==
    /\ client.owed \subseteq posted
    /\ Reading => client.cursor \in posted
    /\ client.way = "back" /\ Reading =>
          \A i \in client.owed \cap kept : i \in client.has \/ Before(i, client.cursor)
    /\ client.way = "on" /\ client.step = "page" =>
          \A i \in client.owed : Before(client.cursor, i)
    /\ PagesComplete

(* The table changes while the client waits. *)
LEMMA ClientWaits ==
    ASSUME HistoryTypes, HistoryTypes', ClientInv, client' = client,
           posted \subseteq posted', kept' \cap posted \subseteq kept,
           \A i \in posted : created'[i] = created[i]
    PROVE  ClientInv'
<1>1. \A i, j \in posted : Before(i, j)' <=> Before(i, j)
  BY DEF Before
<1>2. client.owed \cap kept' \subseteq client.owed \cap kept
  BY DEF ClientInv
<1>3. client.step = "ask" => Reading
  BY DEF Reading
<1> QED BY <1>1, <1>2, <1>3 DEF ClientInv, PagesComplete, Reading

(* The steps of a client that pages back. *)
LEMMA PagerInv ==
    ASSUME HistoryTypes, PurgedInv, ClientInv, PagerStarts \/ PagerCursor \/ PagerPage
    PROVE  ClientInv'
<1>1. /\ client \in Clients /\ kept \subseteq posted /\ posted \subseteq Posts
      /\ UNCHANGED <<kept, posted, created>>
  BY DEF HistoryTypes, PagerStarts, PagerCursor, PagerPage
<1>2. \A i, j : Before(i, j)' <=> Before(i, j)
  BY <1>1 DEF Before
<1>3. CASE PagerStarts
  <2>1. CASE kept = {}
    BY <1>1, <1>3, <2>1 DEF PagerStarts, ClientInv, PagesComplete, Reading
  <2>2. CASE kept # {}
    <3>1. /\ client'.way = "back" /\ client'.step = "ask"
          /\ client'.cursor = First(Newest(kept))
          /\ client'.has = Newest(kept) /\ client'.owed = kept
      BY <1>3, <2>2 DEF PagerStarts
    <3>2. /\ First(Newest(kept)) \in kept
          /\ \A i \in kept : i \in Newest(kept) \/ Before(i, First(Newest(kept)))
      BY <2>2, CursorFacts
    <3> QED BY <1>1, <1>2, <3>1, <3>2 DEF ClientInv, PagesComplete, Reading
  <2> QED BY <2>1, <2>2
<1>4. CASE PagerCursor
  <2>1. /\ client.way = "back" /\ Reading
        /\ client'.way = "back" /\ client'.cursor = client.cursor
        /\ client'.has = client.has /\ client'.owed = client.owed
        /\ client'.step = IF client.cursor \in kept THEN "page" ELSE "done"
    BY <1>1, <1>4 DEF PagerCursor, Clients, Reading
  <2>2. \A i \in client.owed \cap kept : i \in client.has \/ Before(i, client.cursor)
    BY <2>1 DEF ClientInv
  <2>3. ASSUME client.cursor \notin kept, NEW i \in kept PROVE ~Before(i, client.cursor)
    <3>1. created[client.cursor] < created[i]
      BY <2>1, <2>3 DEF PurgedInv, ClientInv
    <3>2. created[client.cursor] \in Nat /\ created[i] \in Nat
      BY <1>1, <2>1, TimeBound DEF HistoryTypes, ClientInv
    <3> QED BY <3>1, <3>2 DEF Before
  <2>4. client.cursor \in posted /\ client.owed \subseteq posted
    BY <2>1 DEF ClientInv
  <2>5. PagesComplete'
    BY <1>1, <2>1, <2>2, <2>3 DEF PagesComplete
  <2> QED BY <1>1, <1>2, <2>1, <2>2, <2>4, <2>5 DEF ClientInv, Reading
<1>5. CASE PagerPage
  <2> DEFINE set == Older(client.cursor)
             page == Newest(set)
  <2>1. /\ client.way = "back" /\ Reading /\ client'.way = "back"
        /\ client'.owed = client.owed
        /\ client'.step = IF page = {} THEN "done" ELSE "ask"
        /\ client'.cursor = IF page = {} THEN client.cursor ELSE First(page)
        /\ client'.has = client.has \cup page
    BY <1>1, <1>5 DEF PagerPage, Clients, Reading
  <2>2. /\ \A i \in client.owed \cap kept : i \in client.has \/ i \in set
        /\ client.cursor \in posted /\ client.owed \subseteq posted
    BY <2>1 DEF ClientInv, Older
  <2>3. set \subseteq kept
    BY DEF Older
  <2>4. CASE set = {}
    <3>1. page = {}
      BY <2>4 DEF Newest
    <3> QED BY <1>1, <2>1, <2>2, <2>4, <3>1 DEF ClientInv, PagesComplete, Reading
  <2>5. CASE set # {}
    <3>1. /\ page # {} /\ First(page) \in kept
          /\ \A i \in set : i \in page \/ Before(i, First(page))
      BY <2>3, <2>5, CursorFacts
    <3> HIDE DEF set, page
    <3> QED BY <1>1, <1>2, <2>1, <2>2, <3>1 DEF ClientInv, PagesComplete, Reading
  <2> QED BY <2>4, <2>5
<1> QED BY <1>3, <1>4, <1>5

(* The steps of a client that follows. *)
LEMMA FollowerInv ==
    ASSUME HistoryTypes, ClientInv, FollowerStarts \/ FollowerCursor \/ FollowerPage
    PROVE  ClientInv'
<1>1. /\ client \in Clients /\ kept \subseteq posted /\ posted \subseteq Posts
      /\ UNCHANGED <<kept, posted, created>>
  BY DEF HistoryTypes, FollowerStarts, FollowerCursor, FollowerPage
<1>2. \A i, j : Before(i, j)' <=> Before(i, j)
  BY <1>1 DEF Before
<1>3. CASE FollowerStarts
  <2>1. Last(Newest(kept)) \in kept
    BY <1>3, CursorFacts DEF FollowerStarts
  <2>2. /\ client'.way = "on" /\ client'.step = "ask"
        /\ client'.cursor = Last(Newest(kept)) /\ client'.owed = {}
    BY <1>3 DEF FollowerStarts
  <2> QED BY <1>1, <2>1, <2>2 DEF ClientInv, PagesComplete, Reading
<1>4. CASE FollowerCursor
  <2>1. /\ client.cursor \in kept /\ client'.way = "on" /\ client'.step = "page"
        /\ client'.cursor = client.cursor
        /\ client'.owed = {i \in kept : Before(client.cursor, i)}
    BY <1>1, <1>4 DEF FollowerCursor, Clients
  <2> QED BY <1>1, <1>2, <2>1 DEF ClientInv, PagesComplete, Reading
<1>5. CASE FollowerPage
  <2> DEFINE set == {j \in kept : Before(client.cursor, j)}
             page == After(client.cursor)
  <2>1. /\ client.way = "on" /\ client.step = "page" /\ Reading
        /\ client'.way = "on" /\ client'.step = "ask" /\ client'.owed = client.owed
        /\ client'.cursor = IF page = {} THEN client.cursor ELSE Last(page)
        /\ client'.has = client.has \cup page
    BY <1>1, <1>5 DEF FollowerPage, Clients, Reading
  <2>2. /\ \A i \in client.owed \cap kept : i \in set
        /\ client.cursor \in posted /\ client.owed \subseteq posted
    BY <2>1 DEF ClientInv
  <2>3. page = Oldest(set)
    BY DEF After
  <2>4. CASE set = {}
    <3>1. page = {}
      BY <2>3, <2>4 DEF Oldest
    <3> QED BY <1>1, <2>1, <2>2, <2>4, <3>1 DEF ClientInv, PagesComplete, Reading
  <2>5. CASE set # {}
    <3>1. /\ page # {} /\ Last(page) \in kept
          /\ \A i \in set : i \in page \/ Before(Last(page), i)
      <4>1. set \subseteq kept
        OBVIOUS
      <4> HIDE DEF set
      <4>2. /\ Oldest(set) # {} /\ Last(Oldest(set)) \in kept
            /\ \A i \in set : i \in Oldest(set) \/ Before(Last(Oldest(set)), i)
        BY <2>5, <4>1, CursorFacts
      <4> HIDE DEF page
      <4> QED BY <2>3, <4>2
    <3> HIDE DEF set, page
    <3> QED BY <1>1, <1>2, <2>1, <2>2, <3>1 DEF ClientInv, PagesComplete, Reading
  <2> QED BY <2>4, <2>5
<1> QED BY <1>3, <1>4, <1>5

(* Every step. *)
LEMMA ClientInvNext ==
    ASSUME HistoryTypes, HistoryTypes', PurgedInv, ClientInv, [HistoryNext]_historyVars
    PROVE  ClientInv'
<1>1. ASSUME NEW i \in Posts, NEW t \in 0..MaxTime, Post(i, t) PROVE ClientInv'
  <2>1. /\ client' = client /\ posted \subseteq posted' /\ kept' \cap posted \subseteq kept
        /\ \A j \in posted : created'[j] = created[j]
    BY <1>1 DEF Post, HistoryTypes
  <2> QED BY <2>1, ClientWaits
<1>2. CASE PurgeRows
  BY <1>2, ClientWaits DEF PurgeRows
<1>3. CASE UNCHANGED <<kept, posted, created, client>>
  BY <1>3, ClientWaits
<1> QED
  BY <1>1, <1>2, <1>3, PagerInv, FollowerInv
     DEF HistoryNext, historyVars, Tick, PurgeLook, PurgeFile, PurgeFails

(* Whoever pages back to the end has been given every post that there was  *)
(* when it began and that is still there, even if its cursor was purged on *)
(* the way; and whoever follows gets past no post that it was not given.   *)
THEOREM PagesAreComplete == HistorySpec => []PagesComplete
<1>1. HistoryInit => FilesInv /\ PurgedInv /\ ClientInv
  BY DEF HistoryInit, NewClient, FilesInv, FilesGoWithPosts, PurgedInv, ClientInv,
         PagesComplete, Reading
<1>2. ClientInv => PagesComplete
  BY DEF ClientInv
<1> QED
  BY <1>1, <1>2, HistoryTypesInit, HistoryTypesNext, FilesInvNext, PurgedInvNext,
     ClientInvNext, PTL DEF HistorySpec

-----------------------------------------------------------------------------
(* The three services together.  While one acts the others rest, which is  *)
(* a stutter of theirs.                                                    *)

(* What is proved of each of the three carries over to their composition,  *)
(* by the way it is composed: a step of it is one of each or a stutter.    *)
LEMMA ServicesApart == MessagingSpec => ChatSpec /\ PushSpec /\ HistorySpec
<1>1. MessagingInit => ChatInit /\ PushInit /\ HistoryInit
  BY DEF MessagingInit
<1>2. [MessagingNext]_messagingVars =>
         [ChatNext]_chatVars /\ [PushNext]_pushVars /\ [HistoryNext]_historyVars
  BY DEF MessagingNext, messagingVars
<1> QED BY <1>1, <1>2, PTL DEF MessagingSpec, ChatSpec, PushSpec, HistorySpec

(* Every variable of the three keeps its type while they run together.     *)
THEOREM MessagingTyped == MessagingSpec => []MessagingTypes
<1>1. ChatTypes /\ PushTypes /\ HistoryTypes => MessagingTypes
  BY DEF MessagingTypes
<1> QED BY <1>1, ServicesApart, ChatTyped, PushTyped, HistoryTyped, PTL
=============================================================================
