------------------------------- MODULE Settings -------------------------------
(***************************************************************************)
(* OrganizationsService.getSettings and updateSettings: the settings of    *)
(* the organisation, a key and value table read over defaults.  The two    *)
(* weights of a scholar's progress have to add up to one, within 0.0001;   *)
(* their sum is checked once, and they are written one after the other.    *)
(***************************************************************************)
EXTENDS Tables

CONSTANTS Weights   \* the weights administrators ask for, in ten-thousandths: four decimals

VARIABLES
    setting,   \* the stored values, per key
    torn,      \* history: an update failed or met another one between its writes,
               \* and no update has run by itself, to its end, since
    alone      \* history: the update in flight that has met no other one

settingsVars == <<setting, torn, alone>>

AssignmentWeight == "assignment_weight"
AttendanceWeight == "attendance_weight"
Keys == {AssignmentWeight, AttendanceWeight}
Whole == 10000
Tolerance == 1
Unset == -1

\* ORG_SETTINGS_DEFAULTS: the weights in ten-thousandths, the thresholds in hundredths
\* of a percentage point.
Default == [key \in Keys |-> IF key = AssignmentWeight THEN 7000 ELSE 3000]
AtRiskAttendance == 7000
AtRiskAssignment == 6000
AtRiskOverdue == 3

ASSUME WeightsAssumption == Weights \subseteq 0 .. Whole

\* getSettings: a stored value hides the default.
Weight(key) == IF setting[key] = Unset THEN Default[key] ELSE setting[key]

\* The body of an update: the weights it names, and their values.
Bodies == UNION {[keys -> Weights] : keys \in (SUBSET Keys) \ {{}}}
\* Mutant of Asked: a weight that is not named is taken to be the default.
AskedOrDefault(body, key) == IF key \in DOMAIN body THEN body[key] ELSE Default[key]
Asked(body, key) == IF key \in DOMAIN body THEN body[key] ELSE Weight(key)

\* Off by no more than the tolerance.  At a sum of 0.9999 the doubles let most pairs
\* of weights through and refuse a few; a refusal changes nothing.
NearWhole(sum) == sum \in Whole - Tolerance .. Whole + Tolerance

\* An update that was let through, and the keys it has yet to write.
Update(body, keys) == [at |-> "settings", body |-> body, keys |-> keys]
Updates == [at : {"settings"}, body : Bodies, keys : SUBSET Keys]
Updating == {c \in Calls : call[c].at = "settings"}

SettingsTypeOK ==
    /\ setting \in [Keys -> Weights \union {Unset}]
    /\ torn \in BOOLEAN
    /\ alone \subseteq Calls

SettingsInit ==
    /\ setting = [key \in Keys |-> Unset]
    /\ torn = FALSE
    /\ alone = {}

\* A weight that is not named is read, and the sum is checked against it, before
\* anything is written.
UpdateSettings(c, body) ==
    /\ call[c] = Idle
    /\ NearWhole(Asked(body, AssignmentWeight) + Asked(body, AttendanceWeight))
    /\ Goes(c, Update(body, DOMAIN body))
    /\ torn' = (torn \/ Updating # {})
    /\ alone' = IF Updating = {} THEN {c} ELSE {}
    /\ UNCHANGED <<tables, setting>>

\* One upsert for each key, in the order of the code: the assignment weight first.
\* The audit entry, the job "dashboard" of the analytics queue and the push to the
\* administrators that follow the last one write no setting.
WriteSetting(c, key) ==
    /\ call[c].at = "settings"
    /\ key \in call[c].keys
    /\ AssignmentWeight \in call[c].keys => key = AssignmentWeight
    /\ setting' = [setting EXCEPT ![key] = call[c].body[key]]
    /\ IF call[c].keys = {key}
       THEN /\ Goes(c, Idle)
            /\ torn' = (torn /\ c \notin alone)
            /\ alone' = alone \ {c}
       ELSE /\ Goes(c, Update(call[c].body, call[c].keys \ {key}))
            /\ UNCHANGED <<torn, alone>>
    /\ UNCHANGED tables

\* An upsert rejects: what was written stays.
UpdateFails(c) ==
    /\ call[c].at = "settings"
    /\ Goes(c, Idle)
    /\ torn' = (torn \/ call[c].keys # DOMAIN call[c].body)
    /\ alone' = alone \ {c}
    /\ UNCHANGED <<tables, setting>>

SettingsNext ==
    \E c \in Calls :
        \/ \E body \in Bodies : UpdateSettings(c, body)
        \/ \E key \in Keys : WriteSetting(c, key)
        \/ UpdateFails(c)
=============================================================================
