------------------------------- MODULE Settings -------------------------------
(***************************************************************************)
(* Bank accounts and VAT rates of a tenant (backend/app/modules/settings/  *)
(* router.py): two tables with a default row that no constraint protects.  *)
(* Both have the same three calls; a row is [table, id, default].  A call  *)
(* that makes a row the default clears the others first.                   *)
(***************************************************************************)
EXTENDS Calls, Naturals, FiniteSets

CONSTANTS Preset,       \* ids of the VAT rates that a seed has stored
          SettingIds    \* ids of the rows the office adds

ASSUME SettingsAssumption == Preset \intersect SettingIds = {} /\ None \notin Preset \union SettingIds

VARIABLES settings,     \* the rows
          setting       \* setting[s]: the call that has cleared the defaults, or None

settingsVars == <<settings, setting>>

SettingTables == {"bank_accounts", "vat_configs"}
SettingRows == [table : SettingTables, id : Preset \union SettingIds, default : BOOLEAN]

SettingsInit ==
    /\ settings = [table : {"vat_configs"}, id : Preset, default : {FALSE}]
    /\ setting = [s \in Sessions |-> None]

RowsOf(table) == {r \in settings : r.table = table}

\* The rows that calls have cleared and hold until their COMMIT.
HeldSettings(s) == UNION {setting[t].cleared : t \in {u \in Sessions \ {s} : setting[u] # None}}

Known(table, id) == \E r \in RowsOf(table) : r.id = id

FreeSettings(s, rs) == {r.id : r \in rs} \intersect {r.id : r \in HeldSettings(s)} = {}

-----------------------------------------------------------------------------

\* create_... and update_... with is_default: UPDATE ... SET is_default = false of
\* every row the statement sees.
ClearDefaults(s, table, id) ==
    /\ setting[s] = None
    /\ FreeSettings(s, RowsOf(table))
    /\ setting' = [setting EXCEPT ![s] = [table |-> table, id |-> id, cleared |-> RowsOf(table)]]
    /\ UNCHANGED settings

\* The INSERT or the UPDATE of the row itself, and COMMIT.
SaveDefault(s) ==
    LET call == setting[s]
        cleared == {r.id : r \in call.cleared}
    IN  /\ call # None
        /\ settings' =
            {r \in settings : ~ (r.table = call.table /\ r.id \in cleared \union {call.id})}
                \union {[table |-> call.table, id |-> i, default |-> FALSE] : i \in cleared \ {call.id}}
                \union {[table |-> call.table, id |-> call.id, default |-> TRUE]}
        /\ setting' = [setting EXCEPT ![s] = None]

\* The row to update is unknown (404), or the call is cut off.
SaveFails(s) ==
    /\ setting[s] # None
    /\ setting' = [setting EXCEPT ![s] = None]
    /\ UNCHANGED settings

\* create_... and update_... without is_default: one statement.
SaveOrdinary(s, table, id) ==
    LET old == {r \in RowsOf(table) : r.id = id} IN
    /\ setting[s] = None /\ FreeSettings(s, old)
    /\ settings' = (settings \ old) \union {[table |-> table, id |-> id, default |-> FALSE]}
    /\ UNCHANGED setting

\* delete_bank_account, delete_vat_config.
DeleteSetting(s, r) ==
    /\ setting[s] = None /\ FreeSettings(s, {r})
    /\ settings' = settings \ {r}
    /\ UNCHANGED setting

-----------------------------------------------------------------------------

RowIds(table) == IF table = "vat_configs" THEN Preset \union SettingIds ELSE SettingIds

SettingsNext ==
    \E s \in Sessions :
        \/ \E table \in SettingTables : \E id \in RowIds(table) :
            ClearDefaults(s, table, id) \/ SaveOrdinary(s, table, id)
        \/ \E r \in settings : DeleteSetting(s, r)
        \/ SaveDefault(s) \/ SaveFails(s)

SettingsSpec == SettingsInit /\ [][SettingsNext]_settingsVars

-----------------------------------------------------------------------------

SettingsTypeOK ==
    /\ settings \subseteq SettingRows
    /\ \A r, x \in settings : r.table = x.table /\ r.id = x.id => r = x
    /\ \A s \in Sessions : setting[s] # None =>
        setting[s].table \in SettingTables /\ setting[s].cleared \subseteq SettingRows

\* "Un seul compte peut etre defini comme compte par defaut." (RG-A-012).
\* The code does not keep this.
OneDefault == \A r, x \in settings : r.table = x.table /\ r.default /\ x.default => r = x

\* "Au moins un compte bancaire doit etre defini comme compte par defaut." (A.8).
\* The code does not keep this.
DefaultStays == [][\A table \in SettingTables : (\E r \in settings : r.table = table /\ r.default)
                        => \E r \in settings' : r.table = table /\ r.default]_settings

\* "Les taux de TVA standard ne peuvent pas etre supprimes." (RG-A-030).
\* The code does not keep this.
StandardRatesStay == \A id \in Preset : Known("vat_configs", id)

=============================================================================
