---------------------------- MODULE FirmSettings ----------------------------
(***************************************************************************)
(* The account settings and tariff schedules of a firm: the page that      *)
(* edits them (FirmAccountsSettings) and the routes of accounts.ts, whose  *)
(* memory stands in for a table that cannot be written; both are keyed by  *)
(* the caller's institution, of which this is one.  The routes are         *)
(* quarantined: this is what they do once they are opened.  One user works *)
(* on the page, a second one calls the routes once.                        *)
(***************************************************************************)
EXTENDS FiniteSets, Naturals

CONSTANTS
    Preset, Active,    \* ids of ALL_PRESET_TARIFFS; the one of DEFAULT_FIRM_SETTINGS
    Custom,            \* ids of a firm's own schedules
    NoSettings, NoTariff,
    MaxFaults          \* bound: failing statements, lost replies and restarts

VARIABLES
    settings,          \* inMemoryTenantSettings
    row,               \* account_firm_settings
    tariffs,           \* inMemoryTenantTariffs
    schedules,         \* tariff_schedules
    calls,             \* the page's calls, the second user's call
    page,
    touched,           \* the second user has called
    faults

vars == <<settings, row, tariffs, schedules, calls, page, touched, faults>>

\* What a firm enters: "cleared" has no disbursement and another deeds count.
Value == {"default", "cleared"}
Settings == [value: Value, active: Preset \cup Custom]
Tariff == [id: Preset \cup Custom, edited: BOOLEAN]
Caller == {"settings", "tariffs", "other"}
Kind == {"none", "get", "put", "list", "post", "reset"}
Stage == {"sent", "memory", "row", "answered", "refused"}

TypeOK ==
    /\ settings \in Settings \cup {NoSettings}
    /\ row \in Settings \cup {NoSettings}
    /\ tariffs \subseteq Tariff /\ schedules \subseteq Tariff
    /\ calls \in [Caller -> [kind: Kind, stage: Stage, settings: Settings \cup {NoSettings},
                             tariff: Tariff \cup {NoTariff}, offered: SUBSET Tariff]]
    /\ page \in [state: {"loading", "failed", "ready", "settings", "schedule"},
                 settings: Settings \cup {NoSettings}, tariffs: SUBSET Tariff,
                 activeTariff: Tariff \cup {NoTariff}, selected: Preset \cup Custom,
                 sent: Settings \cup {NoSettings}, tariff: Tariff \cup {NoTariff},
                 saveSuccess: BOOLEAN, error: BOOLEAN]
    /\ touched \in BOOLEAN /\ faults \in 0 .. MaxFaults

Default == [value |-> "default", active |-> Active]
AsIssued == {[id |-> i, edited |-> FALSE] : i \in Preset}

Call(kind, s, t) == [kind |-> kind, stage |-> "sent", settings |-> s, tariff |-> t, offered |-> {}]
Idle == Call("none", NoSettings, NoTariff)
getFirmSettings == Call("get", NoSettings, NoTariff)
getTariffSchedules == Call("list", NoSettings, NoTariff)

\* The tables may hold a schedule of the firm's own; nothing else was stored yet.
Init ==
    /\ settings = NoSettings /\ row = NoSettings /\ tariffs = {}
    /\ schedules \in {{}, {[id |-> c, edited |-> FALSE] : c \in Custom}}
    /\ calls = [c \in Caller |-> CASE c = "settings" -> getFirmSettings
                                   [] c = "tariffs" -> getTariffSchedules
                                   [] OTHER -> Idle]
    /\ page = [state |-> "loading", settings |-> NoSettings, tariffs |-> {}, activeTariff |-> NoTariff,
               selected |-> Active, sent |-> NoSettings, tariff |-> NoTariff,
               saveSuccess |-> FALSE, error |-> FALSE]
    /\ touched = FALSE /\ faults = 0

-----------------------------------------------------------------------------
(* The page.                                                                *)

Answered(c, kind) == calls[c].kind = kind /\ calls[c].stage = "answered"
Refused(c) == calls[c].kind # "none" /\ calls[c].stage = "refused"
Returns(c) == calls' = [calls EXCEPT ![c] = Idle]

Loaded ==
    /\ page.state = "loading" /\ Answered("settings", "get") /\ Answered("tariffs", "list")
    /\ LET fetched == calls["settings"].settings
           offered == calls["tariffs"].offered
           found == {t \in offered : t.id = fetched.active}
       IN  page' = [page EXCEPT !.state = "ready", !.settings = fetched, !.tariffs = offered,
                                !.selected = fetched.active,
                                !.activeTariff = CHOOSE t \in IF found = {} THEN AsIssued ELSE found :
                                                     found = {} => t.id = Active]
    /\ calls' = [calls EXCEPT !["settings"] = Idle, !["tariffs"] = Idle]
    /\ UNCHANGED <<settings, row, tariffs, schedules, touched, faults>>

\* Promise.all: one failing answer is enough, the other one is ignored.
LoadFails ==
    /\ page.state = "loading" /\ (Refused("settings") \/ Refused("tariffs"))
    /\ page' = [page EXCEPT !.state = "failed", !.error = TRUE]
    /\ calls' = [calls EXCEPT !["settings"] = Idle, !["tariffs"] = Idle]
    /\ UNCHANGED <<settings, row, tariffs, schedules, touched, faults>>

Drawn == page.state \in {"ready", "settings", "schedule"}

\* The inputs stay enabled while a save is under way.
handleUpdateSettings(v) ==
    /\ Drawn /\ page' = [page EXCEPT !.settings.value = v]
    /\ UNCHANGED <<settings, row, tariffs, schedules, calls, touched, faults>>

handleTariffChange(t) ==
    /\ Drawn /\ t \in page.tariffs
    /\ page' = [page EXCEPT !.selected = t.id, !.activeTariff = t]
    /\ UNCHANGED <<settings, row, tariffs, schedules, calls, touched, faults>>

\* Brackets changed, added or removed, in a copy of the schedule.
handleBracketChange ==
    /\ Drawn /\ page.activeTariff.id \notin Preset
    /\ page' = [page EXCEPT !.activeTariff.edited = ~@]
    /\ UNCHANGED <<settings, row, tariffs, schedules, calls, touched, faults>>

handleSaveSettings ==
    /\ page.state = "ready"
    /\ LET sent == [page.settings EXCEPT !.active = page.selected]
       IN  /\ calls' = [calls EXCEPT !["settings"] = Call("put", sent, NoTariff)]
           /\ page' = [page EXCEPT !.state = "settings", !.error = FALSE, !.sent = sent,
                                   !.tariff = page.activeTariff]
    /\ UNCHANGED <<settings, row, tariffs, schedules, touched, faults>>

\* Faulty variant: success is shown for the settings alone.
SettingsSavedFirst ==
    /\ page.state = "settings" /\ Answered("settings", "put")
    /\ calls' = [calls EXCEPT !["settings"] = Call("post", NoSettings, page.tariff)]
    /\ page' = [page EXCEPT !.state = "ready", !.settings = page.sent, !.saveSuccess = TRUE]
    /\ UNCHANGED <<settings, row, tariffs, schedules, touched, faults>>

SettingsSaved ==
    /\ page.state = "settings" /\ Answered("settings", "put")
    /\ calls' = [calls EXCEPT !["settings"] = Call("post", NoSettings, page.tariff)]
    /\ page' = [page EXCEPT !.state = "schedule"]
    /\ UNCHANGED <<settings, row, tariffs, schedules, touched, faults>>

\* What was typed since the click is replaced.
ScheduleSaved ==
    /\ page.state = "schedule" /\ Answered("settings", "post")
    /\ page' = [page EXCEPT !.state = "ready", !.settings = page.sent, !.saveSuccess = TRUE]
    /\ Returns("settings")
    /\ UNCHANGED <<settings, row, tariffs, schedules, touched, faults>>

SaveFails ==
    /\ page.state \in {"settings", "schedule"} /\ Refused("settings")
    /\ page' = [page EXCEPT !.state = "ready", !.error = TRUE]
    /\ Returns("settings")
    /\ UNCHANGED <<settings, row, tariffs, schedules, touched, faults>>

\* Three seconds after a save, also after an earlier one than the last.
SavedMessageEnds ==
    /\ page.saveSuccess /\ page' = [page EXCEPT !.saveSuccess = FALSE]
    /\ UNCHANGED <<settings, row, tariffs, schedules, calls, touched, faults>>

-----------------------------------------------------------------------------
(* The routes.                                                              *)

OtherCalls(kind, s, t) ==
    /\ ~touched /\ touched' = TRUE
    /\ calls' = [calls EXCEPT !["other"] = Call(kind, s, t)]
    /\ UNCHANGED <<settings, row, tariffs, schedules, page, faults>>

Answer(c, s, offered) ==
    calls' = IF c = "other" THEN [calls EXCEPT ![c] = Idle]
             ELSE [calls EXCEPT ![c].stage = "answered", ![c].settings = s, ![c].offered = offered]

Is(c, kind, stage) == calls[c].kind = kind /\ calls[c].stage = stage

MayFail(failed) == faults' = IF failed THEN faults + 1 ELSE faults
Fails == IF faults < MaxFaults THEN BOOLEAN ELSE {FALSE}

\* Every row is read with one deeds count, and without disbursements with the
\* default ones.
FromRow(s) == [s EXCEPT !.value = IF @ = "cleared" THEN "default" ELSE @]

getTenantSettings(c) ==
    /\ Is(c, "get", "sent")
    /\ \E failed \in Fails :
        /\ MayFail(failed)
        /\ IF row # NoSettings /\ ~failed
           THEN Answer(c, FromRow(row), {}) /\ UNCHANGED settings
           ELSE LET s == IF settings = NoSettings THEN Default ELSE settings
                IN  Answer(c, s, {}) /\ settings' = s
    /\ UNCHANGED <<row, tariffs, schedules, page, touched>>

\* Merged over the settings just read, of which a complete body leaves nothing.
PutMemory(c) ==
    /\ Is(c, "put", "sent")
    /\ settings' = calls[c].settings
    /\ calls' = [calls EXCEPT ![c].stage = "memory"]
    /\ UNCHANGED <<row, tariffs, schedules, page, touched, faults>>

PutRow(c) ==
    /\ Is(c, "put", "memory")
    /\ \E failed \in Fails :
        /\ MayFail(failed)
        /\ row' = IF failed THEN row ELSE calls[c].settings
    /\ Answer(c, calls[c].settings, {})
    /\ UNCHANGED <<settings, tariffs, schedules, page, touched>>

\* Of the schedules of one id the first is offered.
Adding(offered, more) == offered \cup {t \in more : t.id \notin {o.id : o \in offered}}

ListTariffs(c) ==
    /\ Is(c, "list", "sent")
    /\ \E failed \in Fails :
        /\ MayFail(failed)
        /\ Answer(c, NoSettings, Adding(Adding(AsIssued, IF failed THEN {} ELSE schedules), tariffs))
    /\ UNCHANGED <<settings, row, tariffs, schedules, page, touched>>

With(set, t) == {s \in set : s.id # t.id} \cup {t}

PostRefused(c) ==
    /\ Is(c, "post", "sent") /\ calls[c].tariff.id \in Preset
    /\ calls' = IF c = "other" THEN [calls EXCEPT ![c] = Idle] ELSE [calls EXCEPT ![c].stage = "refused"]
    /\ UNCHANGED <<settings, row, tariffs, schedules, page, touched, faults>>

PostMemory(c) ==
    /\ Is(c, "post", "sent") /\ calls[c].tariff.id \notin Preset
    /\ tariffs' = With(tariffs, calls[c].tariff)
    /\ calls' = [calls EXCEPT ![c].stage = "memory"]
    /\ UNCHANGED <<settings, row, schedules, page, touched, faults>>

PostRow(c) ==
    /\ Is(c, "post", "memory")
    /\ \E failed \in Fails :
        /\ MayFail(failed)
        /\ schedules' = IF failed THEN schedules ELSE With(schedules, calls[c].tariff)
    /\ Answer(c, NoSettings, {})
    /\ UNCHANGED <<settings, row, tariffs, page, touched>>

ResetMemory(c) ==
    /\ Is(c, "reset", "sent")
    /\ settings' = Default
    /\ calls' = [calls EXCEPT ![c].stage = "memory"]
    /\ UNCHANGED <<row, tariffs, schedules, page, touched, faults>>

ResetSettings(c) ==
    /\ Is(c, "reset", "memory")
    /\ row' = NoSettings
    /\ calls' = [calls EXCEPT ![c].stage = "row"]
    /\ UNCHANGED <<settings, tariffs, schedules, page, touched, faults>>

ResetSchedules(c) ==
    /\ Is(c, "reset", "row")
    /\ schedules' = {}
    /\ Answer(c, NoSettings, {})
    /\ UNCHANGED <<settings, row, tariffs, page, touched, faults>>

\* Either statement fails and the other is not reached or has been done.
ResetFails(c) ==
    /\ calls[c].kind = "reset" /\ calls[c].stage \in {"memory", "row"}
    /\ faults < MaxFaults /\ faults' = faults + 1
    /\ Answer(c, NoSettings, {})
    /\ UNCHANGED <<settings, row, tariffs, schedules, page, touched>>

\* The process is replaced; it takes its calls along.
Restart ==
    /\ faults < MaxFaults /\ faults' = faults + 1
    /\ settings' = NoSettings /\ tariffs' = {}
    /\ calls' = [c \in Caller |->
           IF calls[c].kind = "none" \/ calls[c].stage \in {"sent", "answered"} THEN calls[c]
           ELSE IF c = "other" THEN Idle ELSE [calls[c] EXCEPT !.stage = "refused"]]
    /\ UNCHANGED <<row, schedules, page, touched>>

\* Refused, quarantined, or its reply is lost.
CallFails(c) ==
    /\ c # "other" /\ calls[c].kind # "none" /\ calls[c].stage \in {"sent", "answered"}
    /\ faults < MaxFaults /\ faults' = faults + 1
    /\ calls' = [calls EXCEPT ![c].stage = "refused"]
    /\ UNCHANGED <<settings, row, tariffs, schedules, page, touched>>

Next ==
    \/ Loaded \/ LoadFails \/ handleBracketChange \/ handleSaveSettings
    \/ SettingsSaved \/ ScheduleSaved \/ SaveFails \/ SavedMessageEnds \/ Restart
    \/ \E v \in Value : handleUpdateSettings(v)
    \/ \E t \in Tariff : handleTariffChange(t)
    \/ \E kind \in {"put", "reset"} : OtherCalls(kind, [value |-> "cleared", active |-> Active], NoTariff)
    \/ \E t \in Tariff : t.edited /\ OtherCalls("post", NoSettings, t)
    \/ \E c \in Caller : \/ getTenantSettings(c) \/ PutMemory(c) \/ PutRow(c) \/ ListTariffs(c)
                         \/ PostRefused(c) \/ PostMemory(c) \/ PostRow(c)
                         \/ ResetMemory(c) \/ ResetSettings(c) \/ ResetSchedules(c) \/ ResetFails(c)
                         \/ CallFails(c)

Spec == Init /\ [][Next]_vars

-----------------------------------------------------------------------------
(* Properties.                                                              *)

\* When the page says "Settings saved!" and no error, though an earlier save of it
\* may have been refused half-way and its message may outlive the next click, the
\* settings and the schedule of its last save are stored, if no statement failed
\* and nobody else wrote.
SavedIsStored ==
    page.state = "ready" /\ page.saveSuccess /\ ~page.error /\ faults = 0 /\ ~touched =>
        /\ settings = page.sent /\ row = page.sent
        /\ page.tariff \in schedules /\ page.tariff \in tariffs

\* No official schedule is stored or offered but as issued, whoever posts what,
\* and a list offers no two schedules of one id.
OfficialAsIssued ==
    /\ \A t \in schedules \cup tariffs \cup page.tariffs : t.id \in Preset => t \in AsIssued
    /\ \A t, u \in page.tariffs : t.id = u.id => t = u
=============================================================================
