---------------------------- MODULE SettingsPage ----------------------------
(***************************************************************************)
(* SettingsPage.tsx: the form loaded from the server, edited and saved, and*)
(* loaded again whenever the language changes, which nothing keeps apart   *)
(* from a save.                                                            *)
(***************************************************************************)
EXTENDS DashboardView

\* dirty: history, the form was edited since the server's value was put into it.
\* crossed: history, a load was begun while a save was on its way.
SettingsFirst ==
    [page |-> "settings", form |-> Null, error |-> FALSE, loading |-> TRUE, saving |-> FALSE,
     saved |-> FALSE, dirty |-> FALSE,
     crossed |-> \E c \in strays : c.req.op = "patch"]
\* A save the page is left with becomes a stray before the next page is mounted.
SettingsCalls == [read |-> [op |-> "settings"]]

SettingsShow ==
    IF view.loading THEN "loading" ELSE IF view.error THEN "error"
    ELSE IF view.form = Null THEN "empty" ELSE "form"

\* Mutant: the spinner is taken away on success alone.
MutSettingsLoad ==
    /\ At("settings")
    /\ \E r \in Results("read") :
        /\ Settle("read", r, Ended("read"))
        /\ view' = IF r.status = 200
                   THEN [view EXCEPT !.form = r.value, !.dirty = FALSE, !.loading = FALSE]
                   ELSE [view EXCEPT !.error = TRUE]
    /\ UNCHANGED <<auth, spent>>

SettingsLoad ==
    /\ At("settings")
    /\ \E r \in Results("read") :
        /\ Settle("read", r, Ended("read"))
        /\ view' = IF r.status = 200
                   THEN [view EXCEPT !.form = r.value, !.dirty = FALSE, !.loading = FALSE]
                   ELSE [view EXCEPT !.error = TRUE, !.loading = FALSE]
    /\ UNCHANGED <<auth, spent>>

\* Any field; the fields are not disabled while a save runs.
EditSettings(value) ==
    /\ At("settings") /\ SettingsShow = "form"
    /\ value # view.form
    /\ Act
    /\ view' = [view EXCEPT !.form = value, !.dirty = TRUE]
    /\ UNCHANGED <<apiVars, auth>>

SaveSettings ==
    /\ At("settings") /\ SettingsShow = "form" /\ ~view.saving
    /\ Act
    /\ view' = [view EXCEPT !.saving = TRUE, !.error = FALSE, !.saved = FALSE]
    /\ Call("write", [op |-> "patch", value |-> view.form])
    /\ UNCHANGED auth

\* Mutant: the form keeps what was typed, and is taken for saved.
MutSaveSettles ==
    /\ At("settings")
    /\ \E r \in Results("write") :
        /\ Settle("write", r, Ended("write"))
        /\ view' = IF r.status = 200
                   THEN [view EXCEPT !.dirty = FALSE, !.saved = TRUE, !.saving = FALSE]
                   ELSE [view EXCEPT !.error = TRUE, !.saving = FALSE]
    /\ UNCHANGED <<auth, spent>>

\* The answer replaces the form, edits made meanwhile included.
SaveSettles ==
    /\ At("settings")
    /\ \E r \in Results("write") :
        /\ Settle("write", r, Ended("write"))
        /\ view' = IF r.status = 200
                   THEN [view EXCEPT !.form = r.value, !.dirty = FALSE, !.saved = TRUE, !.saving = FALSE]
                   ELSE [view EXCEPT !.error = TRUE, !.saving = FALSE]
    /\ UNCHANGED <<auth, spent>>

\* setLanguage: the effect depends on the language and runs again; a save that is
\* under way stays so.
ChooseLanguage ==
    /\ At("settings") /\ SettingsShow = "form"
    /\ Act
    /\ view' = [view EXCEPT !.loading = TRUE, !.error = FALSE, !.crossed = @ \/ Busy("write")]
    /\ Call("read", [op |-> "settings"])
    /\ UNCHANGED auth

SettingsNext ==
    \/ SettingsLoad
    \/ \E value \in Setting : EditSettings(value)
    \/ SaveSettings
    \/ SaveSettles
    \/ ChooseLanguage

\* Where the settings are kept: a server without the endpoint leaves them to the
\* mock store of this page.
Stored == IF Live /\ "settings" \notin env.missing THEN srv.settings ELSE mock.settings

\* A form that is shown and was not edited is what is stored, after any number of
\* saves and loads, unless one of them crossed another.
FormIsStored ==
    At("settings") /\ SettingsShow = "form" /\ ~view.saving /\ ~view.dirty /\ ~view.crossed
        => view.form = Stored
=============================================================================
