--------------------------- MODULE SettingsWindows ---------------------------
(***************************************************************************)
(* The stored settings (application/src/settings.rs), the windows whose     *)
(* visibility they remember (windows.rs, tray.rs) and the Settings page,    *)
(* every control of which saves the whole form (SettingsPage.tsx).          *)
(*                                                                          *)
(* Commands that touch windows run one at a time on the main thread; saves  *)
(* run on threads of their own, and the storage mutex makes each of them    *)
(* one step.  Every setting has two values.  The answer to a command of     *)
(* the main thread is delivered with it.                                    *)
(***************************************************************************)
EXTENDS Integers, Sequences, FiniteSets, SequencesExt

CONSTANTS
  MaxActs,     \* bound: what the user does between two starts
  MaxCalls     \* bound: saves in flight

ASSUME SettingsAssumption == {MaxActs, MaxCalls} \subseteq Nat \ {0}

VARIABLES
  stored,      \* table app_settings
  registered,  \* Windows holds a startup entry
  onScreen,    \* the windows that are shown
  sizeShown,   \* the size of the widget
  command,     \* the command the main thread has begun
  opened,      \* what the Settings page that is loading was answered
  form,        \* the draft of the Settings page
  timer,       \* the draft a slider's timer will save
  calls,       \* saves that are not answered
  latest,      \* saveSeq
  acts,        \* what the user has done since the start (history)
  marred       \* and what has gone wrong since (history)

settingVars ==
  <<stored, registered, onScreen, sizeShown, command, opened, form, timer, calls, latest, acts, marred>>

\* The keys of a form, in the order save writes them; "opacity" stands for the
\* two opacities, "widget" and "pet" for their windows' visibility.  The
\* dashboard's visibility is stored too, but in no form.
Fields  == <<"startup", "opacity", "widget", "size", "pet">>
Form    == [ToSet(Fields) -> BOOLEAN]
Windows == {"main", "widget", "pet"}
Keys    == ToSet(Fields) \cup Windows

NoForm    == [none |-> TRUE]
NoCommand == [op |-> "none"]
\* What load answers.
Loaded    == [k \in ToSet(Fields) |-> stored[k]]

\* A save in flight, with its number, and the commands of the main thread.
Saves    == [seq : Nat, form : Form, pc : {"sent", "saved", "viewed", "failed"},
             echo : Form \cup {NoForm}]
Commands == {NoCommand, [op |-> "hide"]}
            \cup [op : {"persist"}, window : Windows, shown : BOOLEAN, page : BOOLEAN]

SettingsTypeOK ==
  /\ stored \in [Keys -> BOOLEAN]
  /\ onScreen \in [Windows -> BOOLEAN]
  /\ {registered, sizeShown} \subseteq BOOLEAN
  /\ {opened, form, timer} \subseteq Form \cup {NoForm}
  /\ command \in Commands
  /\ \A c \in calls : c \in Saves /\ c.seq <= latest /\ (c.pc = "viewed" => c.echo \in Form)
  /\ latest \in Nat
  /\ form = NoForm => timer = NoForm /\ latest = 0
  /\ NoForm \in {opened, form}

-----------------------------------------------------------------------------
(* Starting *)

\* setup_windows, restore_widget_state and restore_pet_window_state.
Restored == [w \in Windows |-> stored[w]]

SettingsInit ==
  /\ stored = [k \in Keys |-> k = "main"]
  /\ registered = FALSE
  /\ onScreen = [w \in Windows |-> w = "main"]
  /\ sizeShown = FALSE
  /\ command = NoCommand
  /\ opened = NoForm /\ form = NoForm /\ timer = NoForm
  /\ calls = {} /\ latest = 0
  /\ acts = 0 /\ marred = {}

\* The process ends, wherever it is, and is started again.
Restart ==
  /\ onScreen' = Restored /\ sizeShown' = stored["size"]
  /\ command' = NoCommand
  /\ opened' = NoForm /\ form' = NoForm /\ timer' = NoForm
  /\ calls' = {} /\ latest' = 0
  /\ acts' = 0 /\ marred' = {}
  /\ UNCHANGED <<stored, registered>>

Act == acts < MaxActs /\ acts' = acts + 1

\* The Settings page shows the settings, or is about to.
PageIsOpen == form # NoForm \/ opened # NoForm

-----------------------------------------------------------------------------
(* The windows *)

\* show_main_window, hide_widget, show_pet_window and so on, from the tray, the
\* Pet page or a window's own button: the window first, then the setting.  A
\* toggle of the tray asks the window; the Pet page asks the settings.
Command(w, show) ==
  /\ command = NoCommand /\ Act
  /\ w = "main" => show
  /\ command' = [op |-> "persist", window |-> w, shown |-> show, page |-> FALSE]
  /\ onScreen' = [onScreen EXCEPT ![w] = show]
  /\ marred' = IF w = "main" \/ ~PageIsOpen THEN marred ELSE marred \cup {"outside"}
  /\ UNCHANGED <<stored, registered, sizeShown, form, timer, calls, latest, opened>>

\* The toggle of the Settings page drives the widget's window.
PageToggle ==
  /\ command = NoCommand /\ form # NoForm /\ Act
  /\ command' = [op |-> "persist", window |-> "widget", shown |-> ~form["widget"], page |-> TRUE]
  /\ onScreen' = [onScreen EXCEPT !["widget"] = ~form["widget"]]
  /\ marred' = IF calls = {} /\ timer = NoForm THEN marred ELSE marred \cup {"overlap"}
  /\ UNCHANGED <<stored, registered, sizeShown, form, timer, calls, latest, opened>>

\* Seeded fault: hiding is not persisted.
PersistShownOnly ==
  /\ command.op = "persist"
  /\ stored' = [stored EXCEPT ![command.window] = command.shown \/ @]
  /\ command' = NoCommand
  /\ form' = IF command.page THEN [form EXCEPT !["widget"] = command.shown] ELSE form
  /\ UNCHANGED <<registered, onScreen, sizeShown, timer, calls, latest, acts, marred, opened>>

\* set_widget_visible, set_pet_visible or persist_main_window_visible, which may
\* fail; the page then reports an error and its draft stays.
Persist ==
  /\ command.op = "persist"
  /\ command' = NoCommand
  /\ \/ /\ stored' = [stored EXCEPT ![command.window] = command.shown]
        /\ form' = IF command.page /\ form # NoForm
                   THEN [form EXCEPT !["widget"] = command.shown] ELSE form
        /\ marred' = marred
     \/ /\ marred' = marred \cup {"failed"}
        /\ UNCHANGED <<stored, form>>
  /\ UNCHANGED <<registered, onScreen, sizeShown, timer, calls, latest, acts, opened>>

\* handle_close_request: the dashboard is remembered before it is hidden, the
\* widget and the pet after.
CloseMain ==
  /\ command = NoCommand /\ onScreen["main"] /\ Act
  /\ command' = [op |-> "hide"]
  /\ \/ stored' = [stored EXCEPT !["main"] = FALSE] /\ marred' = marred
     \/ stored' = stored /\ marred' = marred \cup {"failed"}
  /\ UNCHANGED <<registered, onScreen, sizeShown, form, timer, calls, latest, opened>>
HideMain ==
  /\ command.op = "hide"
  /\ command' = NoCommand
  /\ onScreen' = [onScreen EXCEPT !["main"] = FALSE]
  /\ UNCHANGED <<stored, registered, sizeShown, form, timer, calls, latest, acts, marred, opened>>
CloseWindow(w) ==
  /\ command = NoCommand /\ onScreen[w] /\ Act
  /\ command' = [op |-> "persist", window |-> w, shown |-> FALSE, page |-> FALSE]
  /\ onScreen' = [onScreen EXCEPT ![w] = FALSE]
  /\ marred' = IF ~PageIsOpen THEN marred ELSE marred \cup {"outside"}
  /\ UNCHANGED <<stored, registered, sizeShown, form, timer, calls, latest, opened>>

\* Seeded fault: the size is applied before it is stored.
SizeThenStore(v) ==
  /\ command = NoCommand /\ form # NoForm /\ Act
  /\ stored' = [stored EXCEPT !["size"] = v]
  /\ sizeShown' = stored["size"]
  /\ form' = [form EXCEPT !["size"] = v]
  /\ marred' = IF calls = {} /\ timer = NoForm THEN marred ELSE marred \cup {"overlap"}
  /\ UNCHANGED <<registered, onScreen, command, timer, calls, latest, opened>>

\* set_widget_size_preset and apply_widget_size, from the page.
SetSize(v) ==
  /\ command = NoCommand /\ form # NoForm /\ Act
  /\ \/ /\ stored' = [stored EXCEPT !["size"] = v]
        /\ sizeShown' = v
        /\ form' = [form EXCEPT !["size"] = v]
        /\ marred' = IF calls = {} /\ timer = NoForm THEN marred ELSE marred \cup {"overlap"}
     \/ /\ marred' = marred \cup {"failed"}
        /\ UNCHANGED <<stored, sizeShown, form>>
  /\ UNCHANGED <<registered, onScreen, command, timer, calls, latest, opened>>

-----------------------------------------------------------------------------
(* The Settings page *)

\* The page is mounted and get_settings answers; while the answer is on its way the
\* page has no controls.  A load that fails leaves nothing and can be repeated.
OpenPage ==
  /\ ~PageIsOpen /\ Act
  /\ opened' = Loaded
  /\ marred' = IF calls = {} /\ command = NoCommand THEN marred ELSE marred \cup {"overlap"}
  /\ UNCHANGED <<stored, registered, onScreen, sizeShown, command, form, timer, calls, latest>>
ShowPage ==
  /\ opened # NoForm
  /\ form' = opened /\ opened' = NoForm
  /\ UNCHANGED <<stored, registered, onScreen, sizeShown, command, timer, calls, latest, acts, marred>>

\* Seeded fault: the answers to a page that was left are taken for those to the next.
LeaveKeepingCount ==
  /\ form # NoForm /\ Act
  /\ form' = NoForm /\ timer' = NoForm
  /\ UNCHANGED <<stored, registered, onScreen, sizeShown, command, calls, latest, marred, opened>>

\* Nobody waits for the answers any more, that of the load included, but the saves
\* go on, and so does what a timer has in store.
LeavePage ==
  /\ PageIsOpen /\ Act
  /\ Cardinality(calls) < MaxCalls
  /\ opened' = NoForm /\ form' = NoForm /\ timer' = NoForm /\ latest' = 0
  /\ calls' = {[c EXCEPT !.seq = 0] : c \in calls}
                \cup (IF timer = NoForm THEN {}
                      ELSE {[seq |-> 0, form |-> timer, pc |-> "sent", echo |-> NoForm]})
  /\ UNCHANGED <<stored, registered, onScreen, sizeShown, command, marred>>

\* persist: a save with the next number.
Send(f) ==
  /\ Cardinality(calls) < MaxCalls
  /\ latest' = latest + 1
  /\ calls' = calls \cup {[seq |-> latest + 1, form |-> f, pc |-> "sent", echo |-> NoForm]}
  /\ marred' = IF calls = {} /\ command = NoCommand THEN marred ELSE marred \cup {"overlap"}

\* update: the draft with one field changed is shown and saved.
Switch ==
  /\ form # NoForm /\ Act
  /\ form' = [form EXCEPT !["startup"] = ~@]
  /\ Send(form')
  /\ UNCHANGED <<stored, registered, onScreen, sizeShown, command, timer, opened>>

\* updateSoon: shown now, saved when the user has settled.
Slide ==
  /\ form # NoForm /\ Act
  /\ form' = [form EXCEPT !["opacity"] = ~@]
  /\ timer' = form'
  /\ UNCHANGED <<stored, registered, onScreen, sizeShown, command, calls, latest, marred, opened>>
Settled ==
  /\ timer # NoForm
  /\ timer' = NoForm
  /\ Send(timer)
  /\ UNCHANGED <<stored, registered, onScreen, sizeShown, command, form, acts, opened>>

\* save_settings with the storage mutex held: the startup entry, which Windows
\* may refuse, then the keys one after the other, any of which may fail.
Written(f, n) == [k \in Keys |-> IF k \in ToSet(SubSeq(Fields, 1, n)) THEN f[k] ELSE stored[k]]
\* Seeded fault: the form is stored although Windows refuses.
SaveAnyway(c) ==
  /\ c \in calls /\ c.pc = "sent"
  /\ \E accepted \in BOOLEAN :
       /\ registered' = IF accepted THEN c.form["startup"] ELSE registered
       /\ stored' = Written(c.form, Len(Fields))
  /\ calls' = (calls \ {c}) \cup {[c EXCEPT !.pc = "saved"]}
  /\ UNCHANGED <<onScreen, sizeShown, command, form, timer, latest, acts, marred, opened>>
Overwrites(f) == \E w \in {"widget", "pet"} : f[w] # stored[w]
Save(c) ==
  /\ c \in calls /\ c.pc = "sent"
  /\ \/ \* refused
        /\ calls' = (calls \ {c}) \cup {[c EXCEPT !.pc = "failed"]}
        /\ marred' = marred \cup {"refused"}
        /\ UNCHANGED <<stored, registered>>
     \/ /\ registered' = c.form["startup"]
        /\ \E n \in 0..Len(Fields) :
             /\ stored' = Written(c.form, n)
             /\ calls' = (calls \ {c})
                           \cup {[c EXCEPT !.pc = IF n < Len(Fields) THEN "failed" ELSE "saved"]}
             /\ marred' = marred \cup (IF n < Len(Fields) THEN {"failed"} ELSE {})
                                 \cup (IF Overwrites(c.form) THEN {"overwrote"} ELSE {})
  /\ UNCHANGED <<onScreen, sizeShown, command, form, timer, latest, acts, opened>>

\* get_settings_view, after the mutex was released: a second reading, which may
\* fail although everything was saved; the widget then keeps its size.
View(c) ==
  /\ c \in calls /\ c.pc = "saved"
  /\ \/ /\ calls' = (calls \ {c}) \cup {[c EXCEPT !.pc = "viewed", !.echo = Loaded]}
        /\ marred' = marred
     \/ /\ calls' = (calls \ {c}) \cup {[c EXCEPT !.pc = "failed"]}
        /\ marred' = marred \cup {"unseen"}
  /\ UNCHANGED <<stored, registered, onScreen, sizeShown, command, form, timer, latest, acts, opened>>

\* apply_widget_size, and the answer: the echo replaces the draft if no later
\* save was sent, an error leaves the draft as it is.
Echo(c) ==
  /\ c \in calls /\ c.pc \in {"viewed", "failed"}
  /\ calls' = calls \ {c}
  /\ IF c.pc = "failed" THEN UNCHANGED <<sizeShown, form>>
     ELSE /\ sizeShown' = stored["size"]
          /\ form' = IF c.seq = latest /\ c.seq > 0 THEN c.echo ELSE form
  /\ UNCHANGED <<stored, registered, onScreen, command, timer, latest, acts, marred, opened>>

SettingsNext ==
  \/ Restart
  \/ \E w \in Windows, show \in BOOLEAN : Command(w, show)
  \/ PageToggle \/ Persist \/ CloseMain \/ HideMain
  \/ \E w \in {"widget", "pet"} : CloseWindow(w)
  \/ \E v \in BOOLEAN : SetSize(v)
  \/ OpenPage \/ ShowPage \/ LeavePage \/ Switch \/ Slide \/ Settled
  \/ \E c \in calls : Save(c) \/ View(c) \/ Echo(c)

SettingsSpec == SettingsInit /\ [][SettingsNext]_settingVars

-----------------------------------------------------------------------------
(* Properties *)

\* "Closing the widget is the same as hiding it, and is remembered" (windows.rs):
\* between two commands, what is on the screen is what a restart shows, unless a
\* write has failed or, for the widget and the pet, a form was saved over it.
ScreenIsRemembered ==
  command = NoCommand /\ "failed" \notin marred =>
    /\ Restored["main"] = onScreen["main"]
    /\ "overwrote" \notin marred => Restored = onScreen

\* "If Windows refuses, nothing is saved and the reported state stays truthful"
\* (pages.rs): whatever saves overlap, the stored choice and the startup entry
\* agree until a save has failed after Windows had accepted.
StartupIsRegistered ==
  [][registered = stored["startup"] /\ "failed" \notin marred'
       => registered' = stored'["startup"]]_settingVars

\* "The echoed value replaces the draft" (SettingsPage.tsx): when a page that was
\* left alone has no answer to wait for, it shows what is stored, and the widget
\* has the stored size.  Alone is: no two calls at a time, none that failed, and
\* nothing changed at the tray or in another window.
LonePageIsTruthful ==
  /\ form # NoForm /\ timer = NoForm /\ calls = {} /\ command = NoCommand
  /\ marred = {}
  => form = Loaded /\ sizeShown = stored["size"]

\* What is on the screen, what a page shows and what is stored agree at rest.
SettingsAgree ==
  /\ ScreenIsRemembered
  /\ LonePageIsTruthful

-----------------------------------------------------------------------------
(* What the code says of itself and does not do: see the README.            *)

\* "Closing the pet hides it, and is remembered" (windows.rs): a restart does not
\* bring back what was closed, whatever was changed in the Settings page since.
ClosingIsRemembered ==
  command = NoCommand /\ marred \cap {"failed", "refused"} = {} =>
    (Restored["pet"] => onScreen["pet"])
=============================================================================
