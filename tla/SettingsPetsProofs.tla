------------------------- MODULE SettingsPetsProofs -------------------------
(***************************************************************************)
(* Theorems about the stored settings, the windows and the Settings page,   *)
(* for any number of acts and of saves in flight; and about the installed   *)
(* pets, for any pets and packages, and for any order of imports, removals, *)
(* failures and kills.                                                      *)
(***************************************************************************)
EXTENDS SettingsWindows, PetStore, TLAPS

-----------------------------------------------------------------------------
(* The settings and the windows *)

LEMMA FieldFacts ==
  /\ ToSet(Fields) = {"startup", "opacity", "widget", "size", "pet"}
  /\ Len(Fields) = 5
  /\ \A k \in ToSet(Fields) : k \in ToSet(SubSeq(Fields, 1, 5))
  /\ \A n \in 0..5 : ToSet(SubSeq(Fields, 1, n)) \subseteq ToSet(Fields)
<1>1. /\ Len(Fields) = 5
      /\ Fields[1] = "startup" /\ Fields[2] = "opacity" /\ Fields[3] = "widget"
      /\ Fields[4] = "size" /\ Fields[5] = "pet"
  BY DEF Fields
<1>2. Fields \in Seq({"startup", "opacity", "widget", "size", "pet"})
  BY DEF Fields
<1>3. DOMAIN Fields = 1..5
  BY <1>1, <1>2
<1>4. ToSet(Fields) = {Fields[i] : i \in 1..5}
  BY <1>3 DEF ToSet
<1>5. ToSet(Fields) = {"startup", "opacity", "widget", "size", "pet"}
  BY <1>1, <1>4
<1>6. ASSUME NEW n \in 0..5
      PROVE  ToSet(SubSeq(Fields, 1, n)) = {Fields[i] : i \in 1..n}
  <2>1. DOMAIN SubSeq(Fields, 1, n) = 1..n /\ \A i \in 1..n : SubSeq(Fields, 1, n)[i] = Fields[i]
    BY <1>1, <1>2
  <2>2. QED
    BY <2>1 DEF ToSet
<1>7. QED
  BY <1>1, <1>4, <1>5, <1>6

LEMMA FormFacts ==
  /\ NoForm \notin Form
  /\ Keys = {"startup", "opacity", "widget", "size", "pet", "main"}
  /\ stored \in [Keys -> BOOLEAN] => Loaded \in Form
<1>1. NoForm \notin Form
  <2>1. SUFFICES ASSUME NoForm \in Form PROVE FALSE
    OBVIOUS
  <2>2. DOMAIN NoForm = ToSet(Fields) /\ DOMAIN NoForm = {"none"}
    BY <2>1 DEF Form, NoForm
  <2>3. QED
    BY <2>2, FieldFacts
<1>2. Keys = {"startup", "opacity", "widget", "size", "pet", "main"}
  BY FieldFacts DEF Keys, Windows
<1>3. QED
  BY <1>1, <1>2, FieldFacts DEF Loaded, Form

LEMMA CommandFacts ==
  /\ NoCommand \in Commands /\ NoCommand.op \notin {"persist", "hide"}
  /\ \A w \in Windows, v, p \in BOOLEAN :
       [op |-> "persist", window |-> w, shown |-> v, page |-> p] \in Commands
  /\ \A c \in Commands :
       /\ c.op = "persist" => c.window \in Windows /\ c.shown \in BOOLEAN
       /\ c = NoCommand <=> c.op \notin {"persist", "hide"}
<1>1. NoCommand.op = "none"
  BY DEF NoCommand
<1>2. QED
  BY <1>1 DEF Commands, NoCommand, Windows

\* What a save writes, of a form or of the first fields of it.
LEMMA WrittenFacts ==
  ASSUME stored \in [Keys -> BOOLEAN], NEW f \in Form, NEW n \in 0..Len(Fields)
  PROVE  /\ Written(f, n) \in [Keys -> BOOLEAN]
         /\ Written(f, n)["main"] = stored["main"]
         /\ ~Overwrites(f) => \A w \in Windows : Written(f, n)[w] = stored[w]
         /\ n = Len(Fields) => \A k \in ToSet(Fields) : Written(f, n)[k] = f[k]
<1>1. ASSUME NEW k \in Keys
      PROVE  Written(f, n)[k] = IF k \in ToSet(SubSeq(Fields, 1, n)) THEN f[k] ELSE stored[k]
  BY DEF Written
<1>2. \A k \in ToSet(Fields) : f[k] \in BOOLEAN
  BY DEF Form
<1>3. \A k \in Keys : Written(f, n)[k] \in BOOLEAN
  BY <1>1, <1>2, FieldFacts
<1>4. Written(f, n) \in [Keys -> BOOLEAN]
  BY <1>3 DEF Written
<1>5. QED
  BY <1>1, <1>4, FieldFacts, FormFacts DEF Overwrites, Windows

-----------------------------------------------------------------------------
(* Types *)

LEMMA InitTypes == SettingsInit => SettingsTypeOK
<1>1. [k \in Keys |-> k = "main"] \in [Keys -> BOOLEAN] /\ [w \in Windows |-> w = "main"] \in [Windows -> BOOLEAN]
  BY Zenon
<1>2. SUFFICES ASSUME SettingsInit PROVE SettingsTypeOK
  OBVIOUS
<1>3. stored \in [Keys -> BOOLEAN] /\ onScreen \in [Windows -> BOOLEAN]
  BY <1>1, <1>2, Zenon DEF SettingsInit
<1>4. registered = FALSE /\ sizeShown = FALSE /\ command \in Commands /\ form = NoForm
      /\ opened = NoForm /\ timer = NoForm /\ calls = {} /\ latest = 0
  BY <1>2, CommandFacts DEF SettingsInit
<1>5. QED
  BY <1>3, <1>4 DEF SettingsTypeOK

LEMMA SendTypes ==
  ASSUME SettingsTypeOK, NEW f \in Form, Send(f)
  PROVE  latest' \in Nat /\ \A c \in calls' : c \in Saves /\ c.seq <= latest' /\ (c.pc = "viewed" => c.echo \in Form)
<1>1. [seq |-> latest + 1, form |-> f, pc |-> "sent", echo |-> NoForm] \in Saves
  BY DEF Saves, SettingsTypeOK
<1>2. \A c \in calls : c.seq \in Nat
  BY DEF Saves, SettingsTypeOK
<1>3. QED
  BY <1>1, <1>2 DEF SettingsTypeOK, Send

LEMMA StepTypes == SettingsTypeOK /\ [SettingsNext]_settingVars => SettingsTypeOK'
<1> SUFFICES ASSUME SettingsTypeOK, [SettingsNext]_settingVars PROVE SettingsTypeOK'
  OBVIOUS
<1>0. /\ stored \in [Keys -> BOOLEAN] /\ onScreen \in [Windows -> BOOLEAN]
      /\ form \in Form \cup {NoForm} /\ timer \in Form \cup {NoForm} /\ opened \in Form \cup {NoForm}
      /\ NoForm \in {opened, form}
      /\ command \in Commands /\ latest \in Nat /\ registered \in BOOLEAN /\ sizeShown \in BOOLEAN
      /\ \A c \in calls : c \in Saves /\ c.seq <= latest /\ (c.pc = "viewed" => c.echo \in Form)
      /\ form = NoForm => timer = NoForm /\ latest = 0
  BY DEF SettingsTypeOK
<1>w. Windows \subseteq Keys /\ "size" \in Keys /\ "main" \in Windows /\ "widget" \in Windows
  BY FormFacts DEF Keys, Windows
<1>f. ASSUME NEW f \in Form, NEW k \in ToSet(Fields), NEW v \in BOOLEAN
      PROVE  f[k] \in BOOLEAN /\ [f EXCEPT ![k] = v] \in Form
  BY <1>f DEF Form
<1>k. {"startup", "opacity", "widget", "size"} \subseteq ToSet(Fields)
  BY FieldFacts
<1>1. ASSUME Restart PROVE SettingsTypeOK'
  BY <1>0, <1>1, <1>w, CommandFacts DEF Restart, Restored, SettingsTypeOK
<1>2. ASSUME NEW w \in Windows, NEW show \in BOOLEAN, Command(w, show) PROVE SettingsTypeOK'
  BY <1>0, <1>2, CommandFacts DEF Command, SettingsTypeOK
<1>3. ASSUME PageToggle PROVE SettingsTypeOK'
  <2>1. form \in Form
    BY <1>0, <1>3 DEF PageToggle
  <2>2. (~form["widget"]) \in BOOLEAN
    BY Zenon
  <2>3. QED
    BY <1>0, <1>3, <1>w, <2>1, <2>2, CommandFacts DEF PageToggle, SettingsTypeOK
<1>4. ASSUME Persist PROVE SettingsTypeOK'
  <2>1. command.window \in Windows /\ command.shown \in BOOLEAN
    BY <1>0, <1>4, CommandFacts DEF Persist
  <2>2. stored' \in [Keys -> BOOLEAN]
    BY <1>0, <1>4, <1>w, <2>1 DEF Persist
  <2>3. form' \in Form \cup {NoForm} /\ (form' = NoForm <=> form = NoForm)
    <3>1. CASE form # NoForm
      <4>1. form \in Form /\ [form EXCEPT !["widget"] = command.shown] \in Form
        BY <1>0, <1>f, <1>k, <2>1, <3>1
      <4>2. QED
        BY <1>4, <3>1, <4>1, FormFacts DEF Persist
    <3>2. CASE form = NoForm
      BY <1>4, <3>2 DEF Persist
    <3>3. QED
      BY <3>1, <3>2
  <2>4. QED
    BY <1>0, <1>4, <2>2, <2>3, CommandFacts DEF Persist, SettingsTypeOK
<1>5. ASSUME CloseMain PROVE SettingsTypeOK'
  <2>1. stored' \in [Keys -> BOOLEAN]
    BY <1>0, <1>5, <1>w DEF CloseMain
  <2>2. command' \in Commands
    BY <1>5 DEF CloseMain, Commands
  <2>3. QED
    BY <1>0, <1>5, <2>1, <2>2 DEF CloseMain, SettingsTypeOK
<1>6. ASSUME HideMain PROVE SettingsTypeOK'
  BY <1>0, <1>6, CommandFacts DEF HideMain, SettingsTypeOK
<1>7. ASSUME NEW w \in {"widget", "pet"}, CloseWindow(w) PROVE SettingsTypeOK'
  <2>1. w \in Windows
    BY DEF Windows
  <2>2. QED
    BY <1>0, <1>7, <2>1, CommandFacts DEF CloseWindow, SettingsTypeOK
<1>8. ASSUME NEW v \in BOOLEAN, SetSize(v) PROVE SettingsTypeOK'
  <2>1. form \in Form /\ [form EXCEPT !["size"] = v] \in Form
    BY <1>0, <1>8, <1>f, <1>k DEF SetSize
  <2>2. form' \in Form
    BY <1>8, <2>1 DEF SetSize
  <2>3. stored' \in [Keys -> BOOLEAN] /\ sizeShown' \in BOOLEAN
    BY <1>0, <1>8, <1>w DEF SetSize
  <2>4. QED
    BY <1>0, <1>8, <2>2, <2>3, FormFacts DEF SetSize, SettingsTypeOK
<1>9. ASSUME OpenPage PROVE SettingsTypeOK'
  BY <1>0, <1>9, FormFacts DEF OpenPage, PageIsOpen, SettingsTypeOK
<1>19. ASSUME ShowPage PROVE SettingsTypeOK'
  BY <1>0, <1>19, FormFacts DEF ShowPage, SettingsTypeOK
<1>10. ASSUME LeavePage PROVE SettingsTypeOK'
  <2>1. ASSUME NEW c \in calls' PROVE c \in Saves /\ c.seq <= 0 /\ (c.pc = "viewed" => c.echo \in Form)
    <3>1. CASE \E d \in calls : c = [d EXCEPT !.seq = 0]
      <4>1. PICK d \in calls : c = [d EXCEPT !.seq = 0]
        BY <3>1
      <4>2. d \in Saves /\ (d.pc = "viewed" => d.echo \in Form)
        BY <1>0
      <4>3. QED
        BY <4>1, <4>2 DEF Saves
    <3>2. CASE timer # NoForm /\ c = [seq |-> 0, form |-> timer, pc |-> "sent", echo |-> NoForm]
      BY <1>0, <3>2 DEF Saves
    <3>3. QED
      BY <1>10, <2>1, <3>1, <3>2 DEF LeavePage
  <2>2. QED
    BY <1>0, <1>10, <2>1 DEF LeavePage, SettingsTypeOK
<1>11. ASSUME Switch PROVE SettingsTypeOK'
  <2>1. form \in Form /\ [form EXCEPT !["startup"] = ~@] \in Form
    BY <1>0, <1>11, <1>f, <1>k DEF Switch
  <2>2. form' \in Form /\ Send(form')
    BY <1>11, <2>1 DEF Switch
  <2>3. QED
    BY <1>0, <1>11, <2>2, SendTypes, FormFacts DEF Switch, SettingsTypeOK
<1>12. ASSUME Slide PROVE SettingsTypeOK'
  <2>1. form \in Form /\ [form EXCEPT !["opacity"] = ~@] \in Form
    BY <1>0, <1>12, <1>f, <1>k DEF Slide
  <2>2. form' \in Form /\ timer' \in Form
    BY <1>12, <2>1 DEF Slide
  <2>3. QED
    BY <1>0, <1>12, <2>2, FormFacts DEF Slide, SettingsTypeOK
<1>13. ASSUME Settled PROVE SettingsTypeOK'
  <2>1. timer \in Form /\ Send(timer)
    BY <1>0, <1>13 DEF Settled
  <2>2. form # NoForm
    BY <1>0, <1>13 DEF Settled
  <2>3. QED
    BY <1>0, <1>13, <2>1, <2>2, SendTypes DEF Settled, SettingsTypeOK
<1>14. ASSUME NEW c \in calls, Save(c) PROVE SettingsTypeOK'
  <2>1. c \in Saves /\ c.form \in Form
    BY <1>0 DEF Saves
  <2>2. \A d \in calls' : d \in Saves /\ d.seq <= latest /\ (d.pc = "viewed" => d.echo \in Form)
    <3>1. \A p \in {"failed", "saved"} :
            [c EXCEPT !.pc = p] \in Saves /\ [c EXCEPT !.pc = p].seq = c.seq /\ [c EXCEPT !.pc = p].pc = p
      BY <2>1 DEF Saves
    <3>2. PICK p \in {"failed", "saved"} : calls' = (calls \ {c}) \cup {[c EXCEPT !.pc = p]}
      BY <1>14 DEF Save
    <3>3. QED
      BY <1>0, <3>1, <3>2
  <2>3. stored' \in [Keys -> BOOLEAN] /\ registered' \in BOOLEAN
    <3>1. c.form["startup"] \in BOOLEAN
      BY <1>f, <1>k, <2>1
    <3>2. \A n \in 0..Len(Fields) : Written(c.form, n) \in [Keys -> BOOLEAN]
      BY <1>0, <2>1, WrittenFacts
    <3>3. QED
      BY <1>0, <1>14, <3>1, <3>2 DEF Save
  <2>4. QED
    BY <1>0, <1>14, <2>2, <2>3 DEF Save, SettingsTypeOK
<1>15. ASSUME NEW c \in calls, View(c) PROVE SettingsTypeOK'
  <2> DEFINE d == [c EXCEPT !.pc = "viewed", !.echo = Loaded]
  <2> DEFINE e == [c EXCEPT !.pc = "failed"]
  <2>1. c \in Saves /\ Loaded \in Form
    BY <1>0, FormFacts
  <2>2. d \in Saves /\ d.seq = c.seq /\ d.echo \in Form /\ e \in Saves /\ e.seq = c.seq /\ e.pc = "failed"
    BY <2>1 DEF Saves
  <2>3. calls' = (calls \ {c}) \cup {d} \/ calls' = (calls \ {c}) \cup {e}
    BY <1>15 DEF View
  <2>4. QED
    BY <1>0, <1>15, <2>2, <2>3 DEF View, SettingsTypeOK
<1>16. ASSUME NEW c \in calls, Echo(c) PROVE SettingsTypeOK'
  <2>1. form' \in Form \cup {NoForm} /\ (form' = NoForm => form = NoForm) /\ (form = NoForm => form' = NoForm)
    BY <1>0, <1>16, FormFacts DEF Echo
  <2>2. sizeShown' \in BOOLEAN
    BY <1>0, <1>16, <1>w DEF Echo
  <2>3. QED
    BY <1>0, <1>16, <2>1, <2>2 DEF Echo, SettingsTypeOK
<1>17. CASE UNCHANGED settingVars
  BY <1>17 DEF settingVars, SettingsTypeOK
<1>18. QED
  BY <1>19, <1>1, <1>2, <1>3, <1>4, <1>5, <1>6, <1>7, <1>8, <1>9, <1>10, <1>11, <1>12, <1>13, <1>14, <1>15, <1>16, <1>17
  DEF SettingsNext

LEMMA TypesAlways == SettingsSpec => []SettingsTypeOK
<1>1. QED
  BY InitTypes, StepTypes, PTL DEF SettingsSpec



-----------------------------------------------------------------------------
(* The startup entry *)

\* A save that writes fewer fields than there are fails.
LEMMA RegisteredSteps ==
  SettingsTypeOK /\ [SettingsNext]_settingVars
    => (registered = stored["startup"] /\ "failed" \notin marred'
          => registered' = stored'["startup"])
<1> SUFFICES ASSUME SettingsTypeOK, [SettingsNext]_settingVars,
                    registered = stored["startup"], "failed" \notin marred'
             PROVE  registered' = stored'["startup"]
  OBVIOUS
<1>0. stored \in [Keys -> BOOLEAN] /\ command \in Commands /\ \A c \in calls : c \in Saves
  BY DEF SettingsTypeOK
<1>1. ASSUME Persist PROVE registered' = stored'["startup"]
  <2>1. command.window \in Windows /\ command.window # "startup"
    BY <1>0, <1>1, CommandFacts DEF Persist, Windows
  <2>2. stored'["startup"] = stored["startup"]
    BY <1>0, <1>1, <2>1, FormFacts DEF Persist
  <2>3. QED
    BY <1>1, <2>2 DEF Persist
<1>2. ASSUME CloseMain PROVE registered' = stored'["startup"]
  BY <1>0, <1>2, FormFacts DEF CloseMain
<1>3. ASSUME NEW v \in BOOLEAN, SetSize(v) PROVE registered' = stored'["startup"]
  BY <1>0, <1>3, FormFacts DEF SetSize
<1>4. ASSUME NEW c \in calls, Save(c) PROVE registered' = stored'["startup"]
  <2>1. CASE UNCHANGED <<stored, registered>>
    BY <2>1
  <2>2. CASE stored' = Written(c.form, Len(Fields)) /\ registered' = c.form["startup"]
    <3>1. c.form \in Form
      BY <1>0 DEF Saves
    <3>2. "startup" \in ToSet(Fields) /\ Len(Fields) \in 0..Len(Fields)
      BY FieldFacts
    <3>3. QED
      BY <1>0, <2>2, <3>1, <3>2, WrittenFacts
  <2>3. CASE \E n \in 0..Len(Fields) : n < Len(Fields) /\ "failed" \in marred'
    BY <2>3
  <2>4. QED
    BY <1>4, <2>1, <2>2, <2>3, FieldFacts DEF Save
<1>5. CASE UNCHANGED <<stored, registered>>
  BY <1>5
<1>6. QED
  BY <1>1, <1>2, <1>3, <1>4, <1>5
  DEF SettingsNext, settingVars, Restart, Command, PageToggle, HideMain, CloseWindow, OpenPage,
      ShowPage, LeavePage, Switch, Slide, Settled, View, Echo

\* "If Windows refuses, nothing is saved and the reported state stays truthful"
\* (pages.rs): no step parts the stored choice from the startup entry, however many
\* saves overlap, unless a write has failed.
THEOREM StartupStaysRegistered == SettingsSpec => StartupIsRegistered
<1>1. QED
  BY TypesAlways, RegisteredSteps, PTL DEF SettingsSpec, StartupIsRegistered

-----------------------------------------------------------------------------
(* What is on the screen is remembered *)

\* What is stored for a window, seen from where its command has got to.
Remembered(w) ==
  IF command.op = "persist" /\ command.window = w THEN onScreen[w] = command.shown
  ELSE IF command.op = "hide" /\ w = "main" THEN stored["main"] = FALSE
  ELSE stored[w] = onScreen[w]

\* The screen and the settings differ only where a command is half done.
ScreenInv ==
  "failed" \notin marred =>
    /\ Remembered("main")
    /\ "overwrote" \notin marred => \A w \in Windows : Remembered(w)

\* A step in which nothing Remembered is about changes, and after which no less
\* has gone wrong.
LEMMA ScreenKept ==
  ASSUME ScreenInv, UNCHANGED <<stored, onScreen, command>>, marred \subseteq marred'
  PROVE  ScreenInv'
<1>1. \A w : Remembered(w)' <=> Remembered(w)
  BY DEF Remembered
<1>2. QED
  BY <1>1 DEF ScreenInv

\* A window's command begins: the window first.
LEMMA CommandBegins ==
  ASSUME SettingsTypeOK, ScreenInv, NEW v \in Windows, NEW shown, NEW page, command = NoCommand,
         command' = [op |-> "persist", window |-> v, shown |-> shown, page |-> page],
         onScreen' = [onScreen EXCEPT ![v] = shown], stored' = stored, marred \subseteq marred'
  PROVE  ScreenInv'
<1>1. NoCommand.op \notin {"persist", "hide"}
  BY CommandFacts
<1>2. onScreen \in [Windows -> BOOLEAN] /\ "main" \in Windows
  BY DEF SettingsTypeOK, Windows
<1>3. \A w \in Windows : Remembered(w) => Remembered(w)'
  BY <1>1, <1>2 DEF Remembered
<1>4. QED
  BY <1>2, <1>3 DEF ScreenInv

LEMMA StepScreen ==
  SettingsTypeOK /\ ScreenInv /\ [SettingsNext]_settingVars => ScreenInv'
<1> SUFFICES ASSUME SettingsTypeOK, ScreenInv, [SettingsNext]_settingVars PROVE ScreenInv'
  OBVIOUS
<1>0. /\ stored \in [Keys -> BOOLEAN] /\ onScreen \in [Windows -> BOOLEAN] /\ command \in Commands
      /\ \A c \in calls : c \in Saves
  BY DEF SettingsTypeOK
<1>c. NoCommand.op \notin {"persist", "hide"}
  BY CommandFacts
<1>w. Windows \subseteq Keys /\ Windows = {"main", "widget", "pet"}
  BY DEF Keys, Windows
<1>1. ASSUME Restart PROVE ScreenInv'
  <2>1. command' = NoCommand /\ stored' = stored /\ \A w \in Windows : onScreen'[w] = stored[w]
    BY <1>1 DEF Restart, Restored
  <2>2. \A w \in Windows : Remembered(w)'
    BY <1>c, <2>1 DEF Remembered
  <2>3. QED
    BY <1>w, <2>2 DEF ScreenInv
<1>2. ASSUME NEW w \in Windows, NEW show \in BOOLEAN, Command(w, show) PROVE ScreenInv'
  BY <1>2, CommandBegins DEF Command
<1>3. ASSUME PageToggle PROVE ScreenInv'
  BY <1>3, <1>w, CommandBegins DEF PageToggle
<1>4. ASSUME NEW w \in {"widget", "pet"}, CloseWindow(w) PROVE ScreenInv'
  BY <1>4, <1>w, CommandBegins DEF CloseWindow
<1>5. ASSUME Persist PROVE ScreenInv'
  <2>1. CASE "failed" \in marred'
    BY <2>1 DEF ScreenInv
  <2>2. CASE stored' = [stored EXCEPT ![command.window] = command.shown] /\ marred' = marred
    <3>1. command.window \in Windows /\ command.op = "persist" /\ command' = NoCommand /\ onScreen' = onScreen
      BY <1>0, <1>5, CommandFacts DEF Persist
    <3>2. \A w \in Windows : Remembered(w) => Remembered(w)'
      BY <1>0, <1>c, <1>w, <2>2, <3>1 DEF Remembered
    <3>3. QED
      BY <1>w, <2>2, <3>2 DEF ScreenInv
  <2>3. QED
    BY <1>5, <2>1, <2>2 DEF Persist
<1>6. ASSUME CloseMain PROVE ScreenInv'
  <2>1. CASE "failed" \in marred'
    BY <2>1 DEF ScreenInv
  <2>2. CASE stored' = [stored EXCEPT !["main"] = FALSE] /\ marred' = marred
    <3>1. \A w \in Windows : Remembered(w) => Remembered(w)'
      BY <1>0, <1>c, <1>w, <1>6, <2>2 DEF CloseMain, Remembered
    <3>2. QED
      BY <1>w, <2>2, <3>1 DEF ScreenInv
  <2>3. QED
    BY <1>6, <2>1, <2>2 DEF CloseMain
<1>7. ASSUME HideMain PROVE ScreenInv'
  <2>1. \A w \in Windows : Remembered(w) => Remembered(w)'
    BY <1>0, <1>c, <1>w, <1>7 DEF HideMain, Remembered
  <2>2. QED
    BY <1>7, <1>w, <2>1 DEF HideMain, ScreenInv
<1>8. ASSUME NEW v \in BOOLEAN, SetSize(v) PROVE ScreenInv'
  <2>1. command' = command /\ onScreen' = onScreen /\ marred \subseteq marred'
        /\ \A w \in Windows : stored'[w] = stored[w]
    BY <1>0, <1>w, <1>8 DEF SetSize
  <2>2. \A w \in Windows : Remembered(w) => Remembered(w)'
    BY <1>w, <2>1 DEF Remembered
  <2>3. QED
    BY <1>w, <2>1, <2>2 DEF ScreenInv
<1>9. ASSUME NEW c \in calls, Save(c) PROVE ScreenInv'
  <2>1. command' = command /\ onScreen' = onScreen /\ marred \subseteq marred'
    BY <1>9 DEF Save
  <2>2. CASE stored' = stored
    BY <2>1, <2>2, ScreenKept
  <2>3. ASSUME NEW n \in 0..Len(Fields), stored' = Written(c.form, n),
               Overwrites(c.form) => "overwrote" \in marred'
        PROVE  ScreenInv'
    <3>1. c.form \in Form
      BY <1>0 DEF Saves
    <3>2. stored'["main"] = stored["main"]
          /\ ("overwrote" \notin marred' => \A w \in Windows : stored'[w] = stored[w])
      BY <1>0, <2>3, <3>1, WrittenFacts
    <3>3. Remembered("main") => Remembered("main")'
      BY <2>1, <3>2 DEF Remembered
    <3>4. "overwrote" \notin marred' => \A w \in Windows : Remembered(w) => Remembered(w)'
      BY <2>1, <3>2, <1>w DEF Remembered
    <3>5. QED
      BY <2>1, <3>3, <3>4 DEF ScreenInv
  <2>4. QED
    BY <1>9, <2>2, <2>3 DEF Save
<1>10. ASSUME UNCHANGED <<stored, onScreen, command>>, marred \subseteq marred' PROVE ScreenInv'
  BY <1>10, ScreenKept
<1>11. ASSUME OpenPage \/ ShowPage \/ LeavePage \/ Switch \/ Slide \/ Settled PROVE ScreenInv'
  BY <1>10, <1>11 DEF OpenPage, ShowPage, LeavePage, Switch, Slide, Settled, Send
<1>12. ASSUME NEW c \in calls, View(c) \/ Echo(c) PROVE ScreenInv'
  BY <1>10, <1>12 DEF View, Echo
<1>13. CASE UNCHANGED settingVars
  BY <1>10, <1>13 DEF settingVars
<1>14. QED
  BY <1>1, <1>2, <1>3, <1>4, <1>5, <1>6, <1>7, <1>8, <1>9, <1>11, <1>12, <1>13 DEF SettingsNext

\* "Closing the widget is the same as hiding it, and is remembered" (windows.rs):
\* between two commands a restart shows what is on the screen, whatever commands,
\* saves and restarts came before, unless a write failed or, for the widget and the
\* pet, a form was saved over it.
THEOREM ScreenStaysRemembered == SettingsSpec => []ScreenIsRemembered
<1>1. SettingsInit => ScreenInv
  <2> SUFFICES ASSUME SettingsInit PROVE ScreenInv
    OBVIOUS
  <2>1. \A w \in Windows : stored[w] = onScreen[w]
    BY DEF SettingsInit, Keys
  <2>2. command.op \notin {"persist", "hide"} /\ "main" \in Windows
    BY CommandFacts DEF SettingsInit, Windows
  <2>3. QED
    BY <2>1, <2>2 DEF ScreenInv, Remembered
<1>2. SettingsTypeOK /\ ScreenInv => ScreenIsRemembered
  <2> SUFFICES ASSUME SettingsTypeOK, ScreenInv, command = NoCommand, "failed" \notin marred
               PROVE  /\ Restored["main"] = onScreen["main"]
                      /\ "overwrote" \notin marred => Restored = onScreen
    BY DEF ScreenIsRemembered
  <2>1. \A w \in Windows : Remembered(w) => Restored[w] = onScreen[w]
    BY CommandFacts DEF Remembered, Restored
  <2>2. onScreen \in [Windows -> BOOLEAN] /\ Restored = [w \in Windows |-> Restored[w]] /\ "main" \in Windows
    BY DEF SettingsTypeOK, Restored, Windows
  <2>3. QED
    BY <2>1, <2>2 DEF ScreenInv
<1>3. QED
  BY TypesAlways, StepScreen, <1>1, <1>2, PTL DEF SettingsSpec

-----------------------------------------------------------------------------
(* A page that is left alone *)

\* While nothing has gone wrong: no save has failed; the widget has the stored size
\* when no save is in flight; a page that is loading was answered what is stored; and
\* an open page has at most one save in flight, the
\* latest, whose answer is what is stored, and shows what is stored when it has
\* none, and nothing else writes what it shows.
OpenPageInv ==
  /\ \A c, d \in calls : c = d
  /\ \A c \in calls : c.seq = latest /\ c.seq > 0 /\ (c.pc = "viewed" => c.echo = Loaded)
  /\ command.op = "persist" =>
       \/ command.window = "main" /\ ~command.page
       \/ command.window = "widget" /\ command.page /\ calls = {}
  /\ timer = NoForm /\ calls = {} => form = Loaded

LoadingInv ==
  /\ opened = Loaded /\ calls = {}
  /\ command.op = "persist" => command.window = "main" /\ ~command.page

PageInv ==
  marred = {} =>
    /\ \A c \in calls : c.pc # "failed"
    /\ calls = {} => sizeShown = stored["size"]
    /\ opened # NoForm => LoadingInv
    /\ form # NoForm => OpenPageInv

\* Loaded after stored has changed in one key, or in none that a form has.
LEMMA LoadedSteps ==
  ASSUME stored \in [Keys -> BOOLEAN], NEW k \in Keys, NEW v \in BOOLEAN,
         stored' = [stored EXCEPT ![k] = v]
  PROVE  /\ k = "main" => Loaded' = Loaded
         /\ k \in ToSet(Fields) => Loaded' = [Loaded EXCEPT ![k] = v]
<1>1. \A l \in ToSet(Fields) : l \in Keys /\ l # "main"
  BY FieldFacts DEF Keys
<1>2. \A l \in Keys : stored'[l] = IF l = k THEN v ELSE stored[l]
  OBVIOUS
<1>3. Loaded = [l \in ToSet(Fields) |-> stored[l]] /\ Loaded' = [l \in ToSet(Fields) |-> stored'[l]]
  BY DEF Loaded
<1>4. QED
  BY <1>1, <1>2, <1>3

\* One more save, of a page that is alone.
LEMMA SendPage ==
  ASSUME SettingsTypeOK, PageInv, form # NoForm, NEW f, Send(f),
         UNCHANGED <<stored, sizeShown, command, opened>>
  PROVE  PageInv'
<1> SUFFICES ASSUME marred' = {} PROVE PageInv'
  BY DEF PageInv
<1> DEFINE new == [seq |-> latest + 1, form |-> f, pc |-> "sent", echo |-> NoForm]
<1>1. marred = {} /\ calls = {} /\ command = NoCommand /\ calls' = {new} /\ latest' = latest + 1 /\ latest \in Nat
  BY DEF Send, SettingsTypeOK
<1>2. new.pc = "sent" /\ new.seq = latest' /\ new.seq > 0
  BY <1>1
<1>3. NoCommand.op # "persist"
  BY CommandFacts
<1>4. opened' = NoForm
  BY DEF SettingsTypeOK
<1>5. QED
  BY <1>1, <1>2, <1>3, <1>4 DEF PageInv, OpenPageInv

\* A command begins: of the dashboard, of the page, or the page is not open.
LEMMA CommandPage ==
  ASSUME PageInv, NEW w, NEW shown, NEW page,
         command' = [op |-> "persist", window |-> w, shown |-> shown, page |-> page],
         UNCHANGED <<stored, sizeShown, opened, form, timer, calls, latest>>, marred \subseteq marred',
         marred' = {} => \/ w = "main" /\ ~page
                         \/ w = "widget" /\ page /\ calls = {} /\ opened = NoForm
                         \/ ~PageIsOpen
  PROVE  PageInv'
<1>1. Loaded' = Loaded
  BY DEF Loaded
<1>2. QED
  BY <1>1 DEF PageInv, OpenPageInv, LoadingInv, PageIsOpen

LEMMA StepPage ==
  SettingsTypeOK /\ PageInv /\ [SettingsNext]_settingVars => PageInv'
<1> SUFFICES ASSUME SettingsTypeOK, PageInv, [SettingsNext]_settingVars, marred' = {} PROVE PageInv'
  BY DEF PageInv
<1>0. /\ stored \in [Keys -> BOOLEAN] /\ form \in Form \cup {NoForm} /\ timer \in Form \cup {NoForm}
      /\ command \in Commands /\ latest \in Nat /\ NoForm \in {opened, form}
      /\ \A c \in calls : c \in Saves
  BY DEF SettingsTypeOK
<1>p. marred = {} => /\ \A c \in calls : c.pc # "failed"
                     /\ calls = {} => sizeShown = stored["size"]
                     /\ opened # NoForm => LoadingInv
                     /\ form # NoForm => OpenPageInv
  BY DEF PageInv
<1>c. NoCommand.op \notin {"persist", "hide"}
  BY CommandFacts
<1>k. "size" \in ToSet(Fields) /\ "widget" \in ToSet(Fields) /\ ToSet(Fields) \subseteq Keys
      /\ "main" \in Keys /\ "main" \notin ToSet(Fields) /\ NoForm \notin Form /\ Loaded \in Form
  BY <1>0, FieldFacts, FormFacts DEF Keys
<1>1. ASSUME Restart PROVE PageInv'
  BY <1>1 DEF Restart, PageInv
<1>2. ASSUME NEW w \in Windows, NEW show \in BOOLEAN, Command(w, show) PROVE PageInv'
  <2>1. marred' = {} => w = "main" \/ ~PageIsOpen
    BY <1>2 DEF Command
  <2>2. QED
    BY <1>2, <2>1, CommandPage DEF Command
<1>3. ASSUME PageToggle PROVE PageInv'
  <2>1. calls = {} /\ opened = NoForm
    BY <1>0, <1>3 DEF PageToggle
  <2>2. QED
    BY <1>3, <2>1, CommandPage DEF PageToggle
<1>4. ASSUME NEW w \in {"widget", "pet"}, CloseWindow(w) PROVE PageInv'
  <2>1. ~PageIsOpen
    BY <1>4 DEF CloseWindow
  <2>2. QED
    BY <1>4, <2>1, CommandPage DEF CloseWindow
<1>5. ASSUME Persist PROVE PageInv'
  <2>1. /\ marred = {} /\ stored' = [stored EXCEPT ![command.window] = command.shown]
        /\ form' = (IF command.page /\ form # NoForm
                    THEN [form EXCEPT !["widget"] = command.shown] ELSE form)
        /\ command' = NoCommand /\ UNCHANGED <<sizeShown, opened, timer, calls, latest>>
    BY <1>5 DEF Persist
  <2>2. command.window \in Windows /\ command.window \in Keys /\ command.shown \in BOOLEAN
        /\ command.op = "persist"
    BY <1>0, <1>5, CommandFacts DEF Persist, Keys
  <2>3. stored'["size"] = stored["size"]
    BY <1>0, <1>k, <2>1, <2>2 DEF Windows
  <2>8. opened # NoForm => LoadingInv'
    <3>1. SUFFICES ASSUME opened # NoForm PROVE LoadingInv'
      OBVIOUS
    <3>2. command.window = "main"
      BY <1>p, <2>1, <2>2, <3>1 DEF LoadingInv
    <3>3. Loaded' = Loaded
      BY <1>0, <2>1, <2>2, <3>2, LoadedSteps
    <3>4. QED
      BY <1>c, <1>p, <2>1, <3>1, <3>3 DEF LoadingInv
  <2>4. CASE form = NoForm
    BY <1>p, <2>1, <2>3, <2>4, <2>8 DEF PageInv
  <2>5. CASE form # NoForm /\ command.window = "main" /\ ~command.page
    <3>1. Loaded' = Loaded
      BY <1>0, <2>1, <2>2, <2>5, LoadedSteps
    <3>2. OpenPageInv'
      BY <1>c, <1>p, <2>1, <2>5, <3>1 DEF OpenPageInv
    <3>3. QED
      BY <1>p, <2>1, <2>3, <2>8, <3>2 DEF PageInv
  <2>6. CASE form # NoForm /\ command.window = "widget" /\ command.page /\ calls = {}
    <3>1. Loaded' = [Loaded EXCEPT !["widget"] = command.shown]
      BY <1>0, <1>k, <2>1, <2>2, <2>6, LoadedSteps
    <3>2. OpenPageInv'
      BY <1>c, <1>p, <2>1, <2>6, <3>1 DEF OpenPageInv
    <3>3. QED
      BY <1>p, <2>1, <2>3, <2>8, <3>2 DEF PageInv
  <2>7. QED
    BY <1>p, <2>1, <2>2, <2>4, <2>5, <2>6 DEF OpenPageInv
<1>6. ASSUME CloseMain PROVE PageInv'
  <2>1. marred = {} /\ stored' = [stored EXCEPT !["main"] = FALSE]
        /\ command' = [op |-> "hide"] /\ UNCHANGED <<sizeShown, opened, form, timer, calls, latest>>
    BY <1>6 DEF CloseMain
  <2>2. Loaded' = Loaded /\ stored'["size"] = stored["size"]
    BY <1>0, <1>k, <2>1, LoadedSteps
  <2>3. form # NoForm => OpenPageInv'
    BY <1>p, <2>1, <2>2 DEF OpenPageInv
  <2>4. opened # NoForm => LoadingInv'
    BY <1>p, <2>1, <2>2 DEF LoadingInv
  <2>5. QED
    BY <1>p, <2>1, <2>2, <2>3, <2>4 DEF PageInv
<1>7. ASSUME HideMain PROVE PageInv'
  <2>1. command' = NoCommand /\ UNCHANGED <<stored, sizeShown, opened, form, timer, calls, latest, marred>>
    BY <1>7 DEF HideMain
  <2>2. Loaded' = Loaded
    BY <2>1 DEF Loaded
  <2>3. form # NoForm => OpenPageInv'
    BY <1>c, <1>p, <2>1, <2>2 DEF OpenPageInv
  <2>4. opened # NoForm => LoadingInv'
    BY <1>c, <1>p, <2>1, <2>2 DEF LoadingInv
  <2>5. QED
    BY <1>p, <2>1, <2>3, <2>4 DEF PageInv
<1>8. ASSUME NEW v \in BOOLEAN, SetSize(v) PROVE PageInv'
  <2>1. /\ marred = {} /\ calls = {} /\ timer = NoForm /\ form # NoForm /\ command = NoCommand
        /\ stored' = [stored EXCEPT !["size"] = v] /\ sizeShown' = v
        /\ form' = [form EXCEPT !["size"] = v] /\ opened' = NoForm
        /\ UNCHANGED <<command, timer, calls, latest>>
    BY <1>0, <1>8 DEF SetSize
  <2>2. Loaded' = [Loaded EXCEPT !["size"] = v] /\ stored'["size"] = v
    BY <1>0, <1>k, <2>1, LoadedSteps
  <2>3. OpenPageInv'
    BY <1>c, <1>p, <2>1, <2>2 DEF OpenPageInv
  <2>4. QED
    BY <2>1, <2>2, <2>3 DEF PageInv
<1>9. ASSUME OpenPage PROVE PageInv'
  <2>1. /\ marred = {} /\ calls = {} /\ command = NoCommand /\ opened' = Loaded /\ form' = NoForm
        /\ UNCHANGED <<stored, sizeShown, command, timer, calls, latest>>
    BY <1>9 DEF OpenPage, PageIsOpen
  <2>2. Loaded' = Loaded
    BY <2>1 DEF Loaded
  <2>3. LoadingInv'
    BY <1>c, <2>1, <2>2 DEF LoadingInv
  <2>4. QED
    BY <1>p, <2>1, <2>3 DEF PageInv
<1>19. ASSUME ShowPage PROVE PageInv'
  <2>1. /\ marred = {} /\ opened # NoForm /\ form' = opened /\ opened' = NoForm
        /\ UNCHANGED <<stored, sizeShown, command, timer, calls, latest>>
    BY <1>19 DEF ShowPage
  <2>2. LoadingInv /\ Loaded' = Loaded
    BY <1>p, <2>1 DEF Loaded
  <2>3. OpenPageInv'
    BY <2>1, <2>2 DEF LoadingInv, OpenPageInv
  <2>4. QED
    BY <1>p, <2>1, <2>2, <2>3 DEF PageInv, LoadingInv
<1>10. ASSUME LeavePage PROVE PageInv'
  <2>1. marred = {} /\ form' = NoForm /\ opened' = NoForm /\ UNCHANGED <<stored, sizeShown>>
    BY <1>10 DEF LeavePage
  <2>2. \A c \in calls' : c.pc # "failed"
    <3>1. \A d \in calls : [d EXCEPT !.seq = 0].pc # "failed"
      BY <1>0, <1>p, <2>1 DEF Saves
    <3>2. [seq |-> 0, form |-> timer, pc |-> "sent", echo |-> NoForm].pc # "failed"
      OBVIOUS
    <3>3. ASSUME NEW c \in calls' PROVE c.pc # "failed"
      <4>1. CASE \E d \in calls : c = [d EXCEPT !.seq = 0]
        BY <3>1, <4>1
      <4>2. CASE c = [seq |-> 0, form |-> timer, pc |-> "sent", echo |-> NoForm]
        BY <3>2, <4>2
      <4>3. QED
        BY <1>10, <3>3, <4>1, <4>2 DEF LeavePage
    <3>4. QED
      BY <3>3
  <2>3. calls' = {} => calls = {}
    BY <1>10 DEF LeavePage
  <2>4. QED
    BY <1>p, <2>1, <2>2, <2>3 DEF PageInv
<1>11. ASSUME Switch PROVE PageInv'
  BY <1>11, SendPage DEF Switch
<1>12. ASSUME Slide PROVE PageInv'
  <2>1. form \in Form /\ timer' = form' /\ form' = [form EXCEPT !["opacity"] = ~@]
        /\ opened' = NoForm /\ UNCHANGED <<stored, sizeShown, command, calls, latest, marred>>
    BY <1>0, <1>12, FormFacts DEF Slide
  <2>2. form' # NoForm /\ Loaded' = Loaded
    BY <1>k, <2>1, FieldFacts DEF Form, Loaded, NoForm
  <2>3. OpenPageInv'
    BY <1>k, <1>p, <2>1, <2>2 DEF OpenPageInv
  <2>4. QED
    BY <1>p, <2>1, <2>3 DEF PageInv
<1>13. ASSUME Settled PROVE PageInv'
  BY <1>13, SendPage DEF Settled, SettingsTypeOK
<1>14. ASSUME NEW c \in calls, Save(c) PROVE PageInv'
  <2> DEFINE d == [c EXCEPT !.pc = "saved"]
  <2>1. /\ marred = {} /\ calls' = (calls \ {c}) \cup {d}
        /\ UNCHANGED <<sizeShown, opened, form, timer, latest, command>>
    BY <1>14 DEF Save
  <2>2. d.pc = "saved" /\ d.seq = c.seq
    BY <1>0 DEF Saves
  <2>3. form # NoForm => OpenPageInv'
    <3>1. form # NoForm => calls' = {d} /\ calls # {}
      BY <1>p, <2>1 DEF OpenPageInv
    <3>2. QED
      BY <1>p, <2>1, <2>2, <3>1 DEF OpenPageInv
  <2>4. \A e \in calls' : e.pc # "failed"
    BY <1>p, <2>1, <2>2
  <2>5. opened = NoForm /\ calls' # {}
    BY <1>p, <2>1 DEF LoadingInv
  <2>6. QED
    BY <2>1, <2>3, <2>4, <2>5 DEF PageInv
<1>15. ASSUME NEW c \in calls, View(c) PROVE PageInv'
  <2> DEFINE d == [c EXCEPT !.pc = "viewed", !.echo = Loaded]
  <2>1. /\ marred = {} /\ calls' = (calls \ {c}) \cup {d}
        /\ UNCHANGED <<stored, sizeShown, opened, form, timer, latest, command>>
    BY <1>15 DEF View
  <2>2. d.pc = "viewed" /\ d.seq = c.seq /\ d.echo = Loaded /\ Loaded' = Loaded
    BY <1>0, <2>1 DEF Saves, Loaded
  <2>3. form # NoForm => OpenPageInv'
    <3>1. form # NoForm => calls' = {d} /\ calls # {}
      BY <1>p, <2>1 DEF OpenPageInv
    <3>2. QED
      BY <1>p, <2>1, <2>2, <3>1 DEF OpenPageInv
  <2>4. \A e \in calls' : e.pc # "failed"
    BY <1>p, <2>1, <2>2
  <2>5. opened = NoForm /\ calls' # {}
    BY <1>p, <2>1 DEF LoadingInv
  <2>6. QED
    BY <2>1, <2>3, <2>4, <2>5 DEF PageInv
<1>16. ASSUME NEW c \in calls, Echo(c) PROVE PageInv'
  <2>1. /\ marred = {} /\ calls' = calls \ {c} /\ c.pc = "viewed" /\ sizeShown' = stored["size"]
        /\ form' = (IF c.seq = latest /\ c.seq > 0 THEN c.echo ELSE form)
        /\ opened' = NoForm /\ UNCHANGED <<stored, timer, latest, command>>
    BY <1>16, <1>p DEF Echo, LoadingInv
  <2>2. CASE form = NoForm
    <3>1. latest = 0
      BY <2>2 DEF SettingsTypeOK
    <3>2. form' = NoForm
      BY <2>1, <2>2, <3>1
    <3>3. QED
      BY <1>p, <2>1, <3>2 DEF PageInv
  <2>3. CASE form # NoForm
    <3>1. form' = Loaded /\ calls' = {} /\ Loaded' = Loaded
      BY <1>p, <2>1, <2>3 DEF OpenPageInv, Loaded
    <3>2. OpenPageInv'
      BY <1>p, <2>1, <2>3, <3>1 DEF OpenPageInv
    <3>3. QED
      BY <2>1, <3>1, <3>2 DEF PageInv
  <2>4. QED
    BY <2>2, <2>3
<1>17. CASE UNCHANGED settingVars
  BY <1>17 DEF settingVars, PageInv, OpenPageInv, LoadingInv, Loaded
<1>18. QED
  BY <1>19, <1>1, <1>2, <1>3, <1>4, <1>5, <1>6, <1>7, <1>8, <1>9, <1>10, <1>11, <1>12, <1>13, <1>14, <1>15, <1>16, <1>17
  DEF SettingsNext

\* "The echoed value replaces the draft" (SettingsPage.tsx): however many changes
\* came one after the other, a page that was left alone and waits for nothing shows
\* what is stored, and the widget has the stored size.
THEOREM LonePageStaysTruthful == SettingsSpec => []LonePageIsTruthful
<1>1. SettingsInit => PageInv
  BY FormFacts DEF SettingsInit, PageInv, Keys
<1>2. PageInv => LonePageIsTruthful
  BY DEF PageInv, OpenPageInv, LonePageIsTruthful
<1>3. QED
  BY TypesAlways, StepPage, <1>1, <1>2, PTL DEF SettingsSpec

\* The windows, the open page and the settings agree whenever nothing is under way.
THEOREM SettingsStayAgreed == SettingsSpec => []SettingsAgree
<1>1. ScreenIsRemembered /\ LonePageIsTruthful => SettingsAgree
  BY DEF SettingsAgree
<1>2. QED
  BY ScreenStaysRemembered, LonePageStaysTruthful, <1>1, PTL

-----------------------------------------------------------------------------
(* The pets: jobs and directories *)

USE PetAssumption

\* What a job is follows from its step.
LEMMA JobOfStep ==
  ASSUME job \in Jobs
  PROVE  /\ job.op \in InstallOps <=> job \in Installs
         /\ job.op \in {"remove", "reset"} <=> job \in Removals
         /\ job.op = "rest" <=> job = Rest
         /\ job.op = "seed" <=> job = Seeding
         /\ job.op = "marked" <=> job = Marked
         /\ job.op = "hung" <=> job = Hung
  BY DEF Jobs, Installs, Removals, InstallOps, Rest, Seeding, Marked, Hung

\* The next step of an installation is one of the same pet and package.
LEMMA NextStep ==
  ASSUME job \in Installs, NEW op \in InstallOps, Next_(op)
  PROVE  /\ job' \in Installs /\ job'.op = op
         /\ job'.id = job.id /\ job'.package = job.package /\ job'.seeding = job.seeding
  BY DEF Installs, Next_

LEMMA NoDirIsNone ==
  /\ NoDir \notin Dir
  /\ Empty \in Dir
  /\ \A p \in Packages : Whole(p) \in Dir /\ Loads(Whole(p))
<1>1. NoDir \notin Dir
  BY DEF NoDir, Dir
<1>2. ASSUME NEW p \in Packages PROVE Whole(p) # NoDir
  BY DEF NoDir, Whole
<1>3. QED
  BY <1>1, <1>2 DEF Empty, Dir, Whole, Loads, NoFile

-----------------------------------------------------------------------------
(* The pets: types, and what the staging directory and the backup hold at each step *)

\* The two files are of one package, unless one of them is missing.
Fits(d) == d = NoDir \/ d.manifest = NoFile \/ d.sheet = NoFile \/ d.manifest = d.sheet

Staged ==
  /\ job.op = "manifest" => stage = Empty
  /\ job.op = "sheet" => stage = [manifest |-> job.package, sheet |-> NoFile]
  /\ job.op \in {"swap", "in"} => stage = Whole(job.package)
  /\ job.op = "clean" => stage = NoDir

PackageInv ==
  /\ PetTypeOK
  /\ \A id \in Ids : Fits(dirs[id])
  /\ Fits(backup)
  /\ Staged
  /\ job.op \notin {"in", "clean"} => backup = NoDir

LEMMA InitPackage == PetInit => PackageInv
<1> SUFFICES ASSUME PetInit PROVE PackageInv
  OBVIOUS
<1>1. Seeding \in Jobs /\ Seeding.op = "seed" /\ "seed" \notin InstallOps
  BY DEF Jobs, Seeding, InstallOps
<1>2. \A id \in Ids : dirs[id] \in Dir \cup {NoDir} /\ Fits(dirs[id])
  BY NoDirIsNone DEF PetInit, Fits, Whole
<1>3. PetTypeOK
  BY <1>1, <1>2 DEF PetInit, PetTypeOK, Known
<1>4. QED
  BY <1>1, <1>2, <1>3 DEF PetInit, PackageInv, Fits, Staged

\* An installation begins with an empty staging directory.
LEMMA BeginPackage ==
  ASSUME PackageInv, job.op \notin InstallOps, UNCHANGED <<dirs, backup, marker, seeded, widgetPet, owned, bad>>,
         acknowledged' \subseteq Ids, removed' \subseteq Ids,
         NEW id \in Ids, NEW p \in Packages, NEW s \in BOOLEAN, BeginInstall(id, p, s)
  PROVE  PackageInv'
<1>1. job' \in Installs /\ job'.op = "manifest"
  BY DEF BeginInstall, Installs, InstallOps
<1>2. PetTypeOK'
  BY <1>1, NoDirIsNone DEF BeginInstall, PackageInv, PetTypeOK, Jobs, InstallOps
<1>3. QED
  BY <1>1, <1>2 DEF BeginInstall, PackageInv, Fits, Staged, InstallOps

\* The jobs that are no installation leave no directory behind.
LEMMA RestPackage ==
  ASSUME PetTypeOK', job'.op \notin InstallOps, \A id \in Ids : Fits(dirs'[id])
  PROVE  PackageInv'
  BY DEF PackageInv, PetTypeOK, Fits, Staged, InstallOps

LEMMA StepPackage == PackageInv /\ [PetNext]_petVars => PackageInv'
<1> SUFFICES ASSUME PackageInv, [PetNext]_petVars PROVE PackageInv'
  OBVIOUS
<1>0. PetTypeOK /\ (\A id \in Ids : Fits(dirs[id])) /\ Fits(backup) /\ Staged
      /\ (job.op \notin {"in", "clean"} => backup = NoDir)
  BY DEF PackageInv
<1>j. job \in Jobs
  BY <1>0 DEF PetTypeOK
<1>r. /\ {Rest, Seeding, Marked, Hung} \subseteq Jobs
      /\ \A j \in {Rest, Seeding, Marked, Hung} : j.op \notin InstallOps
  BY DEF Jobs, Rest, Seeding, Marked, Hung, InstallOps
<1>1. ASSUME Kill PROVE PackageInv'
  <2>1. PetTypeOK'
    BY <1>1, <1>0, <1>r DEF Kill, PetTypeOK, Known
  <2>2. QED
    BY <1>1, <1>0, <1>r, <2>1, RestPackage DEF Kill
<1>2. ASSUME WriteFile PROVE PackageInv'
  <2>1. job \in Installs
    BY <1>2, <1>j, JobOfStep DEF WriteFile, InstallOps
  <2>2. /\ job' \in Installs /\ job'.package = job.package
        /\ job'.op = IF job.op = "manifest" THEN "sheet" ELSE "swap"
    BY <1>2, <2>1, NextStep DEF WriteFile, InstallOps
  <2>3. job.package \in Packages
    BY <2>1 DEF Installs
  <2>4. stage' = IF job.op = "manifest" THEN [manifest |-> job.package, sheet |-> NoFile]
                 ELSE Whole(job.package)
    <3>1. CASE job.op = "manifest"
      <4>1. stage' = [stage EXCEPT !.manifest = job.package]
        BY <1>2, <3>1 DEF WriteFile
      <4>2. stage = [manifest |-> NoFile, sheet |-> NoFile]
        BY <1>0, <3>1 DEF Staged, Empty
      <4>3. QED
        BY <3>1, <4>1, <4>2
    <3>2. CASE job.op = "sheet"
      <4>1. stage' = [stage EXCEPT !.sheet = job.package]
        BY <1>2, <3>2 DEF WriteFile
      <4>2. stage = [manifest |-> job.package, sheet |-> NoFile]
        BY <1>0, <3>2 DEF Staged
      <4>3. QED
        BY <3>2, <4>1, <4>2 DEF Whole
    <3>3. QED
      BY <1>2, <3>1, <3>2 DEF WriteFile
  <2>5. stage' \in Dir
    BY <2>3, <2>4 DEF Dir, Whole
  <2>6. PetTypeOK'
    BY <1>2, <1>0, <2>2, <2>5 DEF WriteFile, PetTypeOK, Jobs, InstallOps
  <2>7. Staged'
    BY <1>2, <2>2, <2>4 DEF WriteFile, Staged
  <2>8. QED
    BY <1>2, <1>0, <2>2, <2>6, <2>7 DEF WriteFile, PackageInv, Fits
<1>3. ASSUME Swap PROVE PackageInv'
  <2>1. job \in Installs
    BY <1>3, <1>j, JobOfStep DEF Swap, InstallOps
  <2>2. job' \in Installs /\ job'.package = job.package /\ job'.op = "in"
    BY <1>3, <2>1, NextStep DEF Swap, InstallOps
  <2>3. job.id \in Ids
    BY <2>1 DEF Installs
  <2>4. PetTypeOK'
    BY <1>3, <1>0, <2>2, <2>3 DEF Swap, PetTypeOK, Jobs, InstallOps
  <2>5. \A id \in Ids : Fits(dirs'[id])
    BY <1>3, <1>0, <2>3 DEF Swap, PetTypeOK, Fits
  <2>6. Fits(backup')
    BY <1>3, <1>0, <2>3 DEF Swap
  <2>7. Staged'
    BY <1>3, <1>0, <2>2 DEF Swap, Staged
  <2>8. QED
    BY <2>2, <2>4, <2>5, <2>6, <2>7 DEF PackageInv, Fits
<1>4. ASSUME MoveIn PROVE PackageInv'
  <2>1. job \in Installs
    BY <1>4, <1>j, JobOfStep DEF MoveIn, InstallOps
  <2>2. job' \in Installs /\ job'.op = "clean"
    BY <1>4, <2>1, NextStep DEF MoveIn, InstallOps
  <2>3. job.id \in Ids /\ stage = Whole(job.package)
    BY <1>4, <1>0, <2>1 DEF MoveIn, Installs, Staged
  <2>4. PetTypeOK'
    BY <1>4, <1>0, <2>2, <2>3 DEF MoveIn, PetTypeOK, Jobs, InstallOps
  <2>5. \A id \in Ids : Fits(dirs'[id])
    BY <1>4, <1>0, <2>3 DEF MoveIn, PetTypeOK, Fits, Whole
  <2>6. QED
    BY <1>4, <1>0, <2>2, <2>4, <2>5 DEF MoveIn, PackageInv, Fits, Staged
<1>5. ASSUME Clean PROVE PackageInv'
  <2>1. job \in Installs
    BY <1>5, <1>j, JobOfStep DEF Clean, InstallOps
  <2>2. job' \in {Seeding, Rest} /\ acknowledged' \subseteq Ids
    BY <1>5, <1>0, <2>1 DEF Clean, Done, PetTypeOK, Installs
  <2>3. PetTypeOK'
    BY <1>5, <1>0, <1>r, <2>1, <2>2 DEF Clean, PetTypeOK, Staged, Installs
  <2>4. QED
    BY <1>5, <1>0, <1>r, <2>2, <2>3, RestPackage DEF Clean
<1>6. ASSUME GiveUp PROVE PackageInv'
  <2>1. job \in Installs /\ job.id \in Ids
    BY <1>6, <1>j, JobOfStep DEF GiveUp, InstallOps, Installs
  <2>2. job' \in {Hung, Rest}
    BY <1>6 DEF GiveUp
  <2>3. dirs' = dirs \/ dirs' = [dirs EXCEPT ![job.id] = backup]
    BY <1>6 DEF GiveUp
  <2>4. dirs' \in [Ids -> Dir \cup {NoDir}] /\ \A id \in Ids : Fits(dirs'[id])
    BY <1>0, <2>1, <2>3 DEF PetTypeOK
  <2>5. bad' \subseteq {"killed", "lost", "failed"}
    BY <1>6, <1>0 DEF GiveUp, PetTypeOK
  <2>6. PetTypeOK'
    BY <1>6, <1>0, <1>r, <2>2, <2>4, <2>5 DEF GiveUp, PetTypeOK
  <2>7. QED
    BY <1>r, <2>2, <2>4, <2>6, RestPackage
<1>7. ASSUME NEW id \in Ids, Seed(id) PROVE PackageInv'
  <2>1. CASE Exists(id)
    <3>1. PetTypeOK'
      BY <1>7, <1>0, <2>1 DEF Seed, PetTypeOK
    <3>2. QED
      BY <1>7, <1>0, <1>r, <2>1, <3>1, RestPackage DEF Seed
  <2>2. CASE ~Exists(id)
    BY <1>7, <1>0, <1>r, <2>2, BeginPackage, TRUE \in BOOLEAN DEF Seed, PetTypeOK
  <2>3. QED
    BY <2>1, <2>2
<1>8. ASSUME NEW id \in Ids, NEW p \in Packages, Import(id, p) PROVE PackageInv'
  BY <1>8, <1>0, <1>r, BeginPackage, FALSE \in BOOLEAN DEF Import, PetTypeOK
<1>9. ASSUME NEW id \in Ids, Choose(id) PROVE PackageInv'
  <2>1. PetTypeOK'
    BY <1>9, <1>0 DEF Choose, PetTypeOK
  <2>2. QED
    BY <1>9, <1>0, <1>r, <2>1, RestPackage DEF Choose
<1>10. ASSUME NEW id \in Ids, RemovePet(id) PROVE PackageInv'
  <2>1. dirs[id] \in Dir
    BY <1>10, <1>0 DEF RemovePet, Exists, PetTypeOK
  <2>2. PICK file \in {"manifest", "sheet"} : dirs' = [dirs EXCEPT ![id] = [@ EXCEPT ![file] = NoFile]]
    BY <1>10 DEF RemovePet
  <2>3. dirs'[id] \in Dir /\ Fits(dirs'[id])
    BY <1>0, <2>1, <2>2 DEF PetTypeOK, Dir, Fits
  <2>4. dirs' \in [Ids -> Dir \cup {NoDir}] /\ \A i \in Ids : Fits(dirs'[i])
    BY <1>0, <2>2, <2>3 DEF PetTypeOK
  <2>5. job' \in Removals /\ job'.op \notin InstallOps
    BY <1>10 DEF RemovePet, Removals, InstallOps
  <2>6. PetTypeOK'
    BY <1>10, <1>0, <1>r, <2>4, <2>5 DEF RemovePet, PetTypeOK, Jobs
  <2>7. QED
    BY <2>4, <2>5, <2>6, RestPackage
<1>11. ASSUME RemoveDir PROVE PackageInv'
  <2>1. job \in Removals /\ job.id \in Ids /\ job.op \notin InstallOps
    BY <1>11, <1>j, JobOfStep DEF RemoveDir, Removals, InstallOps
  <2>2. job' \in Removals \cup {Rest} /\ job'.op \notin InstallOps
    BY <1>11, <1>r, <2>1 DEF RemoveDir, Removals, InstallOps
  <2>3. dirs' \in [Ids -> Dir \cup {NoDir}] /\ \A id \in Ids : Fits(dirs'[id])
    BY <1>11, <1>0, <2>1 DEF RemoveDir, PetTypeOK, Fits
  <2>4. removed' \subseteq Ids /\ bad' \subseteq {"killed", "lost", "failed"}
    BY <1>11, <1>0, <2>1 DEF RemoveDir, PetTypeOK
  <2>5. PetTypeOK'
    BY <1>11, <1>0, <1>r, <2>1, <2>2, <2>3, <2>4 DEF RemoveDir, PetTypeOK, Jobs
  <2>6. QED
    BY <2>2, <2>3, <2>5, RestPackage
<1>12. ASSUME Mark \/ StoreIds \/ Reset PROVE PackageInv'
  <2>1. job.op \notin InstallOps /\ job' \in {Marked, Hung, Rest} /\ UNCHANGED <<dirs, stage, backup>>
    BY <1>12, <1>r DEF Mark, StoreIds, Reset, InstallOps
  <2>2. PetTypeOK'
    BY <1>12, <1>0, <1>r, <2>1 DEF Mark, StoreIds, Reset, PetTypeOK
  <2>3. QED
    BY <1>0, <1>r, <2>1, <2>2, RestPackage
<1>13. CASE UNCHANGED petVars
  BY <1>13 DEF petVars, PackageInv, PetTypeOK, Fits, Staged
<1>14. QED
  BY <1>1, <1>2, <1>3, <1>4, <1>5, <1>6, <1>7, <1>8, <1>9, <1>10, <1>11, <1>12, <1>13 DEF PetNext

LEMMA PackageAlways == PetSpec => []PackageInv
<1>1. PetInit => PackageInv
  BY InitPackage
<1>2. PackageInv /\ [PetNext]_petVars => PackageInv'
  BY StepPackage
<1>3. QED
  BY <1>1, <1>2, PTL DEF PetSpec

\* Every variable keeps its type, and between two jobs neither the staging
\* directory nor a backup is left (the paths of install_pet that clean up).
THEOREM PetTypeCorrect == PetSpec => []PetTypeOK
<1>1. PackageInv => PetTypeOK
  BY DEF PackageInv
<1>2. QED
  BY <1>1, PackageAlways, PTL

\* A pet that is listed is whole: install_pet fills a directory that nothing
\* lists and moves it in by one rename, and remove_dir_all only takes files away.
THEOREM ListedAreWhole == PetSpec => []ListedIsWhole
<1>1. PackageInv => ListedIsWhole
  BY DEF PackageInv, ListedIsWhole, Listed, Loads, Fits
<1>2. QED
  BY <1>1, PackageAlways, PTL

-----------------------------------------------------------------------------
(* Removed defaults *)

\* The job is one that only a start whose seeding was stored can have come to.
PastSeeding ==
  \/ job.op \in {"rest", "remove", "reset"}
  \/ job.op \in InstallOps /\ ~job.seeding

\* A start counts a removed default as seeded, whatever the two settings hold.
DefaultsInv ==
  /\ DefaultsStayRemoved
  /\ removed \cap Defaults \subseteq acknowledged
  /\ removed \cap Defaults \subseteq Known(marker, seeded)
  /\ job.op \in InstallOps => job.id \notin removed \cap Defaults
  /\ PastSeeding => Defaults \subseteq acknowledged /\ Defaults \subseteq Known(marker, seeded)
  /\ job = Marked => marker /\ Defaults \subseteq acknowledged

LEMMA InitDefaults == PetInit => DefaultsInv
<1> SUFFICES ASSUME PetInit PROVE DefaultsInv
  OBVIOUS
<1>1. job = Seeding /\ ~PastSeeding /\ job # Marked /\ job.op \notin InstallOps
  BY DEF PetInit, PastSeeding, Seeding, Marked, InstallOps
<1>2. removed \subseteq Known(marker, seeded) /\ acknowledged = Known(marker, seeded)
  BY DEF PetInit, Known
<1>3. \A id \in removed : ~Exists(id)
  BY DEF PetInit, Exists
<1>4. QED
  BY <1>1, <1>2, <1>3 DEF DefaultsInv, DefaultsStayRemoved

\* Steps that change neither what is removed nor what is known to be seeded.
LEMMA QuietDefaults ==
  ASSUME DefaultsInv, UNCHANGED <<removed, acknowledged, marker, seeded>>,
         \A id \in removed \cap Defaults : ~Exists(id) => ~Exists(id)',
         job' # Marked, PastSeeding' => PastSeeding,
         job'.op \in InstallOps => job'.id \notin removed \cap Defaults
  PROVE  DefaultsInv'
  BY DEF DefaultsInv, DefaultsStayRemoved, Known

LEMMA StepDefaults == PackageInv /\ DefaultsInv /\ [PetNext]_petVars => DefaultsInv'
<1> SUFFICES ASSUME PackageInv, DefaultsInv, [PetNext]_petVars PROVE DefaultsInv'
  OBVIOUS
<1>j. job \in Jobs /\ dirs \in [Ids -> Dir \cup {NoDir}] /\ Defaults \subseteq Ids
  BY DEF PackageInv, PetTypeOK, Defaults
<1>r. /\ Rest.op = "rest" /\ Seeding.op = "seed" /\ Marked.op = "marked" /\ Hung.op = "hung"
      /\ Seeding # Marked /\ Rest # Marked /\ Hung # Marked
  BY DEF Rest, Seeding, Marked, Hung
<1>1. ASSUME Kill PROVE DefaultsInv'
  BY <1>1, <1>r DEF Kill, DefaultsInv, DefaultsStayRemoved, Exists, PastSeeding, InstallOps, Known
<1>2. ASSUME WriteFile PROVE DefaultsInv'
  <2>1. job \in Installs
    BY <1>2, <1>j, JobOfStep DEF WriteFile, InstallOps
  <2>2. job' \in Installs /\ job'.id = job.id /\ job'.seeding = job.seeding
    BY <1>2, <2>1, NextStep DEF WriteFile, InstallOps
  <2>3. job' # Marked /\ (PastSeeding' => PastSeeding)
    BY <2>1, <2>2, <1>r DEF Installs, InstallOps, PastSeeding
  <2>4. QED
    BY <1>2, <2>1, <2>2, <2>3, QuietDefaults DEF WriteFile, DefaultsInv, Exists, Installs
<1>3. ASSUME Swap PROVE DefaultsInv'
  <2>1. job \in Installs
    BY <1>3, <1>j, JobOfStep DEF Swap, InstallOps
  <2>2. job' \in Installs /\ job'.id = job.id /\ job'.seeding = job.seeding
    BY <1>3, <2>1, NextStep DEF Swap, InstallOps
  <2>3. job' # Marked /\ (PastSeeding' => PastSeeding)
    BY <2>1, <2>2, <1>r DEF Installs, InstallOps, PastSeeding
  <2>4. \A id \in Ids : ~Exists(id) => ~Exists(id)'
    BY <1>3, <1>j, <2>1 DEF Swap, Exists, Installs
  <2>5. QED
    BY <1>3, <1>j, <2>1, <2>2, <2>3, <2>4, QuietDefaults DEF Swap, DefaultsInv, Installs
<1>4. ASSUME MoveIn PROVE DefaultsInv'
  <2>1. job \in Installs
    BY <1>4, <1>j, JobOfStep DEF MoveIn, InstallOps
  <2>2. job' \in Installs /\ job'.id = job.id /\ job'.seeding = job.seeding
    BY <1>4, <2>1, NextStep DEF MoveIn, InstallOps
  <2>3. job' # Marked /\ (PastSeeding' => PastSeeding)
    BY <2>1, <2>2, <1>r DEF Installs, InstallOps, PastSeeding
  <2>4. job.id \notin removed \cap Defaults
    BY <2>1 DEF DefaultsInv, Installs
  <2>5. \A id \in removed \cap Defaults : ~Exists(id) => ~Exists(id)'
    BY <1>4, <1>j, <2>4 DEF MoveIn, Exists
  <2>6. QED
    BY <1>4, <2>2, <2>3, <2>4, <2>5, QuietDefaults DEF MoveIn
<1>5. ASSUME Clean PROVE DefaultsInv'
  <2>1. job \in Installs
    BY <1>5, <1>j, JobOfStep DEF Clean, InstallOps
  <2>2. CASE job.seeding
    BY <1>5, <1>r, <2>2 DEF Clean, Done, DefaultsInv, DefaultsStayRemoved, Exists, PastSeeding, InstallOps, Known
  <2>3. CASE ~job.seeding
    <3>1. PastSeeding
      BY <2>1, <2>3 DEF PastSeeding, Installs
    <3>2. QED
      BY <1>5, <1>r, <2>3, <3>1, QuietDefaults DEF Clean, Done, Exists, InstallOps
  <2>4. QED
    BY <2>2, <2>3
<1>6. ASSUME GiveUp PROVE DefaultsInv'
  <2>1. job \in Installs
    BY <1>6, <1>j, JobOfStep DEF GiveUp, InstallOps
  <2>2. job' # Marked /\ job'.op \notin InstallOps
    BY <1>6, <1>r DEF GiveUp, InstallOps
  <2>3. PastSeeding' => PastSeeding
    BY <1>6, <1>r, <2>1 DEF GiveUp, PastSeeding, Installs, InstallOps
  <2>4. \A id \in removed \cap Defaults : ~Exists(id) => ~Exists(id)'
    <3>1. job.id \notin removed \cap Defaults
      BY <2>1 DEF DefaultsInv, Installs
    <3>2. dirs' = dirs \/ dirs' = [dirs EXCEPT ![job.id] = backup]
      BY <1>6 DEF GiveUp
    <3>3. QED
      BY <1>j, <3>1, <3>2 DEF Exists
  <2>5. QED
    BY <1>6, <2>2, <2>3, <2>4, QuietDefaults DEF GiveUp
<1>7. ASSUME NEW id \in Ids, Seed(id) PROVE DefaultsInv'
  <2>1. CASE Exists(id)
    BY <1>7, <1>r, <2>1 DEF Seed, DefaultsInv, DefaultsStayRemoved, Exists, PastSeeding, InstallOps, Known
  <2>2. CASE ~Exists(id)
    <3>1. id \notin removed \cap Defaults
      BY <1>7 DEF Seed, DefaultsInv
    <3>2. job' # Marked /\ job'.id = id /\ ~PastSeeding'
      BY <1>7, <2>2, <1>r DEF Seed, BeginInstall, PastSeeding
    <3>3. QED
      BY <1>7, <2>2, <3>1, <3>2, QuietDefaults DEF Seed, Exists
  <2>3. QED
    BY <2>1, <2>2
<1>8. ASSUME NEW id \in Ids, NEW p \in Packages, Import(id, p) PROVE DefaultsInv'
  <2>1. PastSeeding /\ job' # Marked /\ job'.id = id
    BY <1>8, <1>r DEF Import, BeginInstall, PastSeeding
  <2>2. QED
    BY <1>8, <2>1 DEF Import, DefaultsInv, DefaultsStayRemoved, Exists, Known
<1>9. ASSUME NEW id \in Ids, Choose(id) PROVE DefaultsInv'
  BY <1>9, <1>r, QuietDefaults DEF Choose, Exists, InstallOps, PastSeeding
<1>10. ASSUME NEW id \in Ids, RemovePet(id) PROVE DefaultsInv'
  <2>1. job.op = "rest" /\ job'.op = "remove" /\ job' # Marked
    BY <1>10, <1>r DEF RemovePet
  <2>2. \A i \in Ids : ~Exists(i) => ~Exists(i)'
    BY <1>10, <1>j DEF RemovePet, Exists
  <2>3. QED
    BY <1>10, <1>j, <2>1, <2>2, QuietDefaults DEF RemovePet, PastSeeding, InstallOps
<1>11. ASSUME RemoveDir PROVE DefaultsInv'
  <2>1. job \in Removals /\ job.id \in Ids /\ PastSeeding
    BY <1>11, <1>j, JobOfStep DEF RemoveDir, Removals, PastSeeding
  <2>2. job'.op \in {"rest", "reset"} /\ job' # Marked
    BY <1>11, <1>r DEF RemoveDir
  <2>3. CASE dirs' = [dirs EXCEPT ![job.id] = NoDir] /\ removed' = removed \cup {job.id}
    BY <1>11, <1>j, <2>1, <2>2, <2>3
       DEF RemoveDir, DefaultsInv, DefaultsStayRemoved, Exists, Known, InstallOps
  <2>4. CASE UNCHANGED <<dirs, removed>>
    BY <1>11, <2>1, <2>2, <2>4, QuietDefaults DEF RemoveDir, Exists, InstallOps
  <2>5. QED
    BY <1>11, <2>3, <2>4 DEF RemoveDir
<1>12. ASSUME Mark PROVE DefaultsInv'
  <2>1. job'.op \notin InstallOps /\ ~PastSeeding'
    BY <1>12, <1>r DEF Mark, InstallOps, PastSeeding
  <2>2. Known(marker, seeded) \subseteq Known(marker', seeded)
    BY <1>12 DEF Mark, Known
  <2>3. QED
    BY <1>12, <1>r, <2>1, <2>2 DEF Mark, DefaultsInv, DefaultsStayRemoved, Exists, Known
<1>13. ASSUME StoreIds PROVE DefaultsInv'
  <2>1. job = Marked /\ marker /\ Defaults \subseteq acknowledged
    BY <1>13, <1>j, JobOfStep DEF StoreIds, DefaultsInv
  <2>2. CASE seeded' = acknowledged /\ job' = Rest
    <3>1. Defaults \subseteq Known(marker', seeded')
      BY <1>13, <2>1, <2>2 DEF StoreIds, Known, Defaults
    <3>2. QED
      BY <1>13, <1>r, <2>1, <2>2, <3>1 DEF StoreIds, DefaultsInv, DefaultsStayRemoved, Exists, InstallOps
  <2>3. CASE seeded' = seeded /\ job' = Hung
    BY <1>13, <1>r, <2>3, QuietDefaults DEF StoreIds, Exists, PastSeeding, InstallOps
  <2>4. QED
    BY <1>13, <2>2, <2>3 DEF StoreIds
<1>14. ASSUME Reset PROVE DefaultsInv'
  BY <1>14, <1>r, QuietDefaults DEF Reset, Exists, PastSeeding, InstallOps
<1>15. CASE UNCHANGED petVars
  BY <1>15 DEF petVars, DefaultsInv, DefaultsStayRemoved, Exists, PastSeeding, Known
<1>16. QED
  BY <1>1, <1>2, <1>3, <1>4, <1>5, <1>6, <1>7, <1>8, <1>9, <1>10, <1>11, <1>12, <1>13, <1>14, <1>15
  DEF PetNext

\* seed_default_pets never brings back a bundled pet that the user has removed,
\* in whatever version and at whatever point a start was killed or failed.
THEOREM RemovedDefaultsStayRemoved == PetSpec => []DefaultsStayRemoved
<1>1. DefaultsInv => DefaultsStayRemoved
  BY DEF DefaultsInv
<1>2. QED
  BY <1>1, PackageAlways, InitDefaults, StepDefaults, PTL DEF PetSpec

-----------------------------------------------------------------------------
(* Installed pets and the widget's pet *)

\* Pet id can be listed, or an import that holds its backup is about to replace it.
Safe(id) ==
  \/ Loads(dirs[id])
  \/ job.op = "in" /\ job.id = id /\ Loads(backup)

\* Nobody killed the process, and no old pet could not be moved back.
Unlost == bad \cap {"killed", "lost"} = {}

OwnedInv ==
  /\ Unlost => \A id \in owned : Safe(id)
  /\ job.op = "in" => dirs[job.id] = NoDir
  /\ job.op = "clean" => Loads(dirs[job.id])
  /\ job.op \in {"remove", "reset"} => job.id \notin owned

\* A removal that is under way.
Removing(id) == job.op \in {"remove", "reset"} /\ job.id = id

WidgetInv ==
  bad = {} =>
    /\ \A id \in Ids : dirs[id] = NoDir \/ Loads(dirs[id]) \/ (job.op = "remove" /\ job.id = id)
    /\ backup = NoDir \/ Loads(backup)
    /\ widgetPet = NoPet \/ Safe(widgetPet) \/ Removing(widgetPet)

LEMMA InitKept == PetInit => OwnedInv /\ WidgetInv
<1> SUFFICES ASSUME PetInit PROVE OwnedInv /\ WidgetInv
  OBVIOUS
<1>1. job.op = "seed" /\ \A id \in owned : id \in Ids
  BY DEF PetInit, Seeding
<1>2. \A id \in Ids : dirs[id] = NoDir \/ Loads(dirs[id])
  BY NoDirIsNone DEF PetInit
<1>3. \A id \in owned : Loads(dirs[id])
  BY <1>1, NoDirIsNone DEF PetInit
<1>4. QED
  BY <1>1, <1>2, <1>3 DEF PetInit, OwnedInv, WidgetInv, Safe

\* Steps that neither touch a directory nor own a pet, and that no removal or
\* replacement is part of.
LEMMA QuietKept ==
  ASSUME OwnedInv, WidgetInv, UNCHANGED <<dirs, backup, owned, widgetPet>>,
         job.op \notin {"in", "remove", "reset"}, job'.op \notin {"in", "remove", "reset", "clean"},
         bad \subseteq bad'
  PROVE  OwnedInv' /\ WidgetInv'
<1>1. (bad' = {} => bad = {}) /\ (Unlost' => Unlost)
  BY DEF Unlost
<1>2. QED
  BY <1>1 DEF OwnedInv, WidgetInv, Safe, Removing

LEMMA StepKept == PackageInv /\ OwnedInv /\ WidgetInv /\ [PetNext]_petVars => OwnedInv' /\ WidgetInv'
<1> SUFFICES ASSUME PackageInv, OwnedInv, WidgetInv, [PetNext]_petVars PROVE OwnedInv' /\ WidgetInv'
  OBVIOUS
<1>j. /\ job \in Jobs /\ dirs \in [Ids -> Dir \cup {NoDir}] /\ owned \subseteq Ids
      /\ widgetPet \in Ids \cup {NoPet} /\ Staged
      /\ (job.op \notin {"in", "clean"} => backup = NoDir)
  BY DEF PackageInv, PetTypeOK
<1>r. Rest.op = "rest" /\ Seeding.op = "seed" /\ Marked.op = "marked" /\ Hung.op = "hung"
  BY DEF Rest, Seeding, Marked, Hung
<1>1. ASSUME Kill PROVE OwnedInv' /\ WidgetInv'
  <2>1. job'.op = "seed"
    BY <1>1, <1>r DEF Kill
  <2>2. CASE job = Rest
    BY <1>1, <1>r, <2>1, <2>2 DEF Kill, OwnedInv, WidgetInv, Safe, Removing, Unlost
  <2>3. CASE job # Rest
    <3>1. ~Unlost' /\ bad' # {}
      BY <1>1, <2>3 DEF Kill, Unlost
    <3>2. QED
      BY <2>1, <3>1 DEF OwnedInv, WidgetInv
  <2>4. QED
    BY <2>2, <2>3
<1>2. ASSUME WriteFile PROVE OwnedInv' /\ WidgetInv'
  <2>1. job \in Installs
    BY <1>2, <1>j, JobOfStep DEF WriteFile, InstallOps
  <2>2. job'.op \in {"sheet", "swap"}
    BY <1>2, <2>1, NextStep DEF WriteFile, InstallOps
  <2>3. QED
    BY <1>2, <2>2, QuietKept DEF WriteFile
<1>3. ASSUME Swap PROVE OwnedInv' /\ WidgetInv'
  <2>1. job \in Installs /\ job.id \in Ids
    BY <1>3, <1>j, JobOfStep DEF Swap, InstallOps, Installs
  <2>2. job'.op = "in" /\ job'.id = job.id
    BY <1>3, <2>1, NextStep DEF Swap, InstallOps
  <2>3. backup' = dirs[job.id] /\ dirs' = [dirs EXCEPT ![job.id] = NoDir] /\ bad' = bad
    BY <1>3 DEF Swap
  <2>4. \A id \in Ids : Safe(id) => Safe(id)'
    BY <1>3, <1>j, <2>1, <2>2, <2>3 DEF Swap, Safe
  <2>5. OwnedInv'
    <3>1. dirs'[job'.id] = NoDir
      BY <1>j, <2>1, <2>2, <2>3
    <3>2. Unlost' => \A id \in owned' : Safe(id)'
      BY <1>3, <1>j, <2>3, <2>4 DEF Swap, OwnedInv, Unlost
    <3>3. QED
      BY <2>2, <3>1, <3>2 DEF OwnedInv
  <2>6. \A id \in Ids : ~Removing(id)
    BY <1>3 DEF Swap, Removing
  <2>7. WidgetInv'
    BY <1>3, <1>j, <2>1, <2>2, <2>3, <2>4, <2>6 DEF Swap, WidgetInv
  <2>8. QED
    BY <2>5, <2>7
<1>4. ASSUME MoveIn PROVE OwnedInv' /\ WidgetInv'
  <2>1. job \in Installs /\ job.id \in Ids /\ job.package \in Packages
    BY <1>4, <1>j, JobOfStep DEF MoveIn, InstallOps, Installs
  <2>2. job'.op = "clean" /\ job'.id = job.id
    BY <1>4, <2>1, NextStep DEF MoveIn, InstallOps
  <2>3. Loads(stage)
    BY <1>4, <1>j, <2>1, NoDirIsNone DEF MoveIn, Staged
  <2>4. dirs' = [dirs EXCEPT ![job.id] = stage] /\ Loads(dirs'[job.id])
    BY <1>4, <1>j, <2>1, <2>3 DEF MoveIn
  <2>5. \A id \in Ids : Safe(id) => Safe(id)'
    BY <1>j, <2>1, <2>2, <2>4 DEF Safe
  <2>6. OwnedInv'
    BY <1>4, <1>j, <2>2, <2>4, <2>5 DEF MoveIn, OwnedInv, Unlost
  <2>7. \A id \in Ids : ~Removing(id)
    BY <1>4 DEF MoveIn, Removing
  <2>8. WidgetInv'
    BY <1>4, <1>j, <2>1, <2>2, <2>4, <2>5, <2>7 DEF MoveIn, WidgetInv
  <2>9. QED
    BY <2>6, <2>8
<1>5. ASSUME Clean PROVE OwnedInv' /\ WidgetInv'
  <2>1. job'.op \in {"rest", "seed"}
    BY <1>5, <1>r DEF Clean, Done
  <2>2. owned' = owned \cup {job.id} /\ backup' = NoDir /\ UNCHANGED <<dirs, widgetPet, bad>> /\ job.op = "clean"
    BY <1>5 DEF Clean
  <2>3. OwnedInv'
    BY <2>1, <2>2 DEF OwnedInv, Safe, Unlost
  <2>4. WidgetInv'
    BY <2>1, <2>2 DEF WidgetInv, Safe, Removing
  <2>5. QED
    BY <2>3, <2>4
<1>6. ASSUME GiveUp PROVE OwnedInv' /\ WidgetInv'
  <2>1. job \in Installs /\ job.id \in Ids
    BY <1>6, <1>j, JobOfStep DEF GiveUp, InstallOps, Installs
  <2>2. job'.op \in {"rest", "hung"} /\ job.op \in InstallOps \ {"clean"} /\ backup' = NoDir
        /\ UNCHANGED <<owned, widgetPet>>
    BY <1>6, <1>r DEF GiveUp, InstallOps
  <2>3. CASE backup = NoDir
    <3>1. UNCHANGED <<dirs, bad>>
      BY <1>6, <2>3 DEF GiveUp
    <3>2. QED
      BY <2>2, <2>3, <3>1 DEF OwnedInv, WidgetInv, Safe, Removing, Unlost, Loads, InstallOps
  <2>4. CASE backup # NoDir /\ dirs' = [dirs EXCEPT ![job.id] = backup] /\ bad' = bad
    <3>1. job.op = "in"
      BY <1>j, <2>2, <2>4
    <3>2. \A id \in Ids : Safe(id) => Loads(dirs'[id]) \/ (id = job.id /\ ~Loads(backup))
      BY <1>j, <2>1, <2>4 DEF Safe
    <3>3. \A id \in owned : Unlost => Loads(dirs'[id])
      <4>1. SUFFICES ASSUME NEW id \in owned, Unlost PROVE Loads(dirs'[id])
        OBVIOUS
      <4>2. Safe(id)
        BY <4>1 DEF OwnedInv
      <4>3. CASE id = job.id
        <5>1. ~Loads(dirs[id])
          BY <4>3, <3>1 DEF OwnedInv, Loads
        <5>2. QED
          BY <4>2, <4>3, <5>1, <1>j, <2>1, <2>4 DEF Safe
      <4>4. QED
        BY <4>2, <4>3, <1>j, <3>2
    <3>4. OwnedInv'
      BY <2>2, <2>4, <3>3 DEF OwnedInv, Safe, Unlost
    <3>5. WidgetInv'
      BY <1>j, <2>1, <2>2, <2>4, <3>1 DEF WidgetInv, Safe, Removing
    <3>6. QED
      BY <3>4, <3>5
  <2>5. CASE "lost" \in bad'
    BY <2>2, <2>5 DEF OwnedInv, WidgetInv, Unlost
  <2>6. QED
    BY <1>6, <2>3, <2>4, <2>5 DEF GiveUp
<1>7. ASSUME NEW id \in Ids, Seed(id) PROVE OwnedInv' /\ WidgetInv'
  <2>1. job'.op \in {"seed", "manifest"}
    BY <1>7, <1>r DEF Seed, BeginInstall
  <2>2. QED
    BY <1>7, <1>r, <2>1, QuietKept DEF Seed
<1>8. ASSUME NEW id \in Ids, NEW p \in Packages, Import(id, p) PROVE OwnedInv' /\ WidgetInv'
  <2>1. job'.op = "manifest"
    BY <1>8 DEF Import, BeginInstall
  <2>2. QED
    BY <1>8, <1>r, <2>1, QuietKept DEF Import
<1>9. ASSUME NEW id \in Ids, Choose(id) PROVE OwnedInv' /\ WidgetInv'
  BY <1>9, <1>r DEF Choose, Exists, OwnedInv, WidgetInv, Safe, Removing, Unlost
<1>10. ASSUME NEW id \in Ids, RemovePet(id) PROVE OwnedInv' /\ WidgetInv'
  <2>1. job.op = "rest" /\ job'.op = "remove" /\ job'.id = id
    BY <1>10, <1>r DEF RemovePet
  <2>2. \A i \in Ids \ {id} : dirs'[i] = dirs[i]
    BY <1>10, <1>j DEF RemovePet
  <2>3. owned' = owned \ {id} /\ UNCHANGED <<backup, widgetPet, bad>>
    BY <1>10 DEF RemovePet
  <2>4. OwnedInv'
    BY <1>j, <2>1, <2>2, <2>3 DEF OwnedInv, Safe, Unlost
  <2>5. WidgetInv'
    BY <1>j, <2>1, <2>2, <2>3 DEF WidgetInv, Safe, Removing
  <2>6. QED
    BY <2>4, <2>5
<1>11. ASSUME RemoveDir PROVE OwnedInv' /\ WidgetInv'
  <2>1. job \in Removals /\ job.id \in Ids /\ job.id \notin owned /\ job.op = "remove"
    BY <1>11, <1>j, JobOfStep DEF RemoveDir, Removals, OwnedInv
  <2>2. UNCHANGED <<backup, owned, widgetPet>>
    BY <1>11 DEF RemoveDir
  <2>3. CASE dirs' = [dirs EXCEPT ![job.id] = NoDir] /\ job' = [op |-> "reset", id |-> job.id] /\ bad' = bad
    <3>1. \A i \in Ids \ {job.id} : dirs'[i] = dirs[i]
      BY <1>j, <2>3
    <3>2. dirs'[job.id] = NoDir
      BY <1>j, <2>1, <2>3
    <3>3. OwnedInv'
      BY <1>j, <2>1, <2>2, <2>3, <3>1 DEF OwnedInv, Safe, Unlost
    <3>4. WidgetInv'
      BY <1>j, <2>1, <2>2, <2>3, <3>1, <3>2 DEF WidgetInv, Safe, Removing
    <3>5. QED
      BY <3>3, <3>4
  <2>4. CASE job' = Rest /\ "failed" \in bad' /\ dirs' = dirs /\ bad \subseteq bad'
    BY <1>r, <2>1, <2>2, <2>4 DEF OwnedInv, WidgetInv, Safe, Unlost
  <2>5. QED
    BY <1>11, <2>3, <2>4 DEF RemoveDir
<1>12. ASSUME Mark \/ StoreIds PROVE OwnedInv' /\ WidgetInv'
  <2>1. job.op \in {"seed", "marked"} /\ job'.op \in {"marked", "rest", "hung"}
    BY <1>12, <1>r DEF Mark, StoreIds
  <2>2. QED
    BY <1>12, <2>1, QuietKept DEF Mark, StoreIds
<1>13. ASSUME Reset PROVE OwnedInv' /\ WidgetInv'
  <2>1. job.op = "reset" /\ job'.op = "rest" /\ UNCHANGED <<dirs, backup, owned>>
    BY <1>13, <1>r DEF Reset
  <2>2. job.id \in Ids /\ dirs[job.id] \in Dir \cup {NoDir}
    BY <1>13, <1>j, JobOfStep DEF Reset, Removals
  <2>3. CASE widgetPet' = (IF widgetPet = job.id THEN NoPet ELSE widgetPet) /\ bad' = bad
    BY <1>j, <2>1, <2>2, <2>3 DEF OwnedInv, WidgetInv, Safe, Removing, Unlost
  <2>4. CASE "failed" \in bad' /\ bad \subseteq bad' /\ widgetPet' = widgetPet
    BY <2>1, <2>4 DEF OwnedInv, WidgetInv, Safe, Unlost
  <2>5. QED
    BY <1>13, <2>3, <2>4 DEF Reset
<1>14. CASE UNCHANGED petVars
  BY <1>14 DEF petVars, OwnedInv, WidgetInv, Safe, Removing, Unlost
<1>15. QED
  BY <1>1, <1>2, <1>3, <1>4, <1>5, <1>6, <1>7, <1>8, <1>9, <1>10, <1>11, <1>12, <1>13, <1>14
  DEF PetNext

LEMMA KeptAlways == PetSpec => [](OwnedInv /\ WidgetInv)
<1>1. PetSpec => []PackageInv
  BY PackageAlways
<1>2. QED
  BY <1>1, InitKept, StepKept, PTL DEF PetSpec

\* An import that fails at any step leaves what was installed listed, unless the
\* process was killed or the old pet could not be moved back.
THEOREM OwnedStayListed == PetSpec => []OwnedIsListed
<1>1. PackageInv /\ OwnedInv => OwnedIsListed
  <2>1. SUFFICES ASSUME PackageInv, OwnedInv, job = Rest, Unlost, NEW id \in owned
                 PROVE  id \in Listed
    BY DEF OwnedIsListed, Unlost
  <2>2. id \in Ids /\ job.op = "rest"
    BY <2>1 DEF PackageInv, PetTypeOK, Rest
  <2>3. QED
    BY <2>1, <2>2 DEF OwnedInv, Safe, Listed
<1>2. QED
  BY <1>1, PackageAlways, KeptAlways, PTL

\* The pet of the widget is installed: set_widget_pet chooses one that is there,
\* an import puts one back in its place, and a removal resets it.
THEOREM WidgetPetStaysInstalled == PetSpec => []WidgetPetIsInstalled
<1>1. PackageInv /\ WidgetInv => WidgetPetIsInstalled
  BY DEF WidgetInv, WidgetPetIsInstalled, Safe, Removing, Listed, PackageInv, PetTypeOK, Rest
<1>2. QED
  BY <1>1, PackageAlways, KeptAlways, PTL

\* All of it together, for every set of pets and packages.
THEOREM PetsStayKept == PetSpec => []PetsAreKept
<1>1. ListedIsWhole /\ OwnedIsListed /\ DefaultsStayRemoved /\ WidgetPetIsInstalled => PetsAreKept
  BY DEF PetsAreKept
<1>2. QED
  BY <1>1, ListedAreWhole, OwnedStayListed, RemovedDefaultsStayRemoved, WidgetPetStaysInstalled, PTL

=============================================================================
