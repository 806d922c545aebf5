------------------------------ MODULE PetStore ------------------------------
(***************************************************************************)
(* The installed pets (src-tauri/src/pets.rs): a directory per pet, which   *)
(* an import replaces in a few steps, the bundled pets that a start seeds,  *)
(* and the pet that the widget shows (commands/pets.rs).                    *)
(*                                                                          *)
(* Seeding and the commands run on the main thread, one at a time.  The     *)
(* process may be killed between any two steps, and any step may fail.      *)
(***************************************************************************)
EXTENDS Integers, FiniteSets

CONSTANTS
  Ids,        \* of pets
  Packages,   \* what a valid package may hold
  Bundled,    \* the package of the bundled pets
  Legacy,     \* the bundled pets of the versions before 10
  Added,      \* and those of version 10
  NoPet       \* no widget pet: the built-in robot

ASSUME PetAssumption ==
  /\ Bundled \in Packages
  /\ Legacy \subseteq Ids /\ Added \subseteq Ids /\ Legacy \cap Added = {}
  /\ NoPet \notin Ids
  /\ "none" \notin Packages    \* NoFile

VARIABLES
  dirs,      \* the pet directories
  stage,     \* the staging directory of the import in progress
  backup,    \* and what it has moved out of the way
  job,       \* what the main thread is doing
  acknowledged,  \* seeded_ids, as the seeding that is running knows them
  marker,    \* setting pet_defaults_seeded
  seeded,    \* setting pet_defaults_seeded_ids
  widgetPet, \* setting widget_pet
  owned,     \* pets that were installed and not removed since (history)
  removed,   \* pets the user has removed and not imported since (history)
  bad        \* something has gone wrong since: "killed", "lost", "failed" (history)

petVars == <<dirs, stage, backup, job, acknowledged, marker, seeded, widgetPet, owned, removed, bad>>

Defaults == Legacy \cup Added
NoFile   == "none"
\* A directory holds a manifest and a spritesheet, of some package each.
Dir      == [manifest : Packages \cup {NoFile}, sheet : Packages \cup {NoFile}]
NoDir    == [dir |-> "none"]
Empty    == [manifest |-> NoFile, sheet |-> NoFile]
Whole(p) == [manifest |-> p, sheet |-> p]
Exists(id) == dirs[id] # NoDir

Rest    == [op |-> "rest"]
Seeding == [op |-> "seed"]
Marked  == [op |-> "marked"]
Hung    == [op |-> "hung"]    \* see RecordSeedFailure of AppLocks
InstallOps == {"manifest", "sheet", "swap", "in", "clean"}
Installs   == [op : InstallOps, id : Ids, package : Packages, seeding : BOOLEAN]
Removals   == [op : {"remove", "reset"}, id : Ids]
Jobs       == {Rest, Seeding, Marked, Hung} \cup Installs \cup Removals

\* load_pet_dir: both files, and a manifest that fits the sheet's size, which
\* all packages share.
Loads(d)  == d # NoDir /\ d.manifest # NoFile /\ d.sheet # NoFile
\* list_installed_pets
Listed    == {id \in Ids : Loads(dirs[id])}

PetTypeOK ==
  /\ dirs \in [Ids -> Dir \cup {NoDir}]
  /\ {stage, backup} \subseteq Dir \cup {NoDir}
  /\ job \in Jobs
  /\ acknowledged \subseteq Ids /\ seeded \subseteq Ids
  /\ owned \subseteq Ids /\ removed \subseteq Ids
  /\ marker \in BOOLEAN
  /\ widgetPet \in Ids \cup {NoPet}
  /\ bad \subseteq {"killed", "lost", "failed"}
  /\ job.op \notin InstallOps => stage = NoDir /\ backup = NoDir  \* nothing is left behind

-----------------------------------------------------------------------------

\* "Versions before v10 only stored a boolean": the old ids count as seeded.
Known(m, ids) == IF m /\ ids = {} THEN Legacy ELSE ids

\* An earlier version may have run, and its user removed pets.
PetInit ==
  /\ \/ marker = FALSE /\ owned = {} /\ removed = {}
     \/ marker = TRUE /\ owned \in SUBSET Legacy /\ removed = Legacy \ owned
  /\ dirs = [id \in Ids |-> IF id \in owned THEN Whole(Bundled) ELSE NoDir]
  /\ stage = NoDir /\ backup = NoDir
  /\ job = Seeding
  /\ seeded = {} /\ acknowledged = Known(marker, seeded)
  /\ widgetPet = NoPet
  /\ bad = {}

\* The process ends and is started again.  Hidden directories stay behind under
\* names that nothing reads.
Kill ==
  /\ job' = Seeding
  /\ acknowledged' = Known(marker, seeded)
  /\ stage' = NoDir /\ backup' = NoDir
  /\ bad' = IF job = Rest THEN bad ELSE bad \cup {"killed"}
  /\ UNCHANGED <<dirs, marker, seeded, widgetPet, owned, removed>>

-----------------------------------------------------------------------------
(* install_pet *)

BeginInstall(id, p, seeding) ==
  /\ stage' = Empty
  /\ job' = [op |-> "manifest", id |-> id, package |-> p, seeding |-> seeding]

Next_(op) == job' = [job EXCEPT !.op = op]

\* Seeded fault: the files are written where they belong.
WriteInPlace ==
  /\ job.op \in {"manifest", "sheet"}
  /\ LET file == job.op
         d    == IF Exists(job.id) THEN dirs[job.id] ELSE Empty
     IN dirs' = [dirs EXCEPT ![job.id] = [d EXCEPT ![file] = job.package]]
  /\ stage' = [stage EXCEPT ![job.op] = job.package]
  /\ Next_(IF job.op = "manifest" THEN "sheet" ELSE "swap")
  /\ UNCHANGED <<backup, acknowledged, marker, seeded, widgetPet, owned, removed, bad>>

\* pet.json and spritesheet.webp, in the staging directory.
WriteFile ==
  /\ job.op \in {"manifest", "sheet"}
  /\ stage' = [stage EXCEPT ![job.op] = job.package]
  /\ Next_(IF job.op = "manifest" THEN "sheet" ELSE "swap")
  /\ UNCHANGED <<dirs, backup, acknowledged, marker, seeded, widgetPet, owned, removed, bad>>

\* What was written is read again; a pet of the same id is moved out of the way.
Swap ==
  /\ job.op = "swap" /\ Loads(stage)
  /\ backup' = dirs[job.id]
  /\ dirs' = [dirs EXCEPT ![job.id] = NoDir]
  /\ Next_("in")
  /\ UNCHANGED <<stage, acknowledged, marker, seeded, widgetPet, owned, removed, bad>>

MoveIn ==
  /\ job.op = "in"
  /\ dirs' = [dirs EXCEPT ![job.id] = stage]
  /\ stage' = NoDir
  /\ Next_("clean")
  /\ UNCHANGED <<backup, acknowledged, marker, seeded, widgetPet, owned, removed, bad>>

\* What follows an install, of a seeding or of an import.
Done(id) ==
  IF job.seeding
  THEN job' = Seeding /\ acknowledged' = acknowledged \cup {id}
  ELSE job' = Rest /\ UNCHANGED acknowledged

\* Seeded fault: the old pet's backup is kept.
CleanNothing ==
  /\ job.op = "clean"
  /\ owned' = owned \cup {job.id}
  /\ Done(job.id)
  /\ UNCHANGED <<dirs, stage, backup, marker, seeded, widgetPet, removed, bad>>

Clean ==
  /\ job.op = "clean"
  /\ backup' = NoDir
  /\ owned' = owned \cup {job.id}
  /\ Done(job.id)
  /\ UNCHANGED <<dirs, stage, marker, seeded, widgetPet, removed, bad>>

\* Seeded fault: a failed import leaves things as they are.
GiveUpThere ==
  /\ job.op \in {"manifest", "sheet", "swap", "in"}
  /\ stage' = NoDir /\ backup' = NoDir
  /\ job' = Rest
  /\ UNCHANGED <<dirs, acknowledged, marker, seeded, widgetPet, owned, removed, bad>>

\* A step fails: the staging directory is removed and the old pet is moved back,
\* unless that fails too.  A seeding that fails stores nothing, and the start
\* of the program hangs on the record of it.
GiveUp ==
  /\ job.op \in {"manifest", "sheet", "swap", "in"}
  /\ stage' = NoDir /\ backup' = NoDir
  /\ job' = IF job.seeding THEN Hung ELSE Rest
  /\ IF backup = NoDir THEN UNCHANGED <<dirs, bad>>
     ELSE \/ dirs' = [dirs EXCEPT ![job.id] = backup] /\ UNCHANGED bad
          \/ bad' = bad \cup {"lost"} /\ UNCHANGED dirs
  /\ UNCHANGED <<acknowledged, marker, seeded, widgetPet, owned, removed>>

-----------------------------------------------------------------------------
(* seed_default_pets *)

\* Seeded fault: what is missing is installed.
SeedMissing(id) ==
  /\ job = Seeding /\ id \in Defaults
  /\ IF Exists(id)
     THEN acknowledged' = acknowledged \cup {id} /\ UNCHANGED <<job, stage>>
     ELSE BeginInstall(id, Bundled, TRUE) /\ UNCHANGED acknowledged
  /\ UNCHANGED <<dirs, backup, marker, seeded, widgetPet, owned, removed, bad>>

\* The next bundled pet that is not known to have been seeded; one that is
\* there already is not installed.
Seed(id) ==
  /\ job = Seeding /\ id \in Defaults \ acknowledged
  /\ IF Exists(id)
     THEN acknowledged' = acknowledged \cup {id} /\ UNCHANGED <<job, stage>>
     ELSE BeginInstall(id, Bundled, TRUE) /\ UNCHANGED acknowledged
  /\ UNCHANGED <<dirs, backup, marker, seeded, widgetPet, owned, removed, bad>>

\* The two settings are stored one after the other, or one fails.
Mark ==
  /\ job = Seeding /\ Defaults \subseteq acknowledged
  /\ \/ marker' = TRUE /\ job' = Marked
     \/ marker' = marker /\ job' = Hung
  /\ UNCHANGED <<dirs, stage, backup, acknowledged, seeded, widgetPet, owned, removed, bad>>
StoreIds ==
  /\ job.op = "marked"
  /\ \/ seeded' = acknowledged /\ job' = Rest
     \/ seeded' = seeded /\ job' = Hung
  /\ UNCHANGED <<dirs, stage, backup, acknowledged, marker, widgetPet, owned, removed, bad>>

-----------------------------------------------------------------------------
(* The commands *)

\* import_widget_pet and import_widget_pet_file, of a package that is valid.
Import(id, p) ==
  /\ job = Rest
  /\ BeginInstall(id, p, FALSE)
  /\ removed' = removed \ {id}
  /\ UNCHANGED <<dirs, backup, acknowledged, marker, seeded, widgetPet, owned, bad>>

\* set_widget_pet
Choose(id) ==
  /\ job = Rest /\ Exists(id)
  /\ widgetPet' = id
  /\ UNCHANGED <<dirs, stage, backup, job, acknowledged, marker, seeded, owned, removed, bad>>

\* remove_dir_all, which goes file by file.
RemovePet(id) ==
  /\ job = Rest /\ Exists(id)
  /\ \E file \in {"manifest", "sheet"} : dirs' = [dirs EXCEPT ![id] = [@ EXCEPT ![file] = NoFile]]
  /\ job' = [op |-> "remove", id |-> id]
  /\ owned' = owned \ {id}
  /\ UNCHANGED <<stage, backup, acknowledged, marker, seeded, widgetPet, removed, bad>>
RemoveDir ==
  /\ job.op = "remove"
  /\ \/ /\ dirs' = [dirs EXCEPT ![job.id] = NoDir]
        /\ removed' = removed \cup {job.id}
        /\ job' = [op |-> "reset", id |-> job.id]
        /\ UNCHANGED bad
     \/ /\ job' = Rest
        /\ bad' = bad \cup {"failed"}
        /\ UNCHANGED <<dirs, removed>>
  /\ UNCHANGED <<stage, backup, acknowledged, marker, seeded, widgetPet, owned>>

\* Seeded fault: the widget keeps its pet.
ResetNothing ==
  /\ job.op = "reset"
  /\ job' = Rest
  /\ UNCHANGED <<dirs, stage, backup, acknowledged, marker, seeded, widgetPet, owned, removed, bad>>

\* "When it was the active one the widget falls back to the built-in robot".
Reset ==
  /\ job.op = "reset"
  /\ job' = Rest
  /\ \/ /\ widgetPet' = IF widgetPet = job.id THEN NoPet ELSE widgetPet
        /\ UNCHANGED bad
     \/ /\ widgetPet = job.id
        /\ bad' = bad \cup {"failed"}
        /\ UNCHANGED widgetPet
  /\ UNCHANGED <<dirs, stage, backup, acknowledged, marker, seeded, owned, removed>>

PetNext ==
  \/ Kill
  \/ WriteFile \/ Swap \/ MoveIn \/ Clean \/ GiveUp
  \/ \E id \in Ids : Seed(id) \/ Choose(id) \/ RemovePet(id) \/ (\E p \in Packages : Import(id, p))
  \/ Mark \/ StoreIds
  \/ RemoveDir \/ Reset

PetSpec == PetInit /\ [][PetNext]_petVars

-----------------------------------------------------------------------------
(* Properties *)

\* A pet that is listed has the manifest and the sheet of one package, wherever
\* an import or a removal was interrupted; the two are validated together.
ListedIsWhole == \A id \in Listed : dirs[id].manifest = dirs[id].sheet

\* A failed import leaves the pet it was to replace: unless the process was
\* killed or the old pet could not be moved back, what was installed is listed.
OwnedIsListed == job = Rest /\ bad \cap {"killed", "lost"} = {} => owned \subseteq Listed

\* Neither "deleting custom pets or restoring a default the user removed"
\* (pets.rs): the bundled pets are seeded one by one and recorded at the end, so
\* a seeding that is killed is repeated; it never brings back a pet that the user
\* has removed, also across the upgrade from the versions that stored a flag.
DefaultsStayRemoved == \A id \in removed \cap Defaults : ~Exists(id)

\* The widget's pet is installed, unless a removal failed half-way or the
\* process was killed.
WidgetPetIsInstalled == job = Rest /\ bad = {} => widgetPet \in Listed \cup {NoPet}

\* Imports, removals and starts, interrupted or not, leave every pet whole and
\* each where its user wants it.
PetsAreKept ==
  /\ ListedIsWhole
  /\ OwnedIsListed
  /\ DefaultsStayRemoved
  /\ WidgetPetIsInstalled

-----------------------------------------------------------------------------
(* What the code says of itself and does not do: see the README.            *)

\* "Atomically installs" (pets.rs): an import that is killed leaves the old pet
\* or the new one.
InstallIsAtomic == job = Rest /\ "lost" \notin bad => owned \subseteq Listed
=============================================================================
