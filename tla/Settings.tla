------------------------------ MODULE Settings ------------------------------
(***************************************************************************)
(* Preferences, the preferences window, scan profiles, and the options a   *)
(* scan runs with (qt/preferences.py, qt/preferences_dialog.py and its     *)
(* three editions, qt/scan_profile.py, core/scan_profile.py, and what      *)
(* qt/app.py and qt/directories_dialog.py do with them).                   *)
(*                                                                         *)
(* The same setting is kept in five places: the boxes of the open window,  *)
(* the preferences, the stored settings, a profile, and the options of the *)
(* core.  A preference is TRUE when it is not the default; those that are  *)
(* alike in where they are kept are one.                                   *)
(***************************************************************************)
EXTENDS Naturals, FiniteSets

CONSTANTS
  ProfileName,  \* names a profile is saved under
  ScanFolder,       \* folders that are scanned; none is inside another
  NoProfile,    \* no profile of this name
  EditBound,  \* bound: changes of boxes, mode, scan type and folders
  UnplugBound   \* bound: times a drive is unplugged

ASSUME SettingsConstants ==
  EditBound \in Nat /\ UnplugBound \in Nat /\ NoProfile \notin [mode : STRING]

VARIABLES
  prefs,        \* the Preferences object
  stored,       \* what QSettings holds
  scanTypes,    \* the scan type of each mode, which goes to QSettings at once
  appMode,      \* DupeGuru.app_mode
  options,      \* DupeGuru.options
  attached,     \* the listing and match caches are connected
  window,       \* the preferences window: whether it is open, and its boxes
  roots, references, \* folders to scan, and those in reference state
  plugged,      \* folders that exist
  profiles,     \* by name, with the options there were when it was saved
  files,        \* scan_profiles.xml and last_directories.xml
  edits, unplugs

settingsVars == <<prefs, stored, scanTypes, appMode, options, attached, window,
                  roots, references, plugged, profiles, files, edits, unplugs>>

Mode == {"standard", "music", "picture"}

\* The boxes of each page, and those only some editions have, on the first page.
General == {"filter_hardness", "destination_type"}
Display == {"table_font"}
Advanced == {"verify_before_delete"}
Debug == {"profile_scan"}
Specific == [standard |-> {"big_file_partial_hashes", "full_verify", "cache_file_list", "match_similar"},
             music    |-> {"match_similar", "scan_tags"},
             picture  |-> {"match_scaled"}]
Boxes(mode) == General \cup Display \cup Advanced \cup Debug \cup Specific[mode]
Pref == UNION {Boxes(mode) : mode \in Mode}

\* Mutant: a preference that was added to the window only.
ScanPreferencesShort == {"filter_hardness", "big_file_partial_hashes", "full_verify", "match_similar",
                         "scan_tags", "match_scaled"}
\* What a profile holds: settings that describe what a scan does.
ScanPreferences == {"filter_hardness", "big_file_partial_hashes", "full_verify", "cache_file_list",
                    "match_similar", "scan_tags", "match_scaled"}

\* get_scan_options of the three scanners, and the types nobody has chosen.
ScanOptions == [standard |-> {"filename", "contents", "folders"},
                music    |-> {"filename", "fields", "fieldsnoorder", "tag", "contents"},
                picture  |-> {"fuzzyblock", "exiftimestamp"}]
DefaultScanTypes == [standard |-> "contents", music |-> "tag", picture |-> "fuzzyblock"]

Defaults == [p \in Pref |-> FALSE]
NoWindow == [open |-> FALSE, boxes |-> <<>>]

\* The options of a scan: full verification only means something with partial hashes.
Optional == Pref \ (Display \cup Debug)
OptionsFor(p, types, mode) ==
  [scan_type |-> types[mode],
   flags |-> {q \in Optional : p[q] /\ (q = "full_verify" => p["big_file_partial_hashes"])}]
\* _update_options, with _apply_file_list_cache.
UpdateOptions(p, types, mode) ==
  options' = OptionsFor(p, types, mode) /\ attached' = p["cache_file_list"]

NoProfiles == [n \in ProfileName |-> NoProfile]
\* What save_to_file writes, of the profiles and of the folders.
FilesOf(saved) == [profiles |-> saved, roots |-> roots, references |-> references]

SettingsInit ==
  /\ prefs = Defaults /\ stored = Defaults /\ scanTypes = DefaultScanTypes /\ appMode = "standard"
  /\ options = OptionsFor(prefs, scanTypes, appMode) /\ attached = FALSE /\ window = NoWindow
  /\ roots = {} /\ references = {} /\ plugged = ScanFolder
  /\ profiles = NoProfiles /\ files = FilesOf(NoProfiles)
  /\ edits = 0 /\ unplugs = 0

Edit == edits < EditBound /\ edits' = edits + 1

folderVars == <<roots, references, plugged, unplugs>>
profileVars == <<profiles, files>>
optionVars == <<options, attached>>

-----------------------------------------------------------------------------
(* The preferences window.                                                 *)

\* preferencesTriggered: the edition of the mode, loaded from the preferences.
OpenPreferences ==
  /\ ~window.open
  /\ window' = [open |-> TRUE, boxes |-> [p \in Boxes(appMode) |-> prefs[p]]]
  /\ UNCHANGED <<prefs, stored, scanTypes, appMode, edits>>
  /\ UNCHANGED folderVars /\ UNCHANGED profileVars /\ UNCHANGED optionVars

EditBox(p) ==
  /\ window.open /\ p \in DOMAIN window.boxes /\ Edit
  /\ window' = [window EXCEPT !.boxes[p] = ~@]
  /\ UNCHANGED <<prefs, stored, scanTypes, appMode>>
  /\ UNCHANGED folderVars /\ UNCHANGED profileVars /\ UNCHANGED optionVars

\* buttonClicked: the page that is shown; Advanced is not among those it knows.
SectionToUpdate(page) ==
  CASE page = "general" -> General [] page = "display" -> Display [] page = "debug" -> Debug
    [] OTHER -> General \cup Display \cup Advanced \cup Debug
\* load from fresh preferences; _load of the edition is not told the section.
RestoreDefaults(page) ==
  /\ window.open /\ Edit
  /\ window' = [window EXCEPT !.boxes = [p \in DOMAIN @ |->
                  IF p \in SectionToUpdate(page) \cup Specific[appMode] THEN Defaults[p] ELSE @[p]]]
  /\ UNCHANGED <<prefs, stored, scanTypes, appMode>>
  /\ UNCHANGED folderVars /\ UNCHANGED profileVars /\ UNCHANGED optionVars

\* OK: the boxes are read back, the preferences stored, and the options rebuilt.
AcceptPreferences ==
  /\ window.open /\ window' = NoWindow
  /\ prefs' = [p \in Pref |-> IF p \in DOMAIN window.boxes THEN window.boxes[p] ELSE prefs[p]]
  /\ stored' = prefs'
  /\ UpdateOptions(prefs', scanTypes, appMode)
  /\ UNCHANGED <<scanTypes, appMode, edits>>
  /\ UNCHANGED folderVars /\ UNCHANGED profileVars

CancelPreferences ==
  /\ window.open /\ window' = NoWindow
  /\ UNCHANGED <<prefs, stored, scanTypes, appMode, edits>>
  /\ UNCHANGED folderVars /\ UNCHANGED profileVars /\ UNCHANGED optionVars

-----------------------------------------------------------------------------
(* The directories window.                                                 *)

\* appModeButtonSelected, and _updateScanTypeList.
AppModeButtonSelected(mode) ==
  /\ ~window.open /\ mode # appMode /\ Edit
  /\ appMode' = mode /\ UpdateOptions(prefs, scanTypes, mode)
  /\ UNCHANGED <<prefs, stored, scanTypes, window>>
  /\ UNCHANGED folderVars /\ UNCHANGED profileVars

ScanTypeChanged(type) ==
  /\ ~window.open /\ type \in ScanOptions[appMode] \ {scanTypes[appMode]} /\ Edit
  /\ scanTypes' = [scanTypes EXCEPT ![appMode] = type]
  /\ UpdateOptions(prefs, scanTypes', appMode)
  /\ UNCHANGED <<prefs, stored, appMode, window>>
  /\ UNCHANGED folderVars /\ UNCHANGED profileVars

\* A folder is added, or removed and its state kept, or its state changed.
EditFolders(f) ==
  /\ ~window.open /\ Edit
  /\ \/ f \in plugged \ roots /\ roots' = roots \cup {f} /\ UNCHANGED references
     \/ f \in roots /\ roots' = roots \ {f} /\ UNCHANGED references
     \/ f \in roots \cap references /\ references' = references \ {f} /\ UNCHANGED roots
     \/ f \in roots \ references /\ references' = references \cup {f} /\ UNCHANGED roots
  /\ UNCHANGED <<prefs, stored, scanTypes, appMode, window, plugged, unplugs>>
  /\ UNCHANGED profileVars /\ UNCHANGED optionVars

-----------------------------------------------------------------------------
(* Profiles.                                                               *)

\* DupeGuru.save: the folders and the profiles.
SaveModel == files' = FilesOf(profiles')

\* ScanProfile.capture, with capture_settings: the window as it is.
Captured ==
  [mode |-> appMode, roots |-> roots, references |-> references, scanType |-> scanTypes[appMode],
   settings |-> [p \in ScanPreferences |-> prefs[p]], options |-> options]

\* saveScanProfile, over a profile of that name if there is one.
SaveScanProfile(n) ==
  /\ ~window.open /\ roots # {}
  /\ profiles' = [profiles EXCEPT ![n] = Captured]
  /\ profiles' # profiles /\ SaveModel
  /\ UNCHANGED <<prefs, stored, scanTypes, appMode, window, edits>>
  /\ UNCHANGED folderVars /\ UNCHANGED optionVars

\* Mutant: the options are rebuilt before the mode changes.
RefreshAppModeEarly == UpdateOptions(prefs', scanTypes', appMode)
\* refreshAppMode: the window shows the mode the model is in, and the options are rebuilt.
RefreshAppMode == UpdateOptions(prefs', scanTypes', appMode')

\* apply_scan_profile: the folders that exist, their states, and the mode.
ApplyScanProfile(profile) ==
  /\ roots' = profile.roots \cap plugged
  /\ references' = profile.references \cap plugged
  /\ appMode' = profile.mode
\* apply_settings, to the preferences and to the scan type of the profile's own mode.
ApplySettings(profile) ==
  /\ prefs' = [p \in Pref |-> IF p \in DOMAIN profile.settings THEN profile.settings[p] ELSE prefs[p]]
  /\ scanTypes' = [scanTypes EXCEPT ![profile.mode] = profile.scanType]

LoadScanProfile(n) ==
  /\ ~window.open /\ profiles[n] # NoProfile
  /\ ApplyScanProfile(profiles[n]) /\ ApplySettings(profiles[n]) /\ RefreshAppMode
  /\ UNCHANGED <<stored, window, plugged, unplugs, edits>> /\ UNCHANGED profileVars

\* deleteClicked: nothing is written.
DeleteScanProfile(n) ==
  /\ ~window.open /\ profiles[n] # NoProfile
  /\ profiles' = [profiles EXCEPT ![n] = NoProfile]
  /\ UNCHANGED <<prefs, stored, scanTypes, appMode, window, files, edits>>
  /\ UNCHANGED folderVars /\ UNCHANGED optionVars

-----------------------------------------------------------------------------
(* The end of one session and the start of the next.                       *)

\* Preferences.load: one that was never stored has its default.
LoadPreferences(settings) == prefs' = settings
\* ProfileStore.load_from_file
LoadProfiles(file) == profiles' = file.profiles
\* Directories.load_from_file: a folder that is not there is dropped, not its state.
LoadFolders(file) == roots' = file.roots \cap plugged /\ references' = file.references
\* _setup and DupeGuru.load
StartFrom(settings, file) ==
  /\ LoadPreferences(settings) /\ appMode' = "standard" /\ window' = NoWindow
  /\ UpdateOptions(settings, scanTypes, "standard")
  /\ LoadProfiles(file) /\ LoadFolders(file)

\* shutdown
Shutdown ==
  /\ ~window.open
  /\ stored' = prefs /\ files' = FilesOf(profiles)
  /\ StartFrom(prefs, files')
  /\ UNCHANGED <<scanTypes, plugged, unplugs, edits>>

Crash ==
  /\ StartFrom(stored, files)
  /\ UNCHANGED <<stored, files, scanTypes, plugged, unplugs, edits>>

\* Drives come and go.
Unplug(f) ==
  /\ f \in plugged /\ unplugs < UnplugBound /\ unplugs' = unplugs + 1 /\ plugged' = plugged \ {f}
  /\ UNCHANGED <<prefs, stored, scanTypes, appMode, window, roots, references, edits>>
  /\ UNCHANGED profileVars /\ UNCHANGED optionVars
Plug(f) ==
  /\ f \notin plugged /\ plugged' = plugged \cup {f}
  /\ UNCHANGED <<prefs, stored, scanTypes, appMode, window, roots, references, edits, unplugs>>
  /\ UNCHANGED profileVars /\ UNCHANGED optionVars

SettingsNext ==
  \/ OpenPreferences \/ AcceptPreferences \/ CancelPreferences
  \/ \E p \in Pref : EditBox(p)
  \/ \E page \in {"general", "display", "advanced", "debug"} : RestoreDefaults(page)
  \/ \E mode \in Mode : AppModeButtonSelected(mode)
  \/ \E type \in UNION {ScanOptions[mode] : mode \in Mode} : ScanTypeChanged(type)
  \/ \E f \in ScanFolder : EditFolders(f) \/ Unplug(f) \/ Plug(f)
  \/ \E n \in ProfileName : SaveScanProfile(n) \/ LoadScanProfile(n) \/ DeleteScanProfile(n)
  \/ Shutdown \/ Crash
SettingsSpec == SettingsInit /\ [][SettingsNext]_settingsVars

-----------------------------------------------------------------------------
\* A profile restores the scan it was saved for, sessions later and from any mode: its folders
\* that exist, with the originals protected, and the options there were.
ProfileRestoresScan ==
  [][\A n \in ProfileName : LoadScanProfile(n) =>
       /\ roots' = profiles[n].roots \cap plugged /\ profiles[n].references \cap roots' \subseteq references'
       /\ options'.scan_type = profiles[n].options.scan_type
       /\ \A p \in Optional \ {"destination_type", "verify_before_delete"} :
            p \in options'.flags <=> p \in profiles[n].options.flags]_settingsVars

\* "A profile the user just named and then lost to a crash is worse than no profile feature"
\* (saveScanProfile): a profile that is there is in the file as it is.
ProfilesSurvive == \A n \in ProfileName : profiles[n] \in {NoProfile, files.profiles[n]}

\* What the user has set is in force everywhere, and what was to be kept is kept: the next scan
\* runs with what the preferences say for the mode that is shown, and the caches are connected
\* exactly when it may use them, whatever was changed last, and from where.
SettingsAreKept ==
  /\ options = OptionsFor(prefs, scanTypes, appMode)
  /\ attached = prefs["cache_file_list"]
  /\ ProfilesSurvive
=============================================================================
