--------------------------- MODULE ProfileSettings ---------------------------
(***************************************************************************)
(* Execution profiles: which model of which connection runs a stage of a   *)
(* recording, src/src/localplaud/providers/service.py, providers/resolver  *)
(* .py, and who may change that while work is under way.                   *)
(*                                                                         *)
(* A profile version is immutable.  A recording resolves through layers:   *)
(* the system default, its folder, the assignment of a rule, its note      *)
(* template and its own selection, the later one winning; a layer that     *)
(* names a profile that is gone fails the resolution.  One stage stands    *)
(* for all, and each model has a connection of its own, which stays on the *)
(* host or sends data away.                                                *)
(*                                                                         *)
(* A change first takes the database's write lock and refuses while a      *)
(* recording it bears on is under a claim, an Ask or an indexing lease     *)
(* (lock_recording_profile_change).  Profiles, models and connections      *)
(* belong to the host and its owner changes them; recordings, folders,     *)
(* rules and templates belong to a workspace, and every query sees those   *)
(* of the caller's workspace only (db/tenancy.py).                         *)
(***************************************************************************)
EXTENDS Naturals, FiniteSets

CONSTANTS
    Model,          \* the models of the catalogue
    File,           \* the recordings of all workspaces
    OwnFiles,       \* those of the owner's workspace
    Profiles,       \* bound: ids of the profile versions, 1 .. Profiles
    MaxEdits        \* bound: how often settings are changed

ASSUME ProfileConstants ==
    /\ OwnFiles \subseteq File
    /\ Profiles \in Nat \ {0} /\ MaxEdits \in Nat

VARIABLES
    settings,       \* the tables the resolution reads
    chunks,         \* the embedding space of the vectors of each recording
    underWay,       \* the work under way on each recording
    asking,         \* a request that read its profile and holds no lock yet
    edits           \* changes so far

profileVars == <<settings, chunks, underWay, asking, edits>>

Profile == 1 .. Profiles
Some == 0 .. Profiles                       \* 0: no profile
NoSpace == <<>>
Space == Model \X {"local", "cloud"}
NoWork == [by |-> "nobody", space |-> NoSpace]
NoAsk == [kind |-> "none", p |-> 0, spared |-> FALSE]

Version == [row : {"none", "live", "gone"}, model : Model, private : BOOLEAN, default : BOOLEAN]

ProfileTypeOK ==
    /\ settings \in
         [version : [Profile -> Version],
          catalog : SUBSET Model,           \* model_catalog_entries
          enabled : SUBSET Model,
          conf : [Model -> {"local", "cloud"}],
          override : [File -> Some],        \* recording_profile_overrides
          assigned : [File -> Some],        \* recording_rule_profile_assignments
          folder : Some, inside : SUBSET OwnFiles,
          template : Some, archived : SUBSET Profile, choosing : SUBSET OwnFiles,
          rule : Some]
    /\ chunks \in [File -> Space \cup {NoSpace}]
    /\ underWay \in [File -> [by : {"nobody", "cycle", "call"}, space : Space \cup {NoSpace}]]
    /\ asking \in [kind : {"none", "delete", "folder", "template", "rule"}, p : Some, spared : BOOLEAN]
    /\ edits \in 0 .. MaxEdits

(* bootstrap_default_profile: one profile, made of the settings file.      *)
ProfileInit ==
    /\ \E m \in Model :
         settings = [version |-> [p \in Profile |-> [row |-> IF p = 1 THEN "live" ELSE "none",
                                                     model |-> m, private |-> FALSE, default |-> p = 1]],
                     catalog |-> Model, enabled |-> Model, conf |-> [x \in Model |-> "local"],
                     override |-> [f \in File |-> 0], assigned |-> [f \in File |-> 0],
                     folder |-> 0, inside |-> {}, template |-> 0, archived |-> {}, choosing |-> {},
                     rule |-> 0]
    /\ chunks = [f \in File |-> NoSpace]
    /\ underWay = [f \in File |-> NoWork]
    /\ asking = NoAsk /\ edits = 0

----------------------------------------------------------------------------
(* resolve_recording_profile and resolve_profile.                          *)

Stands(s, p) == p # 0 /\ s.version[p].row = "live"
Default(s) == {p \in Profile : Stands(s, p) /\ s.version[p].default}

(* The layers above the system's, the winning one first.                   *)
Layers(s, f) ==
    << s.override[f],
       IF f \in s.choosing THEN s.template ELSE 0,
       s.assigned[f],
       IF f \in s.inside THEN s.folder ELSE 0 >>

Chosen(s, f) ==
    LET above == {i \in 1 .. 4 : Layers(s, f)[i] # 0}
    IN  IF above = {} THEN CHOOSE p \in Default(s) : TRUE
        ELSE Layers(s, f)[CHOOSE i \in above : \A j \in above : i <= j]

(* The selection is looked up in the catalogue of enabled models, and a    *)
(* profile without egress refuses a connection that sends data away.       *)
Admits(s, p) ==
    LET m == s.version[p].model
    IN  m \in s.catalog \cap s.enabled /\ ~(s.version[p].private /\ s.conf[m] = "cloud")

(* What a stage of f runs on, or NoSpace: the resolution fails.            *)
RunsOn(s, f) ==
    IF /\ Default(s) # {}
       /\ \A i \in 1 .. 4 : Layers(s, f)[i] # 0 => Stands(s, Layers(s, f)[i])
       /\ Admits(s, Chosen(s, f))
    THEN LET m == s.version[Chosen(s, f)].model IN <<m, s.conf[m]>>
    ELSE NoSpace

----------------------------------------------------------------------------
(* The work that resolves: a cycle under its claim, or a call of Ask or of *)
(* the note index under its lease.                                         *)

Begins(f, by) ==
    /\ underWay[f] = NoWork /\ RunsOn(settings, f) # NoSpace
    /\ underWay' = [underWay EXCEPT ![f] = [by |-> by, space |-> RunsOn(settings, f)]]
    /\ UNCHANGED <<settings, chunks, asking, edits>>

(* The index stage of the cycle wrote its vectors.                         *)
CycleEnds(f) ==
    /\ underWay[f].by = "cycle"
    /\ chunks' = [chunks EXCEPT ![f] = underWay[f].space]
    /\ underWay' = [underWay EXCEPT ![f] = NoWork]
    /\ UNCHANGED <<settings, asking, edits>>

(* It failed, or its claim ran out after a crash.                          *)
WorkFails(f) ==
    /\ underWay[f] # NoWork
    /\ underWay' = [underWay EXCEPT ![f] = NoWork]
    /\ UNCHANGED <<settings, chunks, asking, edits>>

(* Mutant: only a processing claim keeps a change out.                     *)
FreeOfCycles(F) == \A f \in F : underWay[f].by # "cycle"

(* lock_recording_profile_change passes for each of F.                     *)
Free(F) == \A f \in F : underWay[f] = NoWork

(* sync_file_knowledge_documents for each of F at the end of a change: it  *)
(* resolves again what is indexed, which fails the whole transaction when  *)
(* that is impossible, and drops vectors of another space.                 *)
Rewrites(new, F) ==
    /\ edits < MaxEdits /\ edits' = edits + 1
    /\ \A f \in F : chunks[f] # NoSpace => RunsOn(new, f) # NoSpace
    /\ settings' = new
    /\ chunks' = [f \in File |-> IF f \in F /\ chunks[f] # RunsOn(new, f) THEN NoSpace ELSE chunks[f]]

(* A change of one transaction that bears on the recordings F.             *)
Change(F, new) == Free(F) /\ Rewrites(new, F) /\ UNCHANGED <<underWay, asking>>

(* A change without fence and without sync: nothing refers to it yet.      *)
Unfenced(new) == Rewrites(new, {}) /\ UNCHANGED underWay

(* A request that reads in one transaction, or before it takes the lock.   *)
LooksUp(kind, p) ==
    /\ asking = NoAsk /\ Stands(settings, p)
    /\ asking' = [kind |-> kind, p |-> p, spared |-> settings.version[p].default]
    /\ UNCHANGED <<settings, chunks, underWay, edits>>

Proceeds(kind) == asking.kind = kind /\ asking' = NoAsk

GivesUp ==
    /\ asking # NoAsk /\ asking' = NoAsk
    /\ UNCHANGED <<settings, chunks, underWay, edits>>

----------------------------------------------------------------------------
(* Profiles.                                                               *)

(* create_profile_version.  The INSERT takes the write lock before the     *)
(* models are looked up; a new default is fenced, any other is not.        *)
NewProfile(m, private, default) ==
    \E p \in Profile :
       LET old == settings.version
           made == [row |-> "live", model |-> m, private |-> private, default |-> default]
           new == [settings EXCEPT !.version = [q \in Profile |->
                     IF q = p THEN made
                     ELSE [old[q] EXCEPT !.default = @ /\ ~default]]]
       IN  /\ old[p].row = "none" /\ \A q \in 1 .. p - 1 : old[q].row # "none"
           /\ Admits(new, p)
           /\ IF default THEN Change(OwnFiles, new) ELSE Unfenced(new) /\ UNCHANGED asking

(* install_hardware_recommendation of an installed one.                    *)
MakeDefault(p) ==
    /\ Stands(settings, p) /\ ~settings.version[p].default
    /\ Change(OwnFiles, [settings EXCEPT !.version =
                       [q \in Profile |-> [@[q] EXCEPT !.default = q = p]]])

(* Mutant: what a recording selects is not looked up.                      *)
UsesButOverrides(F) ==
    {settings.assigned[f] : f \in F} \cup settings.archived
    \cup {settings.folder, settings.template, settings.rule}

(* delete_profile: what refers to a profile in the caller's workspace.     *)
Uses(F) ==
    {settings.override[f] : f \in F} \cup {settings.assigned[f] : f \in F} \cup settings.archived
    \cup {settings.folder, settings.template, settings.rule}

(* The row was read before the lock, and with it is_system_default.        *)
DeletesProfile ==
    /\ Proceeds("delete") /\ Free(OwnFiles)
    /\ ~asking.spared /\ asking.p \notin Uses(OwnFiles)
    /\ Stands(settings, asking.p)
    /\ Unfenced([settings EXCEPT !.version[asking.p].row = "gone", !.version[asking.p].default = FALSE])

----------------------------------------------------------------------------
(* What recordings refer to.                                               *)

SelectOverride(f, p) ==
    /\ Stands(settings, p) /\ settings.override[f] # p
    /\ Change({f}, [settings EXCEPT !.override[f] = p])

ClearOverride(f) ==
    /\ settings.override[f] # 0
    /\ Change({f}, [settings EXCEPT !.override[f] = 0])

(* select_folder_profile looks the profile up before it takes the lock.    *)
SetsFolder ==
    /\ Proceeds("folder") /\ Free(settings.inside)
    /\ Rewrites([settings EXCEPT !.folder = asking.p], settings.inside)
    /\ UNCHANGED underWay

(* organize_files; delete_folder.                                          *)
Moves(f) ==
    Change({f}, [settings EXCEPT !.inside = IF f \in @ THEN @ \ {f} ELSE @ \cup {f}])

DeleteFolder ==
    /\ settings.folder # 0
    /\ Change(settings.inside, [settings EXCEPT !.inside = {}, !.folder = 0])

(* create_note_template: a new key, which no recording chose.              *)
CreatesTemplate ==
    /\ Proceeds("template") /\ settings.template = 0
    /\ Unfenced([settings EXCEPT !.template = asking.p])

(* create_note_template_version: the old version keeps its row.            *)
VersionTemplate(p) ==
    /\ settings.template # 0 /\ Stands(settings, p) /\ p # settings.template
    /\ Change(OwnFiles, [settings EXCEPT !.template = p, !.archived = @ \cup {settings.template}])

ArchiveTemplate ==
    /\ settings.template # 0
    /\ Change(settings.choosing, [settings EXCEPT !.template = 0, !.choosing = {},
                                                  !.archived = @ \cup {settings.template}])

ChooseTemplate(f) ==
    /\ settings.template # 0
    /\ Change({f}, [settings EXCEPT !.choosing = IF f \in @ THEN @ \ {f} ELSE @ \cup {f}])

(* create_rule and update_rule: validate_rule_references has a transaction *)
(* of its own.                                                             *)
SavesRule ==
    /\ Proceeds("rule")
    /\ Unfenced([settings EXCEPT !.rule = asking.p])

(* delete_rule keeps what the rule did.                                    *)
DeleteRule ==
    /\ settings.rule # 0
    /\ Unfenced([settings EXCEPT !.rule = 0]) /\ UNCHANGED asking

(* _apply_actions, from an evaluation of the library, or within the cycle  *)
(* that owns f, which resolves again before it calls anybody.              *)
RuleFires(f) ==
    LET new == [settings EXCEPT !.assigned[f] = settings.rule]
    IN  /\ settings.rule # 0 /\ settings.assigned[f] # settings.rule
        /\ underWay[f].by # "call"
        /\ Rewrites(new, {f}) /\ UNCHANGED asking
        /\ underWay' = IF underWay[f] = NoWork THEN underWay
                   ELSE [underWay EXCEPT ![f] = IF RunsOn(new, f) = NoSpace THEN NoWork
                                            ELSE [by |-> "cycle", space |-> RunsOn(new, f)]]

----------------------------------------------------------------------------
(* Models and connections: save_model, save_connection, delete_model.      *)

SwitchModel(m) ==
    /\ m \in settings.catalog
    /\ Change(OwnFiles, [settings EXCEPT !.enabled = IF m \in @ THEN @ \ {m} ELSE @ \cup {m}])

SaveConnection(m) ==
    Change(OwnFiles, [settings EXCEPT !.conf[m] = IF @ = "local" THEN "cloud" ELSE "local"])

(* No profile of any workspace selects it: profiles belong to the host.    *)
DeleteModel(m) ==
    /\ m \in settings.catalog
    /\ \A p \in Profile : Stands(settings, p) => settings.version[p].model # m
    /\ Free(OwnFiles) /\ Unfenced([settings EXCEPT !.catalog = @ \ {m}]) /\ UNCHANGED asking

NewModel(m) ==
    /\ m \notin settings.catalog
    /\ Unfenced([settings EXCEPT !.catalog = @ \cup {m}, !.enabled = @ \cup {m}]) /\ UNCHANGED asking

----------------------------------------------------------------------------
Works ==
    \E f \in File : \/ \E by \in {"cycle", "call"} : Begins(f, by)
                    \/ CycleEnds(f) \/ WorkFails(f)

Owner ==
    \/ \E m \in Model : \/ \E private, default \in BOOLEAN : NewProfile(m, private, default)
                        \/ SwitchModel(m) \/ SaveConnection(m) \/ DeleteModel(m) \/ NewModel(m)
    \/ \E p \in Profile : MakeDefault(p) \/ LooksUp("delete", p)
    \/ DeletesProfile

Workspace ==
    \/ \E f \in File : ClearOverride(f) \/ \E p \in Profile : SelectOverride(f, p)
    \/ \E f \in OwnFiles : Moves(f) \/ ChooseTemplate(f) \/ RuleFires(f)
    \/ \E p \in Profile : VersionTemplate(p) \/ \E kind \in {"folder", "template", "rule"} : LooksUp(kind, p)
    \/ SetsFolder \/ DeleteFolder \/ CreatesTemplate \/ ArchiveTemplate \/ SavesRule \/ DeleteRule

ProfileNext == Works \/ Owner \/ Workspace \/ GivesUp

ProfileSpec == ProfileInit /\ [][ProfileNext]_profileVars

----------------------------------------------------------------------------
(* Properties.                                                             *)

(* While a cycle or a call is under way on a recording of the owner's      *)
(* workspace, the recording resolves to what the work resolved it to: no   *)
(* change of a profile, a default, a folder, a template, a rule, a model   *)
(* or a connection slips under it (lock_library_profile_change and         *)
(* lock_recording_profile_change).                                         *)
WorkRunsAsResolved == \A f \in OwnFiles : underWay[f] # NoWork => RunsOn(settings, f) = underWay[f].space

(* Its vectors are never of another space than the one its profile names:  *)
(* every change that moves it drops them (sync_transcript_index_profiles). *)
VectorsFollowProfile ==
    \A f \in OwnFiles : chunks[f] # NoSpace => RunsOn(settings, f) \in {chunks[f], NoSpace}

(* At most one profile is the system's default, and neither the profile a  *)
(* recording of the owner's workspace selects nor the model a profile      *)
(* selects is ever deleted.                                                *)
SelectionsStand ==
    /\ Cardinality(Default(settings)) <= 1
    /\ \A f \in OwnFiles : settings.override[f] # 0 => Stands(settings, settings.override[f])
    /\ \A p \in Profile : Stands(settings, p) => settings.version[p].model \in settings.catalog

ProfileSafety == WorkRunsAsResolved /\ VectorsFollowProfile /\ SelectionsStand

(* lock_library_profile_change: "Fence a provider/profile mutation against *)
(* every recording worker."                                                *)
EveryWorkerIsFenced == \A f \in File : underWay[f] # NoWork => RunsOn(settings, f) = underWay[f].space
=============================================================================
