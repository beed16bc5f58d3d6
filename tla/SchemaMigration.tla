-------------------------- MODULE SchemaMigration --------------------------
(***************************************************************************)
(* The start of a process on a library of any age: init_db of              *)
(* src/src/localplaud/db/session.py and the migrations it runs, of         *)
(* src/src/localplaud/db/migrations.py.                                    *)
(*                                                                         *)
(* Under a file lock a process creates the tables that are missing and     *)
(* then runs every migration, each of which inspects the schema, decides,  *)
(* and changes it.  On SQLite a CREATE or ALTER takes effect by itself,    *)
(* whatever transaction seems to be around it, until a first INSERT,       *)
(* UPDATE or DELETE opens one; only the scripts that rebuild a table open  *)
(* theirs before.  A process may die between any two of these steps, and   *)
(* another may start at any time.                                          *)
(*                                                                         *)
(* The schema is a set of parts <<table, part>>: columns and indexes.  The *)
(* columns that one migration adds under one rule are one or two parts.    *)
(***************************************************************************)
EXTENDS Naturals, Sequences, FiniteSets, SequencesExt

CONSTANTS
    Starter,        \* processes that start
    NoStarter,      \* nobody holds the schema lock
    StartCrashes    \* bound: how often a process dies while it starts

ASSUME StartConstants == NoStarter \notin Starter /\ StartCrashes \in Nat

VARIABLES
    tables,         \* tables that exist
    schema,         \* their parts
    legacy,         \* tables that stand in the shape of an early release
    staging,        \* tables <name>__rebuild that exist
    gone,           \* tables whose rows were lost
    schemaLock,     \* the holder of <database>.schema.lock
    starter,        \* the processes
    prepared,       \* the marker of the independent mode
    startCrashes    \* crashes so far

startVars == <<tables, schema, legacy, staging, gone, schemaLock, starter, prepared, startCrashes>>

----------------------------------------------------------------------------
(* The migrations as data: what each looks for, and what it does then.     *)

Migration(style, on, parts) == [style |-> style, on |-> on, parts |-> parts]

(* Each part is looked for by itself.                                      *)
Each(table, names) == Migration("each", {table}, [i \in DOMAIN names |-> <<table, names[i]>>])

(* The first part decides for all.                                         *)
Gate(table, names) == Migration("gate", {table}, [i \in DOMAIN names |-> <<table, names[i]>>])

(* A table in an early shape is copied into a new one, in one transaction. *)
Rebuild(on, parts) == Migration("rebuild", on, parts)

(* Rows are read or written through the current classes.                   *)
Mapped(on) == Migration("mapped", on, << >>)

AccountSessions == Each("browser_sessions", <<"user", "method", "ix_user">>)
LegacyProfiles ==
    Rebuild({"provider_connections", "execution_profiles"}, << <<"execution_profiles", "quality_floor">> >>)
QualityFloor == Gate("execution_profiles", <<"quality_floor">>)
LegacyTemplates ==
    Rebuild({"note_templates"}, << <<"note_templates", "profile">>, <<"note_templates", "gallery">>, <<"note_templates", "ix_key">> >>)
LegacySummaries ==
    Rebuild({"summaries"}, << <<"summaries", "template">>, <<"summaries", "lineage">>, <<"summaries", "snapshot">> >>)
LegacyStageRuns == Rebuild({"stage_runs"}, << <<"stage_runs", "snapshot">> >>)
LocalTranscripts == Gate("transcripts", <<"uq_one_local">>)
ProfileSnapshots(table) == Each(table, <<"snapshot">>)
GeneratedTitles == Each("plaud_files", <<"generated_title", "generated_title_at">>)
TagKind == Each("tags", <<"kind">>)
AutoTagged == Each("plaud_files", <<"auto_tagged_at">>)
AutomationOwnership == Each("automation_rules", <<"owner_type", "owner_detail", "ix_owner", "uq_external">>)
LegacyAttempts ==
    Rebuild({"stage_attempts"}, << <<"stage_attempts", "snapshot">>, <<"stage_attempts", "ix_file">> >>)
RevisionProvenance == Each("transcript_revisions", <<"kind", "prompt_version">>)
Organization == Each("plaud_files", <<"local_title", "folder", "ix_folder">>)
PipelineRetry == Each("plaud_files", <<"retry_count", "next_retry_at", "ix_next_retry">>)
ProcessingClaims == Each("plaud_files", <<"processing_token", "download_lease", "ix_claims">>)
ProfileResolution(table) == Each(table, <<"profile">>)
TemplateMetadata(table) == Each(table, IF table = "note_templates" THEN <<"gallery">> ELSE <<"template">>)
ArtifactLineage(table) == Each(table, <<"lineage">>)
SummaryHistory(table) == Each(table, <<"history">>)
LegacyAsk ==
    Rebuild({"ask_threads", "ask_messages"}, << <<"ask_messages", "provenance">>, <<"ask_threads", "scope">>, <<"ask_threads", "ix_file">> >>)
AskProvenance(table) == Each(table, IF table = "ask_threads" THEN <<"scope">> ELSE <<"provenance">>)
AskClaim == Each("ask_threads", <<"request_token", "request_owner", "ix_owner">>)
NoteSource == Gate("user_notes", <<"source_summary_id", "uq_source">>)
NoteVersion == Each("user_notes", <<"version">>)
NoteRevisions == Each("user_note_revisions", <<"content_preview">>)
NoteProvenance == Each("user_notes", <<"source_snapshot">>)
SpeakerTimeline == Gate("speakers", <<"timeline">>)
SpeechOverride == Gate("plaud_files", <<"speech_overrides">>)
ImportOrigin == Gate("plaud_files", <<"origin", "ix_origin">>)
IncrementalImport(table) == Each(table, <<"import_state">>)
KnowledgeLedger == Each("provider_cost_reservations", <<"owner", "fingerprint", "ix_owner">>)
LegacyVocabulary == Rebuild({"vocabulary_terms"}, << <<"vocabulary_terms", "ix_enabled">> >>)
ShareOptions == Gate("share_links", <<"options">>)
ChunkIndex == Gate("chunks", <<"ix_file">>)

(* Owned tables, of those above, and the ones that migrate_workspaces      *)
(* copies because their unique constraints or roles are of the time before *)
(* workspaces.                                                             *)
Owned == <<"plaud_files", "transcripts", "transcript_revisions", "summaries", "summary_revisions",
           "stage_runs", "stage_attempts", "note_templates", "automation_rules", "tags", "folders",
           "ask_threads", "ask_messages", "user_notes", "user_note_revisions", "speakers", "chunks",
           "import_runs", "provider_cost_reservations", "vocabulary_terms", "share_links">>
Tables == Owned \o <<"browser_sessions", "account_users", "provider_connections", "execution_profiles">>
WorkspaceColumns(table) == Each(table, <<"workspace_id">>)
Unshared(table) == Migration("copy", {table}, << <<table, "per workspace">> >>)

ForAll(Op(_), ts) == [i \in DOMAIN ts |-> Op(ts[i])]
Workspaces == ForAll(WorkspaceColumns, Owned)
Constraints ==
    ForAll(Unshared, <<"vocabulary_terms", "note_templates", "automation_rules", "account_users">>)

LegacyTables ==
    <<LegacyProfiles, QualityFloor, LegacyTemplates, LegacySummaries, LegacyStageRuns, LocalTranscripts>>

ArtifactColumns ==
    ForAll(ProfileSnapshots, <<"stage_runs", "transcripts", "summaries", "chunks">>)
    \o <<GeneratedTitles, TagKind, AutoTagged, AutomationOwnership, LegacyAttempts, RevisionProvenance,
         Organization, PipelineRetry, ProcessingClaims>>
    \o ForAll(ProfileResolution, <<"folders", "note_templates">>)
    \o ForAll(TemplateMetadata, <<"plaud_files", "summaries", "note_templates">>)
    \o ForAll(ArtifactLineage, <<"summaries", "chunks">>)

NoteAndAskColumns ==
    ForAll(SummaryHistory, <<"summary_revisions", "summaries">>)
    \o <<LegacyAsk>> \o ForAll(AskProvenance, <<"ask_messages", "ask_threads">>)
    \o <<AskClaim, NoteSource, NoteVersion, NoteRevisions, NoteProvenance, Mapped({"user_notes"})>>

OtherColumns ==
    <<SpeakerTimeline, SpeechOverride, ImportOrigin>>
    \o ForAll(IncrementalImport, <<"plaud_files", "import_runs">>)
    \o <<KnowledgeLedger, LegacyVocabulary, ShareOptions, ChunkIndex>>

(* bootstrap_default_profile, then prepare_workspace for each workspace.   *)
Seeding ==
    <<Mapped({"provider_connections", "execution_profiles"}),
      Mapped({"note_templates", "automation_rules", "plaud_files", "summaries", "user_notes"})>>

(* The order of init_db, after create_all.                                 *)
Order == <<AccountSessions>> \o Workspaces \o LegacyTables \o ArtifactColumns
         \o NoteAndAskColumns \o OtherColumns \o Workspaces \o Constraints \o Seeding

CurrentSchema == UNION {ToSet(Order[k].parts) : k \in DOMAIN Order}
AllTables == ToSet(Tables)
Indexes == {part \in CurrentSchema :
              part[2] \in {"ix_user", "ix_key", "uq_one_local", "ix_owner", "uq_external", "ix_file",
                           "ix_folder", "ix_next_retry", "ix_claims", "uq_source", "ix_origin", "ix_enabled"}}
Columns(ts) == {part \in CurrentSchema \ Indexes : part[1] \in ts}
PartsOf(t) == {part \in CurrentSchema : part[1] = t}

----------------------------------------------------------------------------
(* The libraries a process may find: none; one of the present; one of the  *)
(* release before a migration was written; and, as tables in an early      *)
(* shape and columns of later releases do not meet, one of an early        *)
(* release with such a table.                                              *)

NewTables == {"browser_sessions", "account_users", "share_links", "user_note_revisions",
              "provider_cost_reservations", "import_runs"}
Late(m) == m.style \in {"each", "gate", "copy"}
PartsIn(ks) == UNION {ToSet(Order[k].parts) : k \in ks}
(* What only the copy of an early table adds, other tables have had since. *)
OfOld(k) ==
    {part \in CurrentSchema \ PartsIn({l \in DOMAIN Order : Late(Order[l])}) :
        part[1] \in AllTables \ (NewTables \cup Order[k].on)}
AtRest(state) == [state |-> state, at |-> 0, todo |-> << >>]

Library(ts, parts, old) == tables = ts /\ schema = parts /\ legacy = old

StartInit ==
    /\ \/ Library({}, {}, {})
       \/ Library(AllTables, CurrentSchema, {})
       \/ \E k \in DOMAIN Order : Late(Order[k]) /\ Library(AllTables, CurrentSchema \ ToSet(Order[k].parts), {})
       \/ \E k \in DOMAIN Order : Order[k].style = "rebuild" /\ Library(AllTables \ NewTables, OfOld(k), Order[k].on)
    /\ staging = {} /\ gone = {}
    /\ schemaLock = NoStarter
    /\ starter = [s \in Starter |-> AtRest("down")]
    /\ prepared = FALSE
    /\ startCrashes = 0

Statement(act, on, parts) == [act |-> act, on |-> on, parts |-> parts]
Adds(parts) == [i \in DOMAIN parts |-> Statement("add", {parts[i][1]}, {parts[i]})]
Missing(parts) == SelectSeq(parts, LAMBDA part : part \notin schema)

(* create_all: a table with its columns and constraints, then its indexes. *)
Creation(t) ==
    <<Statement("create", {t}, PartsOf(t) \ Indexes)>> \o Adds(SetToSeq(PartsOf(t) \cap Indexes))
CreateAll == FlattenSeq(ForAll(Creation, SelectSeq(Tables, LAMBDA t : t \notin tables)))

(* _rebuild_sqlite_table: the copy itself opens the transaction.           *)
Copy(m) ==
    <<Statement("unindex", m.on, {}), Statement("unstage", m.on, {}),
      Statement("stage", m.on, {}), Statement("swap", m.on, PartsOf(CHOOSE t \in m.on : TRUE))>>

(* What a migration decides to do when it has inspected the schema.        *)
Decide(m) ==
    CASE m.style = "each" -> Adds(Missing(m.parts))
      [] m.style = "gate" -> IF m.parts[1] \in schema THEN << >> ELSE Adds(m.parts)
      [] m.style = "rebuild" -> IF m.on \subseteq legacy THEN <<Statement("rebuild", m.on, ToSet(m.parts))>> ELSE << >>
      [] m.style = "copy" -> IF m.parts[1] \in schema THEN << >> ELSE Copy(m)
      [] m.style = "mapped" -> <<Statement("read", m.on, {})>>

----------------------------------------------------------------------------
Become(s, new) == starter' = [starter EXCEPT ![s] = new]
database == <<tables, schema, legacy, staging, gone>>

(* Mutant: a start does not wait for another.                              *)
LockIgnored == TRUE

(* flock on a file beside the database.                                    *)
LockFree == schemaLock = NoStarter

StartProcess(s) ==
    /\ starter[s].state = "down" /\ LockFree
    /\ schemaLock' = s
    /\ Become(s, [state |-> "starting", at |-> 0, todo |-> CreateAll])
    /\ UNCHANGED <<database, prepared, startCrashes>>

Inspect(s) ==
    /\ starter[s].state = "starting" /\ starter[s].todo = << >> /\ starter[s].at < Len(Order)
    /\ Become(s, [state |-> "starting", at |-> starter[s].at + 1, todo |-> Decide(Order[starter[s].at + 1])])
    /\ UNCHANGED <<database, schemaLock, prepared, startCrashes>>

(* The database refuses a part or a table that exists, and a query that    *)
(* names a column that does not.                                           *)
Rejected(st) ==
    \/ st.act = "add" /\ st.parts \cap (schema \ Indexes) # {}
    \/ st.act = "create" /\ st.on \cap tables # {}
    \/ st.act = "stage" /\ st.on \cap staging # {}
    \/ st.act = "read" /\ ~(Columns(st.on) \subseteq schema /\ st.on \cap legacy = {})

OnTables(ts) == {part \in schema : part[1] \in ts}

Effect(st) ==
    /\ tables' = IF st.act = "create" THEN tables \cup st.on ELSE tables
    /\ schema' = CASE st.act \in {"add", "create"} -> schema \cup st.parts
                   [] st.act \in {"rebuild", "swap"} -> (schema \ OnTables(st.on)) \cup st.parts
                   [] st.act = "unindex" -> schema \ (OnTables(st.on) \cap Indexes)
                   [] OTHER -> schema
    /\ legacy' = IF st.act = "rebuild" THEN legacy \ st.on ELSE legacy
    /\ staging' = CASE st.act = "stage" -> staging \cup st.on
                    [] st.act \in {"unstage", "swap"} -> staging \ st.on
                    [] OTHER -> staging
    /\ gone' = IF st.act = "swap" /\ ~(st.on \subseteq staging) THEN gone \cup st.on ELSE gone

Execute(s) ==
    /\ starter[s].state = "starting" /\ starter[s].todo # << >>
    /\ ~Rejected(Head(starter[s].todo))
    /\ Effect(Head(starter[s].todo))
    /\ Become(s, [starter[s] EXCEPT !.todo = Tail(@)])
    /\ UNCHANGED <<schemaLock, prepared, startCrashes>>

StartFails(s) ==
    /\ starter[s].state = "starting" /\ starter[s].todo # << >>
    /\ Rejected(Head(starter[s].todo))
    /\ Become(s, AtRest("failed"))
    /\ schemaLock' = NoStarter
    /\ UNCHANGED <<database, prepared, startCrashes>>

(* prepare_independent_mode once, then the process serves.                 *)
Serves(s) ==
    /\ starter[s].state = "starting" /\ starter[s].todo = << >> /\ starter[s].at = Len(Order)
    /\ prepared' = TRUE
    /\ schemaLock' = NoStarter
    /\ Become(s, AtRest("serving"))
    /\ UNCHANGED <<database, startCrashes>>

(* The lock of a dead process is free.                                     *)
DiesStarting(s) ==
    /\ starter[s].state = "starting" /\ startCrashes < StartCrashes
    /\ startCrashes' = startCrashes + 1
    /\ schemaLock' = IF schemaLock = s THEN NoStarter ELSE schemaLock
    /\ Become(s, AtRest("down"))
    /\ UNCHANGED <<database, prepared>>

StartNext ==
    \E s \in Starter :
        StartProcess(s) \/ Inspect(s) \/ Execute(s) \/ StartFails(s) \/ Serves(s) \/ DiesStarting(s)

StartSpec == StartInit /\ [][StartNext]_startVars

----------------------------------------------------------------------------
(* Properties.                                                             *)

StartTypeOK ==
    /\ tables \subseteq AllTables /\ schema \subseteq CurrentSchema
    /\ legacy \subseteq AllTables /\ staging \subseteq AllTables /\ gone \subseteq AllTables
    /\ schemaLock \in Starter \cup {NoStarter}
    /\ \A s \in Starter : starter[s].state \in {"down", "starting", "serving", "failed"}
                           /\ starter[s].at \in 0 .. Len(Order)
    /\ prepared \in BOOLEAN /\ startCrashes \in 0 .. StartCrashes

(* A start succeeds on a library of any age, beside another start and      *)
(* after any number of starts that were cut off anywhere: no statement     *)
(* meets its own half-done work, and no migration reads rows through       *)
(* classes whose columns a later one adds.                                 *)
StartNeverFails == \A s \in Starter : starter[s].state # "failed"

(* A process that serves finds every column its classes name, no table of  *)
(* an early release, and all rows; and every index unless a start was cut  *)
(* off on the way.                                                         *)
ServedSchemaIsComplete ==
    (\E s \in Starter : starter[s].state = "serving") =>
        /\ Columns(AllTables) \subseteq schema
        /\ legacy = {} /\ gone = {}
        /\ startCrashes = 0 => CurrentSchema = schema

StartSafety == StartNeverFails /\ ServedSchemaIsComplete
=============================================================================
