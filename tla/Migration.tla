----------------------------- MODULE Migration -----------------------------
(***************************************************************************)
(* The move of the data from Supabase Postgres to the SQLite file          *)
(* (packages/db/src/migration): the scripts an operator runs beside the    *)
(* live application, which stop at an error and may be killed at any step. *)
(* A row is its number, and the number of the write it comes from; every   *)
(* table has at most one row per user, which refers to the user's row.     *)
(***************************************************************************)
EXTENDS Naturals, FiniteSets

CONSTANTS
  MaxUsers,    \* bound on the users
  SampleSize,  \* rows of a table that verify.ts compares
  MaxWrites,   \* bound on the writes of the live application
  MaxScripts   \* bound on the scripts started

VARIABLES
  live,        \* Postgres: a table's rows
  writes,
  dump,        \* the NDJSON file of each table
  secrets,     \* the files of auth-secrets/
  file,        \* the SQLite files: the real target, and that of a dry run
  uploads,     \* avatars in the uploads directory
  script,      \* the script that runs
  started,
  \* history
  snapAt,      \* the writes before the snapshot of the last export
  done,        \* the last pipeline ended with "Migration complete."
  left,      \* an import was killed, or failed and did not remove its target
  again        \* auth secrets were imported a second time into the target

migrationVars == <<live, writes, dump, secrets, file, uploads, script, started,
                   snapAt, done, left, again>>

Ids == 1..MaxUsers
\* MIGRATION_TABLES: users first, then what refers to them.
Tables == 1..2
Users == 1
\* In the order of their imports: credentials, then factors and passkeys.
Kinds == 1..2

NoRows == [i \in Ids |-> 0]
Missing == [i \in Ids |-> MaxWrites + 1]   \* a file that was never written
NoFile == [there |-> FALSE]
Rows(f) == {i \in Ids : f[i] # 0}

\* A new SQLite file, with its tables.
Created == [there |-> TRUE, rows |-> [t \in Tables |-> NoRows], indexed |-> FALSE,
            auth |-> [k \in Kinds |-> NoRows], moved |-> {}]

Quiet == [job |-> "none", at |-> "none", t |-> 0, dry |-> FALSE, good |-> TRUE,
          snap |-> [t \in Tables |-> NoRows]]

Real == file["real"]
Path == IF script.dry THEN "scratch" ELSE "real"
Target == file[Path]

Init ==
  /\ live = [t \in Tables |-> [i \in Ids |-> IF i = 1 THEN 1 ELSE 0]]
  /\ writes = 1
  /\ dump = [t \in Tables |-> Missing] /\ secrets = [k \in Kinds |-> {}]
  /\ file = [p \in {"real", "scratch"} |-> NoFile]
  /\ uploads = {} /\ script = Quiet /\ started = 0
  /\ snapAt = 0 /\ done = FALSE /\ left = FALSE /\ again = FALSE
-----------------------------------------------------------------------------
\* The application that is still live: it adds, edits and removes rows.
liveOnly == <<dump, secrets, file, uploads, script, started, snapAt, done, left, again>>

Write(t, i) ==
  /\ writes < MaxWrites
  /\ t # Users => live[Users][i] # 0
  /\ writes' = writes + 1
  /\ live' = [live EXCEPT ![t][i] = writes + 1]
  /\ UNCHANGED liveOnly

Erase(t, i) ==
  /\ writes < MaxWrites /\ live[t][i] # 0
  /\ writes' = writes + 1
  /\ live' = [u \in Tables |-> IF u = t \/ t = Users THEN [live[u] EXCEPT ![i] = 0] ELSE live[u]]
  /\ UNCHANGED liveOnly
-----------------------------------------------------------------------------
idleVars == <<live, writes, dump, secrets, uploads, snapAt, left>>

\* run.ts, whose options matter, and are chosen here, when they are read.
Run ==
  /\ script = Quiet /\ started < MaxScripts
  /\ started' = started + 1 /\ done' = FALSE
  /\ script' = [Quiet EXCEPT !.job = "run", !.at = "begin"]
  /\ UNCHANGED <<idleVars, file, again>>

\* A step of it on its own, for the real target.
RunStep(at) ==
  /\ script = Quiet /\ started < MaxScripts
  /\ started' = started + 1 /\ done' = FALSE
  /\ script' = [Quiet EXCEPT !.job = at, !.at = at]
  /\ again' = (again \/ (at = "secrets" /\ file["real"].there
                         /\ \E k \in Kinds : Rows(file["real"].auth[k]) # {}))
  /\ UNCHANGED <<idleVars, file>>

\* The operator deletes the target.
DeleteTarget ==
  /\ script = Quiet /\ file["real"].there
  /\ file' = [file EXCEPT !["real"] = NoFile]
  /\ done' = FALSE /\ again' = FALSE /\ left' = FALSE
  /\ UNCHANGED <<live, writes, dump, secrets, uploads, script, started, snapAt>>

\* The end of a script: a dry run removes its directory.
AtEnd(files) == /\ script' = Quiet
                /\ file' = [files EXCEPT !["scratch"] = NoFile]

\* A script goes on with its next step; one that is a single step ends.
GoOn(at, files) ==
  IF script.job = "run"
  THEN script' = [script EXCEPT !.at = at, !.t = 0, !.good = TRUE] /\ file' = files
  ELSE AtEnd(files)
-----------------------------------------------------------------------------
\* export.ts: the tables are read in one REPEATABLE READ transaction.
exportRest == <<live, writes, secrets, uploads, started, done, left, again>>

Begin ==
  /\ script.at = "begin"
  /\ script' = [script EXCEPT !.at = "export", !.t = 1, !.snap = live]
  /\ snapAt' = writes
  /\ UNCHANGED <<exportRest, dump, file>>

\* Faulty variant of Read: every query has a snapshot of its own.
ReadNow == live

Read == script.snap

\* exportTable: the file is emptied, then the rows are appended.
Empty ==
  /\ script.at = "export"
  /\ dump' = [dump EXCEPT ![script.t] = NoRows]
  /\ script' = [script EXCEPT !.at = "append"]
  /\ UNCHANGED <<exportRest, file, snapAt>>

Append ==
  /\ script.at = "append"
  /\ dump' = [dump EXCEPT ![script.t] = Read[script.t]]
  /\ IF script.t + 1 \in Tables
     THEN script' = [script EXCEPT !.at = "export", !.t = script.t + 1] /\ UNCHANGED file
     ELSE GoOn("import", file)
  /\ UNCHANGED <<exportRest, snapAt>>

\* A query fails: what was dumped stays, and the script ends.
ExportFails ==
  /\ script.at \in {"export", "append"}
  /\ AtEnd(file)
  /\ UNCHANGED <<exportRest, dump, snapAt>>
-----------------------------------------------------------------------------
\* import.ts: only into a file that does not exist.
importRest == <<live, writes, dump, secrets, uploads, started, snapAt, done, again>>

Open ==
  /\ script.at = "import"
  /\ \/ Real.there /\ AtEnd(file) /\ UNCHANGED left
     \/ /\ ~Real.there
        /\ file' = [file EXCEPT !["real"] = Created]
        /\ \/ /\ script' = [script EXCEPT !.at = "load", !.t = 1]
              /\ UNCHANGED left
           \* A pragma fails, before the try: nothing is cleaned up.
           \/ script' = Quiet /\ left' = TRUE
     \* --dry-run: a file in a new temporary directory
     \/ /\ script.job = "run"
        /\ file' = [file EXCEPT !["scratch"] = Created]
        /\ script' = [script EXCEPT !.at = "load", !.t = 1, !.dry = TRUE]
        /\ UNCHANGED left
  /\ UNCHANGED importRest

\* Faulty variant of CleanUp: the half-loaded file stays.
CleanUpSkipped == AtEnd(file) /\ UNCHANGED left

\* The finally clause of an import that failed: the target is removed, or
\* that fails too, which is ignored.
CleanUp ==
  \/ AtEnd([file EXCEPT ![Path] = NoFile]) /\ UNCHANGED left
  \/ ~script.dry /\ AtEnd(file) /\ left' = TRUE

\* readRows and importTable: one transaction, in which every row needs the
\* row it refers to.
LoadTable ==
  /\ script.at = "load"
  /\ LET t == script.t
     IN  IF dump[t] = Missing \/ (t # Users /\ ~(Rows(dump[t]) \subseteq Rows(Target.rows[Users])))
         THEN CleanUp
         ELSE /\ file' = [file EXCEPT ![Path].rows[t] = dump[t]]
              /\ script' = IF t + 1 \in Tables THEN [script EXCEPT !.t = t + 1]
                                               ELSE [script EXCEPT !.at = "index"]
              /\ UNCHANGED left
  /\ UNCHANGED importRest

\* Anything else that throws, such as a full disk.
ImportFails ==
  /\ script.at \in {"load", "index"}
  /\ CleanUp
  /\ UNCHANGED importRest

\* applyFts5AndTriggers and rebuildFts5Index, after the rows.
Index ==
  /\ script.at = "index"
  /\ GoOn("count", [file EXCEPT ![Path].indexed = TRUE])
  /\ UNCHANGED <<importRest, left>>
-----------------------------------------------------------------------------
\* verify.ts compares the target with the live tables: the counts, ...
Table == script.t + 1

Count ==
  /\ script.at = "count"
  /\ script' = [script EXCEPT !.at = "sample",
                  !.good = @ /\ Cardinality(Rows(live[Table])) = Cardinality(Rows(Target.rows[Table]))]
  /\ UNCHANGED <<importRest, left, file>>

\* ... and the first rows of every table.
Sample == {i \in Rows(live[Table]) : Cardinality({j \in Rows(live[Table]) : j < i}) < SampleSize}

\* --storage is refused with --dry-run.
AfterSecrets == IF script.dry THEN {"end"} ELSE {"files", "end"}

Compare ==
  /\ script.at = "sample"
  /\ LET good == script.good /\ \A i \in Sample : Target.rows[Table][i] = live[Table][i]
     IN  IF Table + 1 \in Tables
         THEN /\ script' = [script EXCEPT !.at = "count", !.t = @ + 1, !.good = good]
              /\ UNCHANGED file
         ELSE IF good THEN \E at \in {"secrets-export"} \cup AfterSecrets : GoOn(at, file)
              ELSE AtEnd(file)     \* the target stays
  /\ UNCHANGED <<importRest, left>>
-----------------------------------------------------------------------------
\* exportAuthSecrets: one query for each file, of what is live then.  Every
\* user has a password and a second factor.
ExportSecrets ==
  /\ script.at = "secrets-export"
  /\ LET k == script.t + 1
     IN  /\ secrets' = [secrets EXCEPT ![k] = Rows(live[Users])]
         /\ IF k + 1 \in Kinds THEN script' = [script EXCEPT !.t = k] /\ UNCHANGED file
                               ELSE GoOn("secrets", file)
  /\ UNCHANGED <<live, writes, dump, uploads, started, snapAt, done, left, again>>

\* importAuthSecrets: one transaction for each file.  A row whose user is not
\* in the target undoes its transaction and ends the script; what the earlier
\* ones have added stays.  A file that is missing has no rows.
ImportSecrets ==
  /\ script.at = "secrets"
  /\ LET k == script.t + 1
     IN  IF ~Target.there \/ ~(secrets[k] \subseteq Rows(Target.rows[Users])) THEN AtEnd(file)
         ELSE LET files == [file EXCEPT ![Path].auth[k] =
                              [i \in Ids |-> IF i \in secrets[k] /\ @[i] < 2 THEN @[i] + 1 ELSE @[i]]]
              IN  IF k + 1 \in Kinds THEN script' = [script EXCEPT !.t = k] /\ file' = files
                  ELSE \E at \in AfterSecrets : GoOn(at, files)
  /\ UNCHANGED <<importRest, left>>
-----------------------------------------------------------------------------
\* storage.ts: every user row that names a file in Supabase Storage.
Remote == Rows(Target.rows[Users]) \ Target.moved

filesRest == <<live, writes, dump, secrets, started, snapAt, left, again>>

\* Faulty variant of MoveFile: the row names the file before it is written.
MoveRowFirst(i) ==
  /\ script.at = "files" /\ Target.there /\ i \in Remote
  /\ file' = [file EXCEPT ![Path].moved = @ \cup {i}]
  /\ UNCHANGED <<filesRest, uploads, script, done>>

\* The file is downloaded and written, and then the row names it: a row is
\* left alone if its download fails, or the script is killed in between.
MoveFile(i) ==
  /\ script.at = "files" /\ Target.there /\ i \in Remote
  /\ uploads' = uploads \cup {i}
  /\ \/ file' = [file EXCEPT ![Path].moved = @ \cup {i}]
     \/ UNCHANGED file
  /\ UNCHANGED <<filesRest, script, done>>

\* The rows are done: those that failed are reported, and wait for a rerun.
FilesEnd ==
  /\ script.at = "files"
  /\ GoOn("end", file)
  /\ UNCHANGED <<filesRest, uploads, done>>

Complete ==
  /\ script.at = "end"
  /\ AtEnd(file)
  /\ done' = ~script.dry
  /\ UNCHANGED <<filesRest, uploads>>

\* The process is killed: no finally clause runs, and SQLite undoes the
\* transaction it was in.
Kill ==
  /\ script # Quiet
  /\ script' = Quiet
  /\ left' = (left \/ (~script.dry /\ script.at \in {"load", "index"}))
  /\ UNCHANGED <<live, writes, dump, secrets, file, uploads, started, snapAt, done, again>>
-----------------------------------------------------------------------------
Next ==
  \/ \E t \in Tables, i \in Ids : Write(t, i) \/ Erase(t, i)
  \/ Run
  \/ \E at \in {"begin", "import", "secrets-export", "secrets", "files"} : RunStep(at)
  \/ DeleteTarget \/ Begin \/ Empty \/ Append \/ ExportFails
  \/ Open \/ LoadTable \/ ImportFails \/ Index
  \/ Count \/ Compare \/ ExportSecrets \/ ImportSecrets
  \/ \E i \in Ids : MoveFile(i)
  \/ FilesEnd \/ Complete \/ Kill

Spec == Init /\ [][Next]_migrationVars
-----------------------------------------------------------------------------
\* No write that the snapshot could see is missing after a migration that is
\* complete: where the target differs from the live tables, they were written
\* after it, whatever ran between and whatever verify.ts did not sample.
NothingLost ==
  (done /\ Real.there) =>
    /\ Real.indexed
    /\ \A t \in Tables, i \in Ids : Real.rows[t][i] \in 0..snapAt
    /\ \A t \in Tables, i \in Ids : live[t][i] \in 1..snapAt => Real.rows[t][i] = live[t][i]

\* A target that is there between the scripts was loaded to its end, unless
\* an import left it there, which was killed, or failed before the clause that
\* cleans up or together with it: only then is a next import refused for a
\* file that is not a database.
NoHalfTarget == (Real.there /\ script = Quiet /\ ~Real.indexed) => left

\* Whatever dumps an import has found, every row refers to a row that is there.
ReferencesHold ==
  \A p \in {"real", "scratch"} : file[p].there =>
    /\ Rows(file[p].rows[2]) \subseteq Rows(file[p].rows[Users])
    /\ \A k \in Kinds : Rows(file[p].auth[k]) \subseteq Rows(file[p].rows[Users])

\* Nobody has two credentials unless the secrets were imported again, and no
\* row names a file that is not in the uploads directory.
OnceEach == Real.there =>
  /\ again \/ \A k \in Kinds, i \in Ids : Real.auth[k][i] <= 1
  /\ Real.moved \subseteq uploads

MigrationAccounted == NothingLost /\ NoHalfTarget /\ ReferencesHold /\ OnceEach
=============================================================================
