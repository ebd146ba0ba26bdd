------------------------------- MODULE Migrations -------------------------------
(***************************************************************************)
(* db/migrate.py: runners that bring one database up to the .sql files of  *)
(* their own checkout.  Each runner is one connection: applied() opens its *)
(* transaction, so every conn.transaction() below is a savepoint in it and *)
(* what a run does becomes visible all at once when the connection closes, *)
(* or not at all, and what it locks it keeps until then.  A file runs its  *)
(* statements one after the other.  Runners may overlap, wait for each     *)
(* other, fail and be killed; a retry is a runner of its own.              *)
(***************************************************************************)
EXTENDS Naturals, Sequences, FiniteSets

CONSTANTS
  Runners,
  Names,          \* filenames, numbered in the order sorted() gives them
  Texts,          \* what a file may say, line endings aside
  Objects,        \* tables, columns and indexes
  Script,         \* the statements of a text, in order
  Controls,       \* texts with a BEGIN, COMMIT, ROLLBACK or START TRANSACTION
  Checkouts,      \* the directories a runner may be started with
  None

\* A statement makes objects, takes tables for itself (the other end of a foreign
\* key, a table it alters) and uses tables it changes rows of, beside others that
\* do.  A create table is one statement that makes the table and one that takes
\* each table its foreign keys refer to.
Statement == [makes : SUBSET Objects, takes : SUBSET Objects, uses : SUBSET Objects]
File == [text : Texts, eol : {"lf", "crlf"}]

ASSUME MigrationsConstants ==
  /\ Names \subseteq Nat /\ IsFiniteSet(Names)
  /\ Script \in [Texts -> Seq(Statement)] /\ Controls \subseteq Texts
  /\ Checkouts \subseteq UNION {[D -> File] : D \in SUBSET Names}
  /\ None \notin Texts

\* An object is made once, by one file of one name, in whatever version; an index
\* that a later file drops and makes again is another object from then on.
ASSUME ObjectsHaveTheirFile ==
  /\ \A d, e \in Checkouts : \A m \in DOMAIN d, n \in DOMAIN e : m # n =>
       \A i \in DOMAIN Script[d[m].text], j \in DOMAIN Script[e[n].text] :
         Script[d[m].text][i].makes \cap Script[e[n].text][j].makes = {}
  /\ \A t \in Texts : \A i, j \in DOMAIN Script[t] :
       i # j => Script[t][i].makes \cap Script[t][j].makes = {}

VARIABLES
  table,          \* the table schema_migrations exists
  tracking,       \* its rows: filename -> checksum
  effects,        \* what files did to the database, in order
  pc, dir,        \* where each runner stands and the directory it was given
  already,        \* the rows it read
  todo,           \* the names it has still to look at
  at,             \* how many statements of the file at hand it has executed
  did,            \* what it has executed and not committed
  creates         \* it has created the table and not committed

db == <<table, tracking, effects>>
vars == <<db, pc, dir, already, todo, at, did, creates>>

--------------------------------------------------------------------------------
Ended == {"done", "refused_control", "refused_changed", "duplicate", "undefined", "deadlock",
          "killed"}
Rows == [Names -> Texts \cup {None}]
Effect == [name : Names, text : Texts]

Init ==
  /\ table = FALSE
  /\ tracking = [n \in Names |-> None]
  /\ effects = <<>>
  /\ pc = [r \in Runners |-> "idle"]
  /\ dir = [r \in Runners |-> None]
  /\ already = [r \in Runners |-> None]
  /\ todo = [r \in Runners |-> <<>>]
  /\ at = [r \in Runners |-> 0]
  /\ did = [r \in Runners |-> <<>>]
  /\ creates = [r \in Runners |-> FALSE]

\* _checksum, collision free: a CRLF checkout and an LF checkout agree.
Checksum(file) == file.text

\* Fault: the names come in the order the file system lists them.
DiscoverUnsorted(directory) ==
  LET D == DOMAIN directory
      windows == \E n \in D : directory[n].eol = "crlf"
  IN  CHOOSE s \in [1 .. Cardinality(D) -> D] :
        \A i, j \in DOMAIN s : i < j => IF windows THEN s[i] > s[j] ELSE s[i] < s[j]
\* discover
Discover(directory) ==
  LET D == DOMAIN directory
  IN  CHOOSE s \in [1 .. Cardinality(D) -> D] :
        \A i, j \in DOMAIN s : i < j => s[i] < s[j]

Goto(r, label) == pc' = [pc EXCEPT ![r] = label]
Executed(q) == {did[q][i].name : i \in DOMAIN did[q]}
\* The rows of schema_migrations a runner has inserted and not committed.
Recorded(q) == Executed(q) \ (IF pc[q] = "record" THEN {Head(todo[q])} ELSE {})
Current(r) == Head(todo[r])
FileOf(r) == dir[r][Current(r)]

\* What a runner has made, taken and used: the statements of the files it has
\* executed and those of the file at hand.
StatementsOf(t) == {Script[t][i] : i \in DOMAIN Script[t]}
Ran(r) == (UNION {StatementsOf(did[r][i].text) : i \in DOMAIN did[r]})
            \cup {Script[FileOf(r).text][i] : i \in 1 .. at[r]}
Made(r) == UNION {s.makes : s \in Ran(r)}
Taken(r) == UNION {s.takes : s \in Ran(r)}
Used(r) == UNION {s.uses : s \in Ran(r)}
\* What the committed files have made, and with it what a runner sees.
There == UNION {s.makes : s \in UNION {StatementsOf(effects[i].text) : i \in DOMAIN effects}}
Sees(r) == There \cup Made(r)
\* The statement a runner is about to execute.
NextStatement(r) == Script[FileOf(r).text][at[r] + 1]
Resolves(r) == NextStatement(r).takes \cup NextStatement(r).uses \subseteq Sees(r)

\* Fault: statements commit one by one and the failure takes nothing back.
EndKeepingEffects(r, label) ==
  /\ Goto(r, label)
  /\ effects' = effects \o did[r]
  /\ did' = [did EXCEPT ![r] = <<>>]
  /\ at' = [at EXCEPT ![r] = 0]
  /\ creates' = [creates EXCEPT ![r] = FALSE]
  /\ UNCHANGED <<table, tracking, dir, already, todo>>

\* Fault: the connection is left open.
EndInOpenTransaction(r, label) ==
  /\ Goto(r, label)
  /\ UNCHANGED <<db, dir, already, todo, at, did, creates>>

\* Fault: every file commits by itself, with its row.
EndKeepingFiles(r, label) ==
  LET kept == SelectSeq(did[r], LAMBDA e : e.name \in Recorded(r))
  IN  /\ Goto(r, label)
      /\ effects' = effects \o kept
      /\ tracking' = [n \in Names |-> IF n \in Recorded(r) THEN dir[r][n].text ELSE tracking[n]]
      /\ table' = (table \/ creates[r])
      /\ did' = [did EXCEPT ![r] = <<>>]
      /\ at' = [at EXCEPT ![r] = 0]
      /\ creates' = [creates EXCEPT ![r] = FALSE]
      /\ UNCHANGED <<dir, already, todo>>

\* An exception leaves migrate, or the process dies: the connection rolls back.
End(r, label) ==
  /\ Goto(r, label)
  /\ did' = [did EXCEPT ![r] = <<>>]
  /\ at' = [at EXCEPT ![r] = 0]
  /\ creates' = [creates EXCEPT ![r] = FALSE]
  /\ UNCHANGED <<db, dir, already, todo>>

\* What r is about to do waits for q to commit or to roll back: to create the
\* table or an object that q has created, to lock a table against q's locks, to
\* insert a tracking row that q has inserted.
WaitsFor(r, q) ==
  /\ q # r
  /\ \/ pc[r] = "creating" /\ creates[q]
     \/ /\ pc[r] = "execute" /\ at[r] < Len(Script[FileOf(r).text]) /\ Resolves(r)
        /\ \/ NextStatement(r).makes \cap Made(q) # {}
           \/ NextStatement(r).takes \cap (Taken(q) \cup Used(q)) # {}
           \/ NextStatement(r).uses \cap Taken(q) # {}
     \/ pc[r] = "record" /\ Current(r) \in Recorded(q)
Waits(r) == \E q \in Runners : WaitsFor(r, q)

\* A circle of waits through r, which is what PostgreSQL's detector looks for on
\* behalf of a runner that waits too long.
InWaitCycle(r) ==
  \E circle \in SUBSET {p \in Runners : Waits(p)} :
    /\ r \in circle
    /\ \A p \in circle : \E q \in circle : WaitsFor(p, q)
    /\ \A q \in circle : \E p \in circle : WaitsFor(p, q)

Start(r, directory) ==
  /\ pc[r] = "idle"
  /\ Goto(r, "tracking")
  /\ dir' = [dir EXCEPT ![r] = directory]
  /\ UNCHANGED <<db, already, todo, at, did, creates>>

\* create table if not exists: the look and the creation are two moments.
LookForTable(r) ==
  /\ pc[r] = "tracking"
  /\ Goto(r, IF table THEN "applied" ELSE "creating")
  /\ UNCHANGED <<db, dir, already, todo, at, did, creates>>

\* It waits for a runner that is creating the table, and raises if that one
\* commits.
CreateTable(r) ==
  /\ pc[r] = "creating" /\ ~Waits(r)
  /\ IF table THEN End(r, "duplicate")
     ELSE /\ Goto(r, "applied")
          /\ creates' = [creates EXCEPT ![r] = TRUE]
          /\ UNCHANGED <<db, dir, already, todo, at, did>>

\* applied: the committed rows, once, before the directory is listed.
ReadApplied(r) ==
  /\ pc[r] = "applied"
  /\ Goto(r, "file")
  /\ already' = [already EXCEPT ![r] = tracking]
  /\ todo' = [todo EXCEPT ![r] = Discover(dir[r])]
  /\ UNCHANGED <<db, dir, at, did, creates>>

NextFile(r, label) ==
  /\ Goto(r, label)
  /\ todo' = [todo EXCEPT ![r] = Tail(todo[r])]
  /\ UNCHANGED <<db, dir, already, at, did, creates>>

\* Fault: a file is known by its name alone.
TakeFileByName(r) ==
  /\ pc[r] = "file" /\ todo[r] # <<>>
  /\ IF FileOf(r).text \in Controls THEN End(r, "refused_control")
     ELSE IF already[r][Current(r)] # None THEN NextFile(r, "file")
     ELSE Goto(r, "execute") /\ UNCHANGED <<db, dir, already, todo, at, did, creates>>

\* The next file in order: refused for transaction control even when it has been
\* applied, refused when it was applied with another checksum, skipped when it
\* was applied as it is.
TakeFile(r) ==
  /\ pc[r] = "file" /\ todo[r] # <<>>
  /\ IF FileOf(r).text \in Controls THEN End(r, "refused_control")
     ELSE IF already[r][Current(r)] = None
     THEN Goto(r, "execute") /\ UNCHANGED <<db, dir, already, todo, at, did, creates>>
     ELSE IF already[r][Current(r)] # Checksum(FileOf(r)) THEN End(r, "refused_changed")
     ELSE NextFile(r, "file")

\* One statement of the file: it fails over a table that is not there, before it
\* waits, and over an object that is there already, after it has waited.
ExecuteStatement(r) ==
  /\ pc[r] = "execute" /\ at[r] < Len(Script[FileOf(r).text])
  /\ ~Waits(r)
  /\ IF ~Resolves(r) THEN End(r, "undefined")
     ELSE IF NextStatement(r).makes \cap Sees(r) # {} THEN End(r, "duplicate")
     ELSE /\ at' = [at EXCEPT ![r] = @ + 1]
          /\ UNCHANGED <<db, pc, dir, already, todo, did, creates>>

\* The end of the file: its row comes next.
FinishFile(r) ==
  /\ pc[r] = "execute" /\ at[r] = Len(Script[FileOf(r).text])
  /\ Goto(r, "record")
  /\ did' = [did EXCEPT ![r] = Append(@, [name |-> Current(r), text |-> FileOf(r).text])]
  /\ at' = [at EXCEPT ![r] = 0]
  /\ UNCHANGED <<db, dir, already, todo, creates>>

\* The row in schema_migrations; its primary key tells what has been committed
\* since the rows were read.
RecordFile(r) ==
  /\ pc[r] = "record" /\ ~Waits(r)
  /\ IF tracking[Current(r)] # None THEN End(r, "duplicate") ELSE NextFile(r, "file")

\* PostgreSQL cancels a runner of a circle of waits: its run ends with the error.
AbortDeadlock(r) ==
  /\ InWaitCycle(r)
  /\ End(r, "deadlock")

\* main leaves the connection block: the whole run commits.
Finish(r) ==
  /\ pc[r] = "file" /\ todo[r] = <<>>
  /\ Goto(r, "done")
  /\ table' = (table \/ creates[r])
  /\ tracking' = [n \in Names |->
       IF n \in Executed(r) THEN Checksum(dir[r][n]) ELSE tracking[n]]
  /\ effects' = effects \o did[r]
  /\ did' = [did EXCEPT ![r] = <<>>]
  /\ creates' = [creates EXCEPT ![r] = FALSE]
  /\ UNCHANGED <<dir, already, todo, at>>

Kill(r) ==
  /\ pc[r] \notin Ended \cup {"idle"}
  /\ End(r, "killed")

Step(r) ==
  \/ LookForTable(r)
  \/ CreateTable(r)
  \/ ReadApplied(r)
  \/ TakeFile(r)
  \/ ExecuteStatement(r)
  \/ FinishFile(r)
  \/ RecordFile(r)
  \/ Finish(r)
  \/ AbortDeadlock(r)

Next == \E r \in Runners : (\E d \in Checkouts : Start(r, d)) \/ Step(r) \/ Kill(r)

\* A started process runs, and PostgreSQL wakes whoever waits for a transaction
\* that has ended and cancels one of those who wait in a circle.
Spec == Init /\ [][Next]_vars /\ \A r \in Runners : WF_vars(Step(r))

--------------------------------------------------------------------------------
(* Properties *)

Open(r) == pc[r] \notin Ended \cup {"idle"}
AppliedBy(r) == DOMAIN dir[r] \ {n \in Names : already[r][n] # None}
Applied(n, t) == \E i \in DOMAIN effects : effects[i] = [name |-> n, text |-> t]
Ascending(s) == \A i, j \in DOMAIN s : i < j => s[i].name < s[j].name

\* Every table and local variable holds values of its type; there are rows only
\* once there is a table, at most one runner is creating it, a runner is inside a
\* file only while it executes it, and one that has ended holds nothing.
TypeOK ==
  /\ table \in BOOLEAN
  /\ tracking \in Rows
  /\ effects \in Seq(Effect)
  /\ pc \in [Runners -> Ended \cup {"idle", "tracking", "creating", "applied", "file",
                                    "execute", "record"}]
  /\ dir \in [Runners -> Checkouts \cup {None}]
  /\ already \in [Runners -> Rows \cup {None}]
  /\ todo \in [Runners -> Seq(Names)]
  /\ at \in [Runners -> Nat]
  /\ did \in [Runners -> Seq(Effect)]
  /\ creates \in [Runners -> BOOLEAN]
  /\ ~table => \A n \in Names : tracking[n] = None
  /\ \A r \in Runners : creates[r] => ~table /\ \A q \in Runners \ {r} : ~creates[q]
  /\ \A r \in Runners : at[r] # 0 => pc[r] = "execute" /\ at[r] <= Len(Script[FileOf(r).text])
  /\ \A r \in Runners : ~Open(r) => did[r] = <<>> /\ ~creates[r]

\* Whatever runners overlap, fail half way or are killed, the database has had
\* each file at most once, and exactly the files schema_migrations names, in
\* the text its checksum stands for.
EffectsMatchTracking ==
  /\ \A i, j \in DOMAIN effects : effects[i].name = effects[j].name => i = j
  /\ \A n \in Names, t \in Texts :
       tracking[n] = t <=> Applied(n, t)

\* The database moves only when a runner finishes, and then by every file of
\* that runner's directory it had not found applied, in filename order: a run
\* that fails at its last file leaves nothing of the ones before.
RunIsAtomic ==
  [][<<tracking, effects>>' # <<tracking, effects>> =>
       \E r \in Runners :
         /\ pc[r] # "done" /\ pc'[r] = "done"
         /\ {n \in Names : tracking'[n] # tracking[n]} = AppliedBy(r)
         /\ effects' = effects \o did[r] /\ Ascending(did[r])]_vars

\* A runner that ends well leaves every file of its directory applied as it is
\* there, and no later run of another checkout changes that.
DoneMeansCurrent ==
  \A r \in Runners : pc[r] = "done" =>
    \A n \in DOMAIN dir[r] : Applied(n, dir[r][n].text)

\* Another runner that is done applied a file of r's directory, or made the table,
\* that r had not found when it looked.
Overtaken(r) ==
  /\ \E q \in Runners \ {r} : pc[q] = "done"
  /\ \/ already[r] = None
     \/ \E n \in DOMAIN dir[r] : already[r][n] = None /\ tracking[n] # None

\* A statement of the directory needs a table that neither an earlier file of it
\* nor an earlier statement of the same file makes.
Incomplete(directory) ==
  \E n \in DOMAIN directory : \E i \in DOMAIN Script[directory[n].text] :
    LET needed == Script[directory[n].text][i].takes \cup Script[directory[n].text][i].uses
    IN  \E o \in needed :
          /\ \A m \in DOMAIN directory : m < n =>
               \A s \in StatementsOf(directory[m].text) : o \notin s.makes
          /\ \A j \in 1 .. i - 1 : o \notin Script[directory[n].text][j].makes

\* The started runners have checkouts of one history, each a release that lacks
\* only its last files, and every file begins by making something.
InStep ==
  \A r, q \in {p \in Runners : pc[p] # "idle"} :
    /\ \A n \in DOMAIN dir[r] \cap DOMAIN dir[q] : dir[r][n].text = dir[q][n].text
    /\ \A n \in DOMAIN dir[r], m \in DOMAIN dir[q] : m < n => m \in DOMAIN dir[r]
    /\ \A n \in DOMAIN dir[r] :
         Script[dir[r][n].text] # <<>> /\ Script[dir[r][n].text][1].makes # {}

\* A runner that fails has a reason outside it.  It is told that its files have
\* changed when one has, line endings aside, a text that is not the one applied;
\* it raises over something that is there only when another runner, done since it
\* looked, made it; over something that is missing only when its directory lacks
\* it; and it is a deadlock victim only beside a checkout that is not of its
\* history, a release with a file left out for one.
RefusedForCause ==
  \A r \in Runners :
    /\ pc[r] = "refused_changed" =>
         \E n \in DOMAIN dir[r] :
           tracking[n] # None /\ ~Applied(n, dir[r][n].text)
    /\ pc[r] = "duplicate" => Overtaken(r)
    /\ pc[r] = "undefined" => Incomplete(dir[r])
    /\ pc[r] = "deadlock" => ~InStep

\* Runners of one history take turns: whoever waits waits for the first to have
\* changed anything, and that one for nobody.
NobodyIsStuck == InStep => \A r \in Runners : ~InWaitCycle(r)

\* Every runner ends: the detector cuts the circles, and the other waits end with
\* the runner they are for.
EveryRunnerEnds == \A r \in Runners : pc[r] = "tracking" ~> pc[r] \in Ended
================================================================================
