----------------------------- MODULE Migration ------------------------------
(***************************************************************************)
(* Opening the SQLite store and bringing its schema up to date             *)
(* (internal/store/sqlite/migrate.go and Open in sqlite.go), by several    *)
(* processes that may open one file at a time and may stop at any point.   *)
(*                                                                         *)
(* The schema version is read outside the transactions that raise it, so   *)
(* what a process believes about the file may be old by the time it acts.  *)
(* Processes may be of different builds, which know the same history up to *)
(* a different end.                                                        *)
(*                                                                         *)
(* SQLite itself is external: one transaction writes at a time, from its   *)
(* first statement on; a transaction that is not committed leaves no       *)
(* trace, whether it was rolled back or its process died; CREATE fails for *)
(* what exists already.  Every statement of the history is a CREATE.       *)
(***************************************************************************)
EXTENDS Integers

CONSTANTS
  Openers,      \* the processes that open the file
  Latest,       \* the last version in the list each process was built with
  Statements,   \* how many statements a migration has
  None          \* no transaction

(* checkList: the history runs from one without a gap, is not empty, and   *)
(* no migration is empty.                                                  *)
ASSUME HistoryAssumption ==
  Latest \in [Openers -> Nat \ {0}] /\ Statements \in Nat \ {0}
ASSUME OpenersAssumption == None \notin Openers

VARIABLES
  stamp,     \* the file's user_version
  schema,    \* the file's objects: <<version, statement>> created it
  phase,     \* process -> whether its store is closed, migrating or open
  version,   \* process -> the migration its loop is at
  writer,    \* the process whose transaction writes, or None
  done       \* how many statements that transaction has executed

vars == <<stamp, schema, phase, version, writer, done>>

-----------------------------------------------------------------------------
(* The objects that the first v migrations create.                         *)
SchemaOf(v) == (1..v) \X (1..Statements)

Init ==
  /\ stamp = 0
  /\ schema = {}
  /\ phase = [o \in Openers |-> "closed"]
  /\ version = [o \in Openers |-> 1]
  /\ writer = None
  /\ done = 0

(* A process opens the file and reads its version, once.  Data of a later  *)
(* build is refused; otherwise the loop skips what the stamp says is done. *)
ReadsStamp(o) ==
  /\ phase[o] = "closed"
  /\ stamp <= Latest[o]
  /\ phase' = [phase EXCEPT ![o] = "migrating"]
  /\ version' = [version EXCEPT ![o] = stamp + 1]
  /\ UNCHANGED <<stamp, schema, writer, done>>

Migrating(o) == phase[o] = "migrating" /\ version[o] <= Latest[o]

(* Mutation of Executes: CREATE ... IF NOT EXISTS.                         *)
ExecutesIfNotThere(o) ==
  /\ Migrating(o)
  /\ writer \in {None, o}
  /\ done < Statements
  /\ writer' = o
  /\ done' = done + 1
  /\ UNCHANGED <<stamp, schema, phase, version>>

(* Mutation of Executes: each statement commits on its own.                *)
ExecutesAtOnce(o) ==
  /\ Migrating(o)
  /\ writer \in {None, o}
  /\ done < Statements
  /\ <<version[o], done + 1>> \notin schema
  /\ schema' = schema \cup {<<version[o], done + 1>>}
  /\ writer' = o
  /\ done' = done + 1
  /\ UNCHANGED <<stamp, phase, version>>

(* One statement of a migration's transaction.  It fails, see Stops, when  *)
(* another transaction writes and when the object exists.                  *)
Executes(o) ==
  /\ Migrating(o)
  /\ writer \in {None, o}
  /\ done < Statements
  /\ <<version[o], done + 1>> \notin schema
  /\ writer' = o
  /\ done' = done + 1
  /\ UNCHANGED <<stamp, schema, phase, version>>

(* The stamp is the last statement of the same transaction ...             *)
Stamps(o) ==
  /\ writer = o
  /\ done = Statements
  /\ done' = Statements + 1
  /\ UNCHANGED <<stamp, schema, phase, version, writer>>

(* ... which is committed, and the loop goes on to the next migration.     *)
Commits(o) ==
  /\ writer = o
  /\ done = Statements + 1
  /\ schema' = schema \cup ({version[o]} \X (1..Statements))
  /\ stamp' = version[o]
  /\ version' = [version EXCEPT ![o] = @ + 1]
  /\ writer' = None
  /\ done' = 0
  /\ UNCHANGED phase

(* Mutation of Opens: the loop ends one migration early.                   *)
OpensEarly(o) ==
  /\ phase[o] = "migrating"
  /\ version[o] >= Latest[o]
  /\ writer # o
  /\ phase' = [phase EXCEPT ![o] = "open"]
  /\ UNCHANGED <<stamp, schema, version, writer, done>>

(* The list is done: Open returns a store.                                 *)
Opens(o) ==
  /\ phase[o] = "migrating"
  /\ version[o] > Latest[o]
  /\ phase' = [phase EXCEPT ![o] = "open"]
  /\ UNCHANGED <<stamp, schema, version, writer, done>>

(* Open returns an error at any of its statements or at the commit, the    *)
(* store is closed, or the process dies: a transaction under way is undone. *)
Stops(o) ==
  /\ phase[o] # "closed"
  /\ phase' = [phase EXCEPT ![o] = "closed"]
  /\ writer' = IF writer = o THEN None ELSE writer
  /\ done' = IF writer = o THEN 0 ELSE done
  /\ UNCHANGED <<stamp, schema, version>>

Next ==
  \E o \in Openers :
    \/ ReadsStamp(o)
    \/ Executes(o)
    \/ Stamps(o)
    \/ Commits(o)
    \/ Opens(o)
    \/ Stops(o)

Spec == Init /\ [][Next]_vars

-----------------------------------------------------------------------------
TypeOK ==
  /\ stamp \in Nat
  /\ schema \in SUBSET (Nat \X Nat)
  /\ phase \in [Openers -> {"closed", "migrating", "open"}]
  /\ version \in [Openers -> Nat \ {0}]
  /\ \A o \in Openers : phase[o] # "closed" => version[o] <= Latest[o] + 1
  /\ writer \in Openers \cup {None}
  /\ done \in 0..Statements + 1

(* The file's objects are exactly those of the versions its stamp counts,  *)
(* whoever opened it, however often a process stopped in the middle, and   *)
(* however old the stamp was that a process acted on.                      *)
StampMatchesSchema == schema = SchemaOf(stamp)

(* A store that is open stands on every migration its build knows,         *)
(* whichever process applied them.                                         *)
OpenHasItsSchema ==
  \A o \in Openers : phase[o] = "open" => SchemaOf(Latest[o]) \subseteq schema

(* The version of a file never goes back: a process that read it before    *)
(* another raised it does not stamp it down, and an older build does not.  *)
StampOnlyRises == [][stamp' >= stamp]_vars
=============================================================================
