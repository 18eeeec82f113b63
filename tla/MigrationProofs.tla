-------------------------- MODULE MigrationProofs --------------------------
(***************************************************************************)
(* What migrating a file keeps for any number of processes, of any builds, *)
(* and migrations of any length: the stamp names the schema, it never goes *)
(* back, and an open store has the schema its build knows.                 *)
(***************************************************************************)
EXTENDS Migration, TLAPS

(* What a process believes of the file is never ahead of it: the migration *)
(* it is at is at most the next one.                                       *)
NotAhead == \A o \in Openers : phase[o] # "closed" => version[o] <= stamp + 1

(* A process whose store is open has come to the end of its list.          *)
OpenIsThrough == \A o \in Openers : phase[o] = "open" => Latest[o] < version[o]

(* Whoever is writing applies the very next migration: were it an older    *)
(* one, its first statement would have failed.                             *)
WriterIsNext ==
  /\ writer = None => done = 0
  /\ writer # None => /\ Migrating(writer)
                      /\ version[writer] = stamp + 1
                      /\ done >= 1

IInv ==
  /\ TypeOK
  /\ StampMatchesSchema
  /\ NotAhead
  /\ OpenIsThrough
  /\ WriterIsNext

LEMMA InitInv == Init => IInv
BY HistoryAssumption
   DEF Init, IInv, TypeOK, StampMatchesSchema, SchemaOf, NotAhead, OpenIsThrough, WriterIsNext

(* One more migration's objects make the schema of the next version.       *)
LEMMA SchemaGrows ==
  ASSUME NEW v \in Nat
  PROVE  SchemaOf(v + 1) = SchemaOf(v) \cup ({v + 1} \X (1..Statements))
<1>1. 1..v + 1 = (1..v) \cup {v + 1}
  OBVIOUS
<1> QED BY <1>1 DEF SchemaOf

LEMMA ReadsStampKeeps ==
  ASSUME IInv, NEW o \in Openers, ReadsStamp(o)
  PROVE  IInv'
<1> USE DEF IInv, ReadsStamp
<1>1. writer # o
  BY OpenersAssumption DEF WriterIsNext, Migrating
<1>2. TypeOK'
  <2>1. stamp \in Nat /\ Latest[o] \in Nat /\ stamp + 1 \in Nat \ {0}
    <3>1. stamp \in Nat
      BY DEF TypeOK
    <3>2. Latest[o] \in Nat
      BY HistoryAssumption
    <3> QED BY <3>1, <3>2
  <2>2. version' \in [Openers -> Nat \ {0}]
    BY <2>1 DEF TypeOK
  <2>3. phase' \in [Openers -> {"closed", "migrating", "open"}]
    BY DEF TypeOK
  <2>4. \A p \in Openers : phase'[p] # "closed" => version'[p] <= Latest[p] + 1
    BY <2>1 DEF TypeOK
  <2> QED BY <2>2, <2>3, <2>4 DEF TypeOK
<1>3. StampMatchesSchema'
  BY DEF StampMatchesSchema, SchemaOf
<1>4. NotAhead' /\ OpenIsThrough'
  BY DEF TypeOK, NotAhead, OpenIsThrough
<1>5. WriterIsNext'
  BY <1>1 DEF TypeOK, WriterIsNext, Migrating
<1> QED BY <1>2, <1>3, <1>4, <1>5

LEMMA ExecutesKeeps ==
  ASSUME IInv, NEW o \in Openers, Executes(o)
  PROVE  IInv'
<1> USE DEF IInv, Executes
<1>1. version[o] = stamp + 1
  <2>1. CASE writer = o
    BY <2>1, OpenersAssumption DEF WriterIsNext
  <2>2. CASE writer = None
    <3>1. done = 0
      BY <2>2 DEF WriterIsNext
    <3>2. <<version[o], 1>> \notin SchemaOf(stamp)
      BY <3>1 DEF StampMatchesSchema
    <3>3. version[o] \in Nat \ {0} /\ stamp \in Nat
      BY DEF TypeOK
    <3>4. version[o] \notin 1..stamp
      BY <3>2, HistoryAssumption DEF SchemaOf
    <3> QED BY <3>3, <3>4 DEF NotAhead, Migrating
  <2> QED BY <2>1, <2>2
<1>2. TypeOK'
  BY HistoryAssumption DEF TypeOK
<1>3. StampMatchesSchema'
  BY DEF StampMatchesSchema, SchemaOf
<1>4. NotAhead' /\ OpenIsThrough'
  BY DEF NotAhead, OpenIsThrough
<1>5. WriterIsNext'
  BY <1>1, OpenersAssumption DEF TypeOK, WriterIsNext, Migrating
<1> QED BY <1>2, <1>3, <1>4, <1>5

LEMMA StampsKeeps ==
  ASSUME IInv, NEW o \in Openers, Stamps(o)
  PROVE  IInv'
<1> USE DEF IInv, Stamps
<1>1. TypeOK'
  BY HistoryAssumption DEF TypeOK
<1>2. StampMatchesSchema'
  BY DEF StampMatchesSchema, SchemaOf
<1>3. NotAhead' /\ OpenIsThrough'
  BY DEF NotAhead, OpenIsThrough
<1>4. WriterIsNext'
  BY HistoryAssumption, OpenersAssumption DEF TypeOK, WriterIsNext, Migrating
<1> QED BY <1>1, <1>2, <1>3, <1>4

LEMMA CommitsKeeps ==
  ASSUME IInv, NEW o \in Openers, Commits(o)
  PROVE  IInv' /\ stamp' = stamp + 1
<1> USE DEF IInv, Commits
<1>1. version[o] = stamp + 1 /\ Migrating(o)
  BY OpenersAssumption DEF WriterIsNext
<1>2. stamp' = stamp + 1
  BY <1>1
<1>3. StampMatchesSchema'
  BY <1>1, <1>2, SchemaGrows DEF TypeOK, StampMatchesSchema, SchemaOf
<1>4. TypeOK'
  <2>1. schema' \in SUBSET (Nat \X Nat)
    BY <1>1, HistoryAssumption DEF TypeOK
  <2>2. version[o] \in Nat \ {0} /\ version[o] <= Latest[o] /\ Latest[o] \in Nat
    BY <1>1, HistoryAssumption DEF TypeOK, Migrating
  <2>3. version' \in [Openers -> Nat \ {0}] /\ stamp' \in Nat
    BY <2>2 DEF TypeOK
  <2>4. \A p \in Openers : phase'[p] # "closed" => version'[p] <= Latest[p] + 1
    BY <2>2 DEF TypeOK
  <2>5. writer' \in Openers \cup {None} /\ done' \in 0..Statements + 1
    BY HistoryAssumption
  <2> QED BY <2>1, <2>3, <2>4, <2>5 DEF TypeOK
<1>5. NotAhead' /\ OpenIsThrough'
  BY <1>1, <1>2 DEF TypeOK, NotAhead, OpenIsThrough, Migrating
<1>6. WriterIsNext'
  BY DEF WriterIsNext
<1> QED BY <1>2, <1>3, <1>4, <1>5, <1>6

LEMMA OpensKeeps ==
  ASSUME IInv, NEW o \in Openers, Opens(o)
  PROVE  IInv'
<1> USE DEF IInv, Opens
<1>1. writer # o
  <2>1. version[o] \in Nat /\ Latest[o] \in Nat
    BY HistoryAssumption DEF TypeOK
  <2>2. ~Migrating(o)
    BY <2>1 DEF Migrating
  <2> QED BY <2>2, OpenersAssumption DEF WriterIsNext
<1>2. TypeOK'
  BY DEF TypeOK
<1>3. StampMatchesSchema'
  BY DEF StampMatchesSchema, SchemaOf
<1>4. NotAhead' /\ OpenIsThrough'
  BY HistoryAssumption DEF TypeOK, NotAhead, OpenIsThrough
<1>5. WriterIsNext'
  BY <1>1 DEF TypeOK, WriterIsNext, Migrating
<1> QED BY <1>2, <1>3, <1>4, <1>5

LEMMA StopsKeeps ==
  ASSUME IInv, NEW o \in Openers, Stops(o)
  PROVE  IInv'
<1> USE DEF IInv, Stops
<1>1. TypeOK'
  BY HistoryAssumption DEF TypeOK
<1>2. StampMatchesSchema'
  BY DEF StampMatchesSchema, SchemaOf
<1>3. NotAhead' /\ OpenIsThrough'
  BY DEF TypeOK, NotAhead, OpenIsThrough
<1>4. WriterIsNext'
  <2>1. CASE writer = o
    BY <2>1, OpenersAssumption DEF WriterIsNext
  <2>2. CASE writer # o
    BY <2>2 DEF TypeOK, WriterIsNext, Migrating
  <2> QED BY <2>1, <2>2
<1> QED BY <1>1, <1>2, <1>3, <1>4

LEMMA StutterKeeps == IInv /\ UNCHANGED vars => IInv'
BY DEF IInv, vars, TypeOK, StampMatchesSchema, SchemaOf, NotAhead, OpenIsThrough,
       WriterIsNext, Migrating

LEMMA NextInv == IInv /\ [Next]_vars => IInv'
<1> SUFFICES ASSUME IInv, [Next]_vars PROVE IInv'
  OBVIOUS
<1>1. ASSUME NEW o \in Openers, ReadsStamp(o) PROVE IInv'
  BY <1>1, ReadsStampKeeps
<1>2. ASSUME NEW o \in Openers, Executes(o) PROVE IInv'
  BY <1>2, ExecutesKeeps
<1>3. ASSUME NEW o \in Openers, Stamps(o) PROVE IInv'
  BY <1>3, StampsKeeps
<1>4. ASSUME NEW o \in Openers, Commits(o) PROVE IInv'
  BY <1>4, CommitsKeeps
<1>5. ASSUME NEW o \in Openers, Opens(o) PROVE IInv'
  BY <1>5, OpensKeeps
<1>6. ASSUME NEW o \in Openers, Stops(o) PROVE IInv'
  BY <1>6, StopsKeeps
<1>7. CASE UNCHANGED vars
  BY <1>7, StutterKeeps
<1> QED BY <1>1, <1>2, <1>3, <1>4, <1>5, <1>6, <1>7 DEF Next

LEMMA Invariance == Spec => []IInv
BY InitInv, NextInv, PTL DEF Spec

(* The processes and the file keep their types; above all, no process ever *)
(* looks for a migration beyond the end of its list.                       *)
THEOREM TypeCorrect == Spec => []TypeOK
<1>1. IInv => TypeOK
  BY DEF IInv
<1> QED BY <1>1, Invariance, PTL

(* The file holds the objects of the versions its stamp counts, and no     *)
(* others, at every moment: a crash, a failed statement and a second       *)
(* process in the middle of a migration included.                          *)
THEOREM StampNamesTheSchema == Spec => []StampMatchesSchema
<1>1. IInv => StampMatchesSchema
  BY DEF IInv
<1> QED BY <1>1, Invariance, PTL

(* Open returns a store only when every migration of its build is there.   *)
THEOREM OpenStoresHaveTheirSchema == Spec => []OpenHasItsSchema
<1>1. IInv => OpenHasItsSchema
  <2> SUFFICES ASSUME IInv, NEW o \in Openers, phase[o] = "open"
               PROVE  SchemaOf(Latest[o]) \subseteq schema
    BY DEF OpenHasItsSchema
  <2>1. stamp \in Nat /\ version[o] \in Nat /\ Latest[o] \in Nat
    BY HistoryAssumption DEF IInv, TypeOK
  <2>2. version[o] <= stamp + 1 /\ Latest[o] < version[o]
    BY DEF IInv, NotAhead, OpenIsThrough
  <2>3. Latest[o] <= stamp
    BY <2>1, <2>2
  <2>4. 1..Latest[o] \subseteq 1..stamp
    BY <2>1, <2>3
  <2> QED BY <2>4 DEF IInv, StampMatchesSchema, SchemaOf
<1> QED BY <1>1, Invariance, PTL

(* No process takes the version of a file back.                            *)
THEOREM StampNeverGoesBack == Spec => StampOnlyRises
<1>1. IInv /\ [Next]_vars => [stamp' >= stamp]_vars
  <2> SUFFICES ASSUME IInv, Next PROVE stamp' >= stamp
    OBVIOUS
  <2>1. stamp \in Nat
    BY DEF IInv, TypeOK
  <2>2. ASSUME NEW o \in Openers, Commits(o) PROVE stamp' >= stamp
    BY <2>1, <2>2, CommitsKeeps
  <2>3. CASE UNCHANGED stamp
    BY <2>1, <2>3
  <2> QED BY <2>2, <2>3 DEF Next, ReadsStamp, Executes, Stamps, Opens, Stops
<1> QED BY <1>1, Invariance, PTL DEF Spec, StampOnlyRises
=============================================================================
