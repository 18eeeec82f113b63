-------------------------------- MODULE Stores --------------------------------
(* The durable half of the domain behind its port (internal/store): the one  *)
(* a process keeps in memory (memory.go) and the one in a SQLite file        *)
(* (sqlite/sqlite.go).  They differ in what they hold of a channel: memory   *)
(* the caller's handle, SQLite a row; and in a Grant: memory writes all of   *)
(* it under its lock, SQLite one statement per permission.  A SQLite write   *)
(* can fail, and a statement that fails wrote nothing.                       *)
EXTENDS Space, Integers, Sequences
CONSTANTS Backend,  \* "memory" or "sqlite"
          Callers   \* the goroutines that call Grant

MinGain == 0
DefaultGain == 100
MaxGain == 200

ASSUME BackendAssumption == Backend \in {"memory", "sqlite"}

VARIABLES table,       \* from channel identifiers: a handle, or a channel
          membership,  \* set of <<space, member>>
          grants,      \* set of [principal, subject, permission]
          gains,       \* from the <<listener, speaker>> that have a row
          granting     \* from callers inside Grant to what they still write

storeVars == <<table, membership, grants, gains, granting>>

Request == [principal : Principals \cup {None},
            subject : [space : Spaces \cup {None}, channel : ChannelIDs \cup {None}],
            granted : Seq(Permission \cup {Retired})]

Row(id) == IF Backend = "memory" THEN heap[table[id]] ELSE table[id]

(* What a put keeps: memory the handle itself.                               *)
Kept(h) == IF Backend = "memory" THEN h ELSE heap[h]

(* Nothing but the space and the caller can reach this value.                *)
Unreachable(h) ==
  /\ h \notin {channels[c] : c \in DOMAIN channels}
  /\ Backend = "memory" => h \notin {table[c] : c \in DOMAIN table}

(* Mutation of PutChannel: a row that is there already is left as it is.     *)
PutChannelOnce(h) ==
  /\ h \in DOMAIN heap
  /\ table' = IF heap[h].id \in DOMAIN table THEN table
              ELSE Having(table, heap[h].id, Kept(h))
  /\ UNCHANGED <<heap, membership, grants, gains, granting>>

PutChannel(h) ==
  /\ h \in DOMAIN heap
  /\ table' = Having(table, heap[h].id, Kept(h))
  /\ UNCHANGED <<heap, membership, grants, gains, granting>>

(* Channel.  SQLite builds a value of its own; from memory comes the handle  *)
(* that was put, which changes nothing.                                      *)
ReadChannel(h, id) ==
  /\ Backend = "sqlite" /\ id \in DOMAIN table /\ h \notin DOMAIN heap
  /\ heap' = Having(heap, h, Row(id))
  /\ UNCHANGED storeVars

ChannelsInSpace(space) == {id \in DOMAIN table : Row(id).space = space}

PairError(a, b) == IF None \in {a, b} THEN "ErrInvalid" ELSE "nil"

PutMember(space, member) ==
  /\ PairError(space, member) = "nil"
  /\ membership' = membership \cup {<<space, member>>}
  /\ UNCHANGED <<heap, table, grants, gains, granting>>

Members(space) == {m \in Principals : <<space, m>> \in membership}

Parses(name) == name \in Permission

GrantError(request) ==
  IF \/ None \in {request.principal, request.subject.space}
     \/ \E i \in DOMAIN request.granted : ~ Parses(request.granted[i])
  THEN "ErrInvalid" ELSE "nil"

Rows(request) ==
  {[principal |-> request.principal, subject |-> request.subject,
    permission |-> request.granted[i]] : i \in DOMAIN request.granted}

(* Grant: the checks of the whole call, before any of it is written.         *)
GrantBegins(c, request) ==
  /\ c \notin DOMAIN granting
  /\ GrantError(request) = "nil"
  /\ granting' = Having(granting, c, [request |-> request, left |-> request.granted])
  /\ UNCHANGED <<heap, table, membership, grants, gains>>

(* What is written in one step: memory, all of it, under the lock; SQLite,   *)
(* a statement's.                                                            *)
Batch(left) == IF Backend = "memory" THEN left ELSE <<Head(left)>>

(* Mutation of GrantWrites: a row that is there already ends the call.       *)
GrantWritesUntilHeld(c) ==
  /\ c \in DOMAIN granting /\ granting[c].left # << >>
  /\ LET g == granting[c]
         next == Rows([g.request EXCEPT !.granted = Batch(g.left)]) IN
     /\ grants' = grants \cup next
     /\ granting' = [granting EXCEPT ![c].left = IF next \subseteq grants THEN << >>
                                                 ELSE Tail(@)]
  /\ UNCHANGED <<heap, table, membership, gains>>

GrantWrites(c) ==
  /\ c \in DOMAIN granting /\ granting[c].left # << >>
  /\ LET g == granting[c] IN
     grants' = grants \cup Rows([g.request EXCEPT !.granted = Batch(g.left)])
  /\ granting' = [granting EXCEPT ![c].left =
                    SubSeq(@, Len(Batch(@)) + 1, Len(@))]
  /\ UNCHANGED <<heap, table, membership, gains>>

GrantReturns(c) ==
  /\ c \in DOMAIN granting /\ granting[c].left = << >>
  /\ granting' = Without(granting, c)
  /\ UNCHANGED <<heap, table, membership, grants, gains>>

(* A statement fails: the call ends there, and what it wrote stays.          *)
GrantFails(c) ==
  /\ Backend = "sqlite" /\ c \in DOMAIN granting /\ granting[c].left # << >>
  /\ granting' = Without(granting, c)
  /\ UNCHANGED <<heap, table, membership, grants, gains>>

(* Mutation of Granted: a grant answers for the space its subject is in.     *)
GrantedInSpace(p, s) ==
  NewPermissionSet({g.permission :
    g \in {x \in grants : x.principal = p /\ x.subject.space = s.space}})

(* A name that no longer parses is skipped and the rest still answers.       *)
Granted(p, s) ==
  NewPermissionSet({g.permission : g \in {x \in grants : x.principal = p /\ x.subject = s}})

(* What a permission question may see: SQLite's read can fail, and then the  *)
(* answer is that nothing is granted.                                        *)
Answers(p, s) == {Granted(p, s)} \cup (IF Backend = "sqlite" THEN {{}} ELSE {})

GainError(percent) == IF percent \notin MinGain..MaxGain THEN "ErrInvalid" ELSE "nil"

SetGain(listener, speaker, percent) ==
  /\ PairError(listener, speaker) = "nil" /\ GainError(percent) = "nil"
  /\ gains' = IF percent = DefaultGain THEN Without(gains, <<listener, speaker>>)
              ELSE Having(gains, <<listener, speaker>>, percent)
  /\ UNCHANGED <<heap, table, membership, grants, granting>>

Gain(listener, speaker) ==
  IF <<listener, speaker>> \in DOMAIN gains THEN gains[<<listener, speaker>>]
  ELSE DefaultGain
=============================================================================
