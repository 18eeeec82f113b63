----------------------------- MODULE MCAdmission -----------------------------
(* One connection, two logins that overlap and two tokens; what a client may *)
(* put in a hello beside a plain proposal: one behind a field this build     *)
(* does not know, two proposals, none, one of another width, and one cut     *)
(* short.                                                                    *)
EXTENDS Admission, TLC

MCHello ==
  {Message(<<Field(7, Wide), Field(1, 1)>>), Message(<<Field(1, 1), Field(1, 3)>>),
   Message(<< >>), Message(<<Field(1, Wide)>>),
   [fields |-> <<Field(1, 1)>>, whole |-> FALSE]}

Alike == Permutations(Tokens) \cup Permutations(Logins)
=============================================================================
