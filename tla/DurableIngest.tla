---------------------------- MODULE DurableIngest ----------------------------
(***************************************************************************)
(* What the gateway's local queue promises the rest of the gateway: a      *)
(* record it has accepted is kept until the database has it, and the       *)
(* database receives the records in the order they were accepted.          *)
(*                                                                         *)
(* The three variables are high-water marks over acceptance order: records *)
(* 1..accepted have been handed to the queue, 1..stored are committed in   *)
(* the database, 1..forgotten have been deleted from the queue's file.     *)
(* Crashes, retries and duplicates of the implementation are invisible     *)
(* here: none of them moves a mark backwards or lets one pass another.     *)
(***************************************************************************)
EXTENDS Naturals

VARIABLES accepted, stored, forgotten

marks == <<accepted, stored, forgotten>>

\* forgotten <= stored <= accepted: the whole promise, as one state predicate.
InOrder == /\ accepted \in Nat /\ stored \in Nat /\ forgotten \in Nat
           /\ forgotten <= stored
           /\ stored <= accepted

Init == accepted = 0 /\ stored = 0 /\ forgotten = 0

\* A producer hands one record to the queue.
Accept == /\ accepted' = accepted + 1
          /\ UNCHANGED <<stored, forgotten>>

\* A transaction commits: the stored prefix grows, never past what was accepted.
Store == /\ stored' \in Nat
         /\ stored < stored' /\ stored' <= accepted
         /\ UNCHANGED <<accepted, forgotten>>

\* The queue deletes records, and only ones the database has.
Forget == /\ forgotten' \in Nat
          /\ forgotten < forgotten' /\ forgotten' <= stored
          /\ UNCHANGED <<accepted, stored>>

Next == Accept \/ Store \/ Forget

Spec == Init /\ [][Next]_marks
==============================================================================
