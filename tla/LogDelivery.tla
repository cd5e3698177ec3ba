---------------------------- MODULE LogDelivery ----------------------------
(***************************************************************************)
(* What a LogMate client promises about the records handed to it, whatever *)
(* the language: an accepted record is held in one of two lanes (the       *)
(* SQLite table or the in-memory fallback) until the API has received it;  *)
(* inside a lane records are sent strictly in the order they were          *)
(* accepted and within a session; and a record the API has not received    *)
(* leaves the client only in three ways: when a session is opened, when    *)
(* the process ends, or as another sender's (Open, Exit, Reject).          *)
(*                                                                         *)
(* Delivery is at least once: Receive may happen again for a record that   *)
(* is still held, which is a stuttering step here.                         *)
(***************************************************************************)
EXTENDS Naturals, FiniteSets

CONSTANT Records            \* the records the application logs

VARIABLES lane,             \* "none", or the lane the record was accepted in
          ticket,           \* position in the order of acceptance, 0 before
          pending,          \* accepted records the client still holds
          received,         \* records the API has received at least once
          open              \* the client has a session with the API

abstractVars == <<lane, ticket, pending, received, open>>

Lanes == {"disk", "memory"}
Accepted == {r \in Records : lane[r] # "none"}
Held(l) == {r \in pending : lane[r] = l}
OldestOf(r) == \A other \in Held(lane[r]) : ticket[r] <= ticket[other]

Init ==
    /\ lane = [r \in Records |-> "none"]
    /\ ticket = [r \in Records |-> 0]
    /\ pending = {}
    /\ received = {}
    /\ open = FALSE

(* The client takes a record and gives it the next place in the order. *)
Accept(r, l) ==
    /\ lane[r] = "none"
    /\ lane' = [lane EXCEPT ![r] = l]
    /\ ticket' = [ticket EXCEPT ![r] = Cardinality(Accepted) + 1]
    /\ pending' = pending \cup {r}
    /\ UNCHANGED <<received, open>>

(* The API receives a record, the oldest one of its lane; the answer may   *)
(* fail all the same and end the session.                                  *)
Receive(r) ==
    /\ open
    /\ r \in pending
    /\ OldestOf(r)
    /\ received' = received \cup {r}
    /\ open' \in BOOLEAN
    /\ UNCHANGED <<lane, ticket, pending>>

(* A record the API has received is dropped from the queue. *)
Settle(r) ==
    /\ r \in pending \cap received
    /\ pending' = pending \ {r}
    /\ UNCHANGED <<lane, ticket, received, open>>

(* Opening a session discards the whole durable lane, unless that lane is  *)
(* out of use; outside of that moment it loses no record.                  *)
Open ==
    /\ ~open
    /\ open' = TRUE
    /\ pending' \in {pending, Held("memory")}
    /\ UNCHANGED <<lane, ticket, received>>

(* An outage, a refusal or a stop ends the session. *)
Lapse ==
    /\ open' = FALSE
    /\ UNCHANGED <<lane, ticket, pending, received>>

(* The end of the process takes the volatile lane with it. *)
Exit ==
    /\ pending' = Held("disk")
    /\ open' = FALSE
    /\ UNCHANGED <<lane, ticket, received>>

(* A record of another sender is dropped when it reaches the head. *)
Reject(r) ==
    /\ open
    /\ r \in pending
    /\ OldestOf(r)
    /\ pending' = pending \ {r}
    /\ UNCHANGED <<lane, ticket, received, open>>

Next ==
    \/ \E r \in Records : \/ \E l \in Lanes : Accept(r, l)
                          \/ Receive(r)
                          \/ Settle(r)
                          \/ Reject(r)
    \/ Open
    \/ Lapse
    \/ Exit

Spec == Init /\ [][Next]_abstractVars

=============================================================================
