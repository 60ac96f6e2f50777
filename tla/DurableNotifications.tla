------------------------- MODULE DurableNotifications -------------------------
(***************************************************************************)
(* What the webhook queue of the SalesForce service catalogue promises to  *)
(* the sender, without rows, attempts, leases or replicas: a notification  *)
(* answered with 200 is owed until the local copy has reached the change   *)
(* it announces.                                                           *)
(***************************************************************************)
EXTENDS Naturals

CONSTANT Slugs

VARIABLES
    source,    \* [Slugs -> Nat]: changes made at the source, per service
    copied,    \* [Slugs -> Nat]: the furthest change the copy ever reached
    accepted,  \* the <<slug, version>> pairs answered with 200
    owed       \* the accepted pairs that still have a pending notification

vars == <<source, copied, accepted, owed>>

Notification == Slugs \X Nat

Init ==
    /\ source = [s \in Slugs |-> 0]
    /\ copied = [s \in Slugs |-> 0]
    /\ accepted = {}
    /\ owed = {}

\* The source changes a service.
Change(s) ==
    /\ source' = [source EXCEPT ![s] = @ + 1]
    /\ UNCHANGED <<copied, accepted, owed>>

\* A notification of a change is acknowledged: it becomes owed, or it repeats
\* one that is still owed or whose change was already copied.
Accept(s, v) ==
    /\ v <= source[s]
    /\ accepted' = accepted \union {<<s, v>>}
    /\ \/ owed' = owed \union {<<s, v>>}
       \/ /\ v <= copied[s]
          /\ UNCHANGED owed
    /\ UNCHANGED <<source, copied>>

\* The copy reaches a later change, never one the source has not made.
Copy(s, v) ==
    /\ copied[s] < v
    /\ v <= source[s]
    /\ copied' = [copied EXCEPT ![s] = v]
    /\ UNCHANGED <<source, accepted, owed>>

\* Notifications whose changes were copied are settled together.
Settle(done) ==
    /\ done # {}
    /\ done \subseteq owed
    /\ \A c \in done : c[2] <= copied[c[1]]
    /\ owed' = owed \ done
    /\ UNCHANGED <<source, copied, accepted>>

Next ==
    \/ \E s \in Slugs : Change(s)
    \/ \E s \in Slugs : \E v \in 1 .. source[s] : Accept(s, v) \/ Copy(s, v)
    \/ \E done \in SUBSET owed : Settle(done)

Spec == Init /\ [][Next]_vars

-----------------------------------------------------------------------------
\* No acknowledged change is forgotten: it is owed or it was copied.
NothingForgotten == \A c \in accepted : c \in owed \/ c[2] <= copied[c[1]]

===============================================================================
