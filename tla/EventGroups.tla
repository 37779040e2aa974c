---------------------------- MODULE EventGroups ----------------------------
(***************************************************************************)
(* What the webhook debouncer promises, with no timer, lock or goroutine   *)
(* in it: an accepted event joins the open group of its key or opens one,  *)
(* and a group closes once, by the handling of the event that opened it.   *)
(* The events that joined later are answered for by that handling.         *)
(* WebhookIntake implements this specification.                            *)
(***************************************************************************)
CONSTANTS
  Events,   \* events that the debouncer accepts
  Keys,     \* what events are grouped by
  KeyOf,    \* [Events -> Keys]
  NoEvent   \* there is no open group

VARIABLES
  leader,   \* [Keys -> Events \cup {NoEvent}], the event that opened the group
  joined,   \* the events accepted so far
  handled   \* the events handled so far

vars == <<leader, joined, handled>>

TypeOK ==
  /\ leader \in [Keys -> Events \cup {NoEvent}]
  /\ joined \subseteq Events
  /\ handled \subseteq joined

Init ==
  /\ leader = [k \in Keys |-> NoEvent]
  /\ joined = {}
  /\ handled = {}

Accept(e) ==
  /\ e \notin joined
  /\ joined' = joined \cup {e}
  /\ leader' = [leader EXCEPT ![KeyOf[e]] = IF @ = NoEvent THEN e ELSE @]
  /\ UNCHANGED handled

Handle(k) ==
  /\ leader[k] \in Events \ handled
  /\ handled' = handled \cup {leader[k]}
  /\ leader' = [leader EXCEPT ![k] = NoEvent]
  /\ UNCHANGED joined

Next == (\E e \in Events : Accept(e)) \/ (\E k \in Keys : Handle(k))

Spec == Init /\ [][Next]_vars
=============================================================================
