------------------------------ MODULE Delivery ------------------------------
(***************************************************************************)
(* What delivery promises, with no worker, queue, request or sweep in it:  *)
(* the life of a publication (docs/03-database-schema.md, section 5.3, and *)
(* the header of services/publishing.ts).                                  *)
(*                                                                         *)
(* A publication that is not disturbed is sent at most once, only while it *)
(* is in flight, and only after somebody asked for it; it is called        *)
(* published once it is out, and goes back to waiting, or is called failed,*)
(* only while it is not.  Of a disturbed one nothing is promised but that  *)
(* what is out stays out and that "published" means out.                   *)
(***************************************************************************)
CONSTANT Pubs

VARIABLES
  status,     \* as in the publications table
  out,        \* how often the post is on the Page: "no", "once" or "more"
  disturbed   \* the publications for which the promise is off, for good

vars == <<status, out, disturbed>>

Waiting == {"none", "scheduled", "failed", "cancelled"}

Init ==
  /\ status = [p \in Pubs |-> "none"]
  /\ out = [p \in Pubs |-> "no"]
  /\ disturbed = {}

Moves(p, s) == status'[p] = s /\ out'[p] = out[p]

Ask(p) == status[p] \in Waiting /\ Moves(p, "scheduled")

Cancel(p) == status[p] \in Waiting \ {"none"} /\ Moves(p, "cancelled")

Take(p) == status[p] = "scheduled" /\ Moves(p, "publishing")

(* The Page may be disconnected while the call is under way.               *)
Send(p) ==
  /\ status[p] \in {"publishing", "gone"} /\ status'[p] = status[p]
  /\ out[p] = "no" /\ out'[p] = "once"

Confirm(p) == status[p] = "publishing" /\ out[p] = "once" /\ Moves(p, "published")

PutBack(p) ==
  /\ status[p] = "publishing" /\ out[p] = "no"
  /\ Moves(p, "scheduled") \/ Moves(p, "failed")

Disconnected(p) == status[p] # "none" /\ Moves(p, "gone")

Undisturbed(p) ==
  /\ p \notin disturbed /\ p \notin disturbed'
  /\ \/ Ask(p) \/ Cancel(p) \/ Take(p) \/ Send(p) \/ Confirm(p)
     \/ PutBack(p) \/ Disconnected(p) \/ Moves(p, status[p])

Disturbed(p) ==
  /\ p \in disturbed'
  /\ out[p] # "no" => out'[p] # "no"
  /\ status'[p] = "published" => out'[p] # "no"

(* One step may move several publications: a sweep, a disconnected Page.   *)
Next == \A p \in Pubs : Undisturbed(p) \/ Disturbed(p)

Spec == Init /\ [][Next]_vars

(* The promise in a line each: nothing undisturbed goes out twice, what is *)
(* called published is out, and what waits undisturbed is not.             *)
SentOnce == \A p \in Pubs : p \in disturbed \/ out[p] # "more"
PublishedIsOut == \A p \in Pubs : status[p] = "published" => out[p] # "no"
WaitingIsUnsent == \A p \in Pubs : p \in disturbed \/ (status[p] \in Waiting => out[p] = "no")
=============================================================================
