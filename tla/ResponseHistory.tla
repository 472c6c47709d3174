--------------------------- MODULE ResponseHistory ---------------------------
(***************************************************************************)
(* What the store promises about the responses, whatever fails: README.md, *)
(* "History lives server-side".  A record is created once, its place in a  *)
(* thread never changes, its messages are only ever added to, and its      *)
(* status moves to a final one.  The one final status that may replace     *)
(* another is "cancelled" (ActiveResponseSession.run()).                   *)
(***************************************************************************)
EXTENDS Naturals, Sequences

CONSTANTS Ids, NoRecord

VARIABLE records    \* the record of each response, or NoRecord

Final == {"completed", "cancelled", "failed"}

Init == records = [r \in Ids |-> NoRecord]

(* The messages t are the messages s, and possibly more. *)
Extends(t, s) == Len(s) <= Len(t) /\ \A i \in 1..Len(s) : t[i] = s[i]

Create(r) == records[r] = NoRecord /\ records'[r] # NoRecord

Grow(r) ==
    /\ records[r] # NoRecord
    /\ records'[r] # NoRecord
    /\ records'[r].thread = records[r].thread
    /\ records'[r].parent = records[r].parent
    /\ Extends(records'[r].messages, records[r].messages)
    /\ \/ records'[r].status = records[r].status
       \/ records[r].status \notin Final
       \/ records'[r].status = "cancelled"

(* One commit may bring what several responses have waiting. *)
Next == \A r \in Ids : records'[r] = records[r] \/ Create(r) \/ Grow(r)

Spec == Init /\ [][Next]_records
===============================================================================
