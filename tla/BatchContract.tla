---------------------------- MODULE BatchContract ----------------------------
(***************************************************************************)
(* What the consumer of a durable record batch is promised.                *)
(* docs/reference/api.md says that the Python service and the Cloudflare   *)
(* read Worker "implement the same admission and replay contract": chunks  *)
(* are immutable, and become visible only with the quota they settle.      *)
(*                                                                         *)
(* A batch is charged in full when it is admitted.  A chunk adds the apexes*)
(* that come next and may give back some of their units; the end of a batch*)
(* gives back the units of what was not delivered.  Nothing else happens to*)
(* a batch until it is forgotten.                                          *)
(***************************************************************************)
EXTENDS Integers, Sequences

CONSTANT Size    \* the apexes a request may have

VARIABLE batch

Absent == [state |-> "absent", size |-> 0, held |-> 0, chunks |-> <<>>]

\* How far the chunks have come.
Delivered ==
    LET last == batch.chunks[Len(batch.chunks)] IN
    IF batch.chunks = <<>> THEN 0 ELSE last.first + last.count

Left == batch.size - Delivered

Init == batch = Absent

Admit ==
    /\ batch = Absent
    /\ \E n \in Size :
         batch' = [state |-> "open", size |-> n, held |-> n, chunks |-> <<>>]

\* n apexes, f of which are not charged for; a batch that was to be cancelled ends.
Deliver ==
    /\ batch.state = "open"
    /\ \E n \in 1..Left, ends \in BOOLEAN :
       \E f \in 0..n :
         /\ n = Left => ends
         /\ batch' = [batch EXCEPT
              !.state = IF ends THEN "ended" ELSE "open",
              !.held = @ - f - (IF ends THEN Left - n ELSE 0),
              !.chunks = Append(@, [first |-> Delivered, count |-> n])]

End ==
    /\ batch.state = "open"
    /\ batch' = [batch EXCEPT !.state = "ended", !.held = @ - Left]

Forget ==
    /\ batch.state = "ended"
    /\ batch' = Absent

Next == Admit \/ Deliver \/ End \/ Forget

Step == [Next]_batch

Spec == Init /\ [][Next]_batch
=============================================================================
