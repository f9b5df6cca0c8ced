-------------------------- MODULE MCSubscriptions --------------------------
(* Subscriptions with few links to start from and to ask for. *)
EXTENDS Subscriptions

OneStatic(k) == [NoLinks EXCEPT !.static[1] = {k}]

Unlinked    == {NoLinks}
FirstStatic == {OneStatic(k) : k \in Known}
Edits       == {NoLinks} \cup FirstStatic
=============================================================================
