---------------------------- MODULE PlanAuthority ----------------------------
(***************************************************************************)
(* What Gate 2 promises the rest of the system, without the files.         *)
(*                                                                         *)
(* `authority` is the one plan that downstream stages may act on;          *)
(* `response` is the package a buyer-facing door would let out.  Authority *)
(* is granted, held and withdrawn; it is never exchanged for another plan  *)
(* in one step, and a response exists only under the authority it answers. *)
(***************************************************************************)
CONSTANTS
    Plans,            \* what can be an authority
    Responses,        \* the sound packages
    Answers(_, _),    \* Answers(r, p): the package r answers the plan p
    NoPlan, NoResponse

VARIABLES authority, response

Bound == \/ response = NoResponse
         \/ /\ authority # NoPlan
            /\ response \in Responses
            /\ Answers(response, authority)

Init == authority = NoPlan /\ response = NoResponse

Grant == /\ authority = NoPlan
         /\ authority' \in Plans \ {NoPlan}
         /\ Bound'

Withdraw == /\ authority # NoPlan
            /\ authority' = NoPlan
            /\ response' = NoResponse

\* A response becomes available, is replaced by a newer one, or is recalled.
Answer == /\ authority # NoPlan
          /\ UNCHANGED authority
          /\ Bound'

Next == Grant \/ Withdraw \/ Answer

Spec == Init /\ [][Next]_<<authority, response>>
=============================================================================
