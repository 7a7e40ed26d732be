--------------------------- MODULE ArticleLifecycle ---------------------------
(***************************************************************************)
(* What the review workflow promises of an article's status, whoever works *)
(* on it: a draft may be edited, must not be published twice, and leaves   *)
(* the workflow by being PUSHED or REJECTED, for good.  An article the     *)
(* ITSM had already enters as IMPORTED and may only be rejected.           *)
(***************************************************************************)
CONSTANTS ArticleIds, Drafts

VARIABLE status

Init == status = [a \in ArticleIds |-> IF a \in Drafts THEN "DRAFT" ELSE "NONE"]

Move(a, from, to) ==
    /\ status[a] \in from
    /\ status' = [status EXCEPT ![a] = to]

Edit(a) == Move(a, {"DRAFT"}, "EDITED")
Approve(a) == Move(a, {"DRAFT", "EDITED"}, "APPROVED")
Publish(a) == Move(a, {"DRAFT", "EDITED", "APPROVED"}, "PUSHED")
Reject(a) == Move(a, {"DRAFT", "EDITED", "APPROVED", "IMPORTED"}, "REJECTED")
Import(a) == Move(a, {"NONE"}, "IMPORTED")

Next == \E a \in ArticleIds :
           Edit(a) \/ Approve(a) \/ Publish(a) \/ Reject(a) \/ Import(a)

Spec == Init /\ [][Next]_status
=============================================================================
