------------------------------- MODULE MCSeeding -------------------------------
(* Constants for model-checking Seeding: a seeding and a pack of two tickets *)
(* each, which share a category; pages of two rows, the cap inside the       *)
(* second page.                                                              *)
EXTENDS Seeding

CONSTANTS s1, s2, d1, d2, a1, k1

MCSeedTickets ==
    <<[name |-> s1, category |-> k1, notes |-> "given"],
      [name |-> s2, category |-> k1, notes |-> "none"]>>
MCPacks ==
    <<<<[name |-> d1, category |-> k1, notes |-> "given"],
        [name |-> d2, category |-> k1, notes |-> "none"]>>>>
MCArticles == <<a1>>
=============================================================================
