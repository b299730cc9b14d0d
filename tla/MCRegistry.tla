----------------------------- MODULE MCRegistry -----------------------------
(* Values of the constants of Registry. *)
EXTENDS Registry

MCOption(n, min, max) ==
    [service |-> n, minDistance |-> min, maxDistance |-> max]

\* Two remotes of one name at different distances; one of them is announced with
\* another priority under the same target id.
MCAnnounced ==
    {[kind |-> "remote", id |-> 1, name |-> "a", priority |-> p,
      distance |-> 1] : p \in Priority}
    \cup {[kind |-> "remote", id |-> 2, name |-> "a", priority |-> 0,
           distance |-> 2]}

\* Local or near, then another name; the same name twice.
MCOptions ==
    {<<MCOption("a", 0, 1), MCOption("b", 0, 2)>>,
     <<MCOption("a", 1, 2), MCOption("a", 0, 0)>>}

\* Two weighted cases, which name both services, and a case without weight.
MCRoutes ==
    {<<>>,
     <<[weight |-> 1, options |-> <<MCOption("a", 0, 2)>>],
       [weight |-> 2,
        options |-> <<MCOption("b", 0, 2), MCOption("a", 1, 1)>>]>>,
     <<[weight |-> 0, options |-> <<MCOption("a", 0, 0)>>]>>}

\* Clients are alike.
MCSymmetry == Permutations(Client)
=============================================================================
