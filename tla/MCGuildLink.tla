----------------------------- MODULE MCGuildLink -----------------------------
(***************************************************************************)
(* GuildLink on a small instance.  All the properties are safety            *)
(* properties, and ids of one kind are interchangeable.                     *)
(***************************************************************************)
EXTENDS GuildLink, TLC

Symmetry ==
    Permutations(Orgs) \cup Permutations(Codes) \cup Permutations(Links)
        \cup Permutations(Guilds) \cup Permutations(Requests)
===============================================================================
