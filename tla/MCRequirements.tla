--------------------------- MODULE MCRequirements ---------------------------
(***************************************************************************)
(* A small instance of Requirements for TLC.                               *)
(***************************************************************************)
EXTENDS Requirements

CONSTANTS purpose, sub, nature, a, b

Free(r) == [required |-> r, allowed |-> {}, parent |-> NoKey, trigger |-> a]
Below(p, v, al) == [required |-> TRUE, allowed |-> al, parent |-> p, trigger |-> v]

\* The purpose is a select or a text; what lies below it, or below the nature,
\* depends on the corridor.
Corridors ==
  {r \in [Keys -> RulesOfWise] :
    /\ r[purpose] \in {Free(TRUE), Free(FALSE), [Free(TRUE) EXCEPT !.allowed = {a}]}
    /\ r[sub] \in {Free(TRUE)} \cup {Below(p, v, al) : p \in {purpose, nature}, v \in {a, b},
                                                      al \in {{}, {b}}}
    /\ r[nature] \in {Free(TRUE), Free(FALSE), Below(purpose, b, {}), Below(sub, b, {a})}}
=============================================================================
