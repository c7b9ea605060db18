------------------------------ MODULE MCCodecs ------------------------------
(***************************************************************************)
(* An instance of Codecs for TLC: archives of one and two members that are *)
(* smaller or larger than what they hold, whose size has wrapped, that end *)
(* in a broken member or hold none.                                        *)
(***************************************************************************)
EXTENDS Codecs

MCArchive ==
    { [members |-> <<1>>,    broken |-> FALSE, stored |-> 2],
      [members |-> <<3>>,    broken |-> FALSE, stored |-> 1],
      [members |-> <<5>>,    broken |-> FALSE, stored |-> 2],
      [members |-> <<7>>,    broken |-> FALSE, stored |-> 2],
      [members |-> <<4, 3>>, broken |-> FALSE, stored |-> 2],
      [members |-> <<4>>,    broken |-> FALSE, stored |-> 1],
      [members |-> <<4>>,    broken |-> TRUE,  stored |-> 2],
      [members |-> <<>>,     broken |-> FALSE, stored |-> 0] }
=============================================================================
