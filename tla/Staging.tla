------------------------------ MODULE Staging ------------------------------
(***************************************************************************)
(* What a client of the stager may rely on, without threads, locks, temp   *)
(* files or byte counts.  Paths are requested, at most once each; while a  *)
(* request is open its whole mirror may appear, once; a request is settled *)
(* whatever happened to it.  Mirrors vanish only from a single-tier hot    *)
(* root, and only on behalf of an open request.  When the process is       *)
(* started again the requests are forgotten and the mirrors stay.          *)
(***************************************************************************)
EXTENDS FiniteSets

CONSTANTS Path, Managed, Canon, HasOverflow

Root == {"hot_root", "overflow_root"}

VARIABLES
    requested,  \* paths ever accepted for staging
    settled,    \* requests whose attempt is over
    published,  \* requests whose attempt put a mirror in place
    mirror      \* mirror[r]: canonical paths that are whole under root r

vars == <<requested, settled, published, mirror>>
Open == requested \ settled

Init ==
    /\ requested = {}
    /\ settled = {}
    /\ published = {}
    /\ mirror \in [Root -> SUBSET Path]

Request(p) ==
    /\ p \in Managed \ requested
    /\ requested' = requested \cup {p}
    /\ UNCHANGED <<settled, published, mirror>>

Publish(p, r) ==
    /\ p \in Open \ published
    /\ HasOverflow \/ r = "hot_root"
    /\ mirror' = [mirror EXCEPT ![r] = @ \cup {Canon[p]}]
    /\ published' = published \cup {p}
    /\ UNCHANGED <<requested, settled>>

Settle(p) ==
    /\ p \in Open
    /\ settled' = settled \cup {p}
    /\ UNCHANGED <<requested, published, mirror>>

\* A mirror is dropped to make room for a request that has not yet got one.
Drop(p) ==
    /\ ~HasOverflow
    /\ Open \ published # {}
    /\ p \in mirror["hot_root"]
    /\ mirror' = [mirror EXCEPT !["hot_root"] = @ \ {p}]
    /\ UNCHANGED <<requested, settled, published>>

Restart ==
    /\ requested' = {}
    /\ settled' = {}
    /\ published' = {}
    /\ UNCHANGED mirror

Next ==
    \/ Restart
    \/ \E p \in Path :
        \/ Request(p)
        \/ \E r \in Root : Publish(p, r)
        \/ Settle(p)
        \/ Drop(p)

Safety == Init /\ [][Next]_vars

\* A request that stays open is eventually settled.
Spec == Safety /\ \A p \in Path : WF_vars(Settle(p))
=============================================================================
