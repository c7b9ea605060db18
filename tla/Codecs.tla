------------------------------- MODULE Codecs -------------------------------
(***************************************************************************)
(* stager/codecs.py: how one target path is found on the cold tier, how    *)
(* large its mirror is expected to be, and how its bytes are written.      *)
(* Each system call is a step, between which other processes may add and   *)
(* remove files of the cold tier.                                          *)
(*                                                                         *)
(* Simplifications: a file on the cold tier is what can be told of it: the *)
(* sizes its whole members expand to, whether a broken member follows, and *)
(* its own size.  What a broken member is does not matter, only that the   *)
(* codec notices.                                                          *)
(***************************************************************************)
EXTENDS Integers, Sequences, SequencesExt

CONSTANTS
    NoFile,
    Archive,    \* the archives of the target that the cold tier may hold
    Size,       \* the sizes of the target itself
    Word,       \* ISIZE is a size modulo Word (2^32)
    MaxChanges  \* bound: changes of the cold tier by others

CODECS == <<"gz", "zst", "bz2", "xz">>
FALLBACK_RATIO == 4
Name == {"plain"} \cup ToSet(CODECS)

Total(a) == FoldLeft(LAMBDA sum, m : sum + m, 0, a.members)
Whole(n) == [members |-> <<n>>, broken |-> FALSE, stored |-> n]
File == [n \in Name |-> IF n = "plain" THEN {Whole(size) : size \in Size} ELSE Archive]

ASSUME CodecsAssumption ==
    /\ Size \subseteq Nat
    /\ \A a \in Archive : /\ a.members \in Seq(Nat) /\ a.broken \in BOOLEAN
                          /\ a.stored \in Nat
                          /\ a.stored = 0 <=> a.members = <<>> /\ ~a.broken
    /\ Word \in Nat \ {0}
    /\ MaxChanges \in Nat

VARIABLES
    cold,       \* what the cold tier holds under each name
    zstandard,  \* the optional library is installed
    pc,
    probe,      \* the codec that is probed
    plan,       \* the StagePlan: its source and size
    dest,       \* the bytes written to the temp file
    steady,     \* history: the names whose file has not changed
    failed,     \* history: the names whose stat or open failed
    read,       \* history: the file that was read
    changes

vars == <<cold, zstandard, pc, probe, plan, dest, steady, failed, read, changes>>
coldVars == <<cold, zstandard, steady, changes>>

NoPlan == [source |-> "plain", size |-> 0]
Present(n) == cold[n] # NoFile
Codec == CODECS[probe]
Available(n) == n = "zst" => zstandard

Init ==
    /\ \E n1, n2 \in Name : \E f1 \in File[n1], f2 \in File[n2] :
         cold = [n \in Name |-> IF n = n1 THEN f1 ELSE IF n = n2 THEN f2 ELSE NoFile]
    /\ zstandard \in BOOLEAN
    /\ pc = "target"
    /\ probe = 1
    /\ plan = NoPlan
    /\ dest = 0
    /\ steady = {n \in Name : Present(n)}
    /\ failed = {}
    /\ read = NoFile
    /\ changes = 0

Fails(n) == failed' = failed \cup {n}

-----------------------------------------------------------------------------
(***************************************************************************)
(* resolve().                                                              *)
(***************************************************************************)
\* A plausible bug: an error of the first stat is taken for an absent target.
ProbeTargetOnError ==
    /\ pc = "target"
    /\ \/ /\ pc' = IF Present("plain") THEN "stat" ELSE "probe"
          /\ UNCHANGED failed
       \/ pc' = "probe" /\ Fails("plain")
    /\ UNCHANGED <<coldVars, probe, plan, dest, read>>

\* target.is_file(); an error ends the search.
ProbeTarget ==
    /\ pc = "target"
    /\ \/ /\ pc' = IF Present("plain") THEN "stat" ELSE "probe"
          /\ UNCHANGED failed
       \/ pc' = "miss" /\ Fails("plain")
    /\ UNCHANGED <<coldVars, probe, plan, dest, read>>

\* target.stat().
StatTarget ==
    /\ pc = "stat"
    /\ \/ /\ Present("plain")
          /\ plan' = [source |-> "plain", size |-> cold["plain"].stored]
          /\ pc' = "planned"
          /\ UNCHANGED failed
       \/ pc' = "miss" /\ Fails("plain") /\ UNCHANGED plan
    /\ UNCHANGED <<coldVars, probe, dest, read>>

\* A plausible bug: the last codec is not the end.
NextCodecPastLast ==
    IF probe > Len(CODECS) THEN pc' = "miss" /\ UNCHANGED probe
    ELSE probe' = probe + 1 /\ UNCHANGED pc

NextCodec ==
    IF probe = Len(CODECS) THEN pc' = "miss" /\ UNCHANGED probe
    ELSE probe' = probe + 1 /\ UNCHANGED pc

\* A plausible bug: a codec without its library ends the search.
SkipCodecForGood ==
    /\ pc = "probe"
    /\ \/ ~Present(Codec) /\ UNCHANGED failed /\ NextCodec
       \/ Present(Codec) /\ ~Available(Codec) /\ pc' = "miss" /\ UNCHANGED <<failed, probe>>
       \/ Fails(Codec) /\ NextCodec
    /\ UNCHANGED <<coldVars, plan, dest, read>>

\* No such archive, no library for it, or an error: the next one.
SkipCodec ==
    /\ pc = "probe"
    /\ \/ ~(Present(Codec) /\ Available(Codec)) /\ UNCHANGED failed
       \/ Fails(Codec)
    /\ NextCodec
    /\ UNCHANGED <<coldVars, plan, dest, read>>

FindArchive ==
    /\ pc = "probe"
    /\ Present(Codec) /\ Available(Codec)
    /\ pc' = "estimate"
    /\ UNCHANGED <<coldVars, probe, plan, dest, failed, read>>

\* A plausible bug: a trailer that has wrapped is believed.
GzipSizeUnchecked(a, isize) == isize

\* A plausible bug: an ISIZE no larger than the archive is taken to have wrapped.
GzipSizeUnwrapped(a, isize) == IF isize <= a.stored THEN isize + Word ELSE isize

\* An ISIZE no larger than the archive is not believed.
GzipSize(a, isize) == IF isize <= a.stored THEN a.stored * FALLBACK_RATIO ELSE isize

\* What the last bytes of a gzip archive may say.
Trailer(a) ==
    IF a.broken THEN 0..(Word - 1) ELSE {Last(a.members) % Word}

\* codec.expanded_size(); a file without a trailer cannot be read from its end.
ExpandedSizes(n, a) ==
    IF n # "gz" THEN {a.stored * FALLBACK_RATIO}
    ELSE IF a.stored = 0 THEN {0}
    ELSE {GzipSize(a, isize) : isize \in Trailer(a)}

Estimate ==
    /\ pc = "estimate"
    /\ \/ /\ Present(Codec)
          /\ \E size \in ExpandedSizes(Codec, cold[Codec]) :
               plan' = [source |-> Codec, size |-> size]
          /\ UNCHANGED failed
       \/ plan' = [source |-> Codec, size |-> 0] /\ Fails(Codec)
    /\ pc' = "planned"
    /\ UNCHANGED <<coldVars, probe, dest, read>>

-----------------------------------------------------------------------------
(***************************************************************************)
(* materialise(), and the worker's rename or clean-up after it.            *)
(***************************************************************************)
\* The codecs read members until the file ends.  A broken one raises; so does
\* an empty file, except to gzip.
Raises(n, a) == n # "plain" /\ (a.broken \/ (n # "gz" /\ a.members = <<>>))

Materialise ==
    /\ pc = "planned"
    /\ Present(plan.source)
    /\ read' = cold[plan.source]
    /\ IF Raises(plan.source, read')
       THEN pc' = "error" /\ dest' = 0
       ELSE pc' = "placed" /\ dest' = Total(read')
    /\ UNCHANGED <<coldVars, probe, plan, failed>>

\* The source cannot be opened any more.
OpenFails ==
    /\ pc = "planned"
    /\ Fails(plan.source)
    /\ pc' = "error"
    /\ UNCHANGED <<coldVars, probe, plan, dest, read>>

-----------------------------------------------------------------------------
\* Another process writes, replaces or removes a file of the cold tier.
Change ==
    /\ changes < MaxChanges
    /\ changes' = changes + 1
    /\ \E n \in Name : \E f \in File[n] \cup {NoFile} :
         /\ f # cold[n]
         /\ cold' = [cold EXCEPT ![n] = f]
         /\ steady' = steady \ {n}
    /\ UNCHANGED <<zstandard, pc, probe, plan, dest, failed, read>>

Next ==
    \/ ProbeTarget \/ StatTarget \/ SkipCodec \/ FindArchive \/ Estimate
    \/ Materialise \/ OpenFails
    \/ Change

Spec == Init /\ [][Next]_vars

-----------------------------------------------------------------------------
(***************************************************************************)
(* Properties.                                                             *)
(***************************************************************************)
TypeOK ==
    /\ \A n \in Name : cold[n] \in File[n] \cup {NoFile}
    /\ pc \in {"target", "stat", "probe", "estimate", "planned", "placed", "error", "miss"}
    /\ probe \in 1..Len(CODECS)
    /\ plan.source \in Name /\ plan.size \in Nat
    /\ dest \in Nat /\ steady \subseteq Name /\ failed \subseteq Name
    /\ changes \in 0..MaxChanges

\* resolve() misses no file that is there all the time, can be expanded and
\* raises no error, whatever happens to the others; an error of the target's
\* own stat ends the search.
PresentIsFound ==
    pc = "miss" /\ "plain" \notin failed =>
        \A n \in steady : n \in failed \/ ~Available(n)

\* A target that is there all the time is copied as it is, never expanded from
\* an archive beside it, even when the tier's metadata fails now and then.
PlainIsPreferred == plan # NoPlan /\ "plain" \in steady => plan.source = "plain"

\* If the target is at most FALLBACK_RATIO times its archive, an unchanged
\* archive is reserved too little for only when its ISIZE exceeds its size and
\* is that of its last member or has wrapped.
ShortOnlyIfBelieved ==
    LET a == read IN
    pc = "placed" /\ plan.source \in steady \ failed /\ plan.size < dest
        /\ dest <= a.stored * FALLBACK_RATIO
      => /\ plan.source = "gz"
         /\ Last(a.members) % Word > a.stored
         /\ Len(a.members) > 1 \/ dest >= Word

\* Too much, for which files would be evicted or the copy refused in vain, is
\* reserved for an unchanged archive only by the guess: a trailer that is
\* believed never says more than what is then written.
OverOnlyIfGuessed ==
    pc = "placed" /\ plan.source \in steady \ failed /\ plan.size > dest
        => plan.size = read.stored * FALLBACK_RATIO
=============================================================================
