----------------------------- MODULE MCMediaPath -----------------------------
(***************************************************************************)
(* Values for checking MediaPath: a media clock of 32 units whose          *)
(* re-anchor threshold is a few frames, run long enough to wrap and to     *)
(* re-anchor, and a sender of each sort.                                   *)
(***************************************************************************)
EXTENDS MediaPath, TLC

\* Sessions start close to the wrap, a few units past it (a restart between the two
\* does not re-anchor) and far from both.
ThreeBases == {1, 13, 28}

Whole(k, v) == [kind |-> k, version |-> v, length |-> "whole"]
Short == [kind |-> "slice", version |-> 0, length |-> "short"]
Cut == [kind |-> "sps", version |-> 9, length |-> "bad"]
Single(k, v) == [form |-> "single", units |-> <<Whole(k, v)>>]
Aggregate(units) == [form |-> "aggregate", units |-> units]
Fragment(k, v) == [form |-> "fragment", units |-> <<Whole(k, v)>>]

\* Sets one by one and a slice; sets aggregated, twice or cut short; sets that change,
\* once in a fragment.
Senders ==
    1 :> << Single("vps", 1), Single("sps", 1), Single("pps", 1), Single("slice", 0) >>
    @@ 13 :> << Aggregate(<<Whole("vps", 1), Short, Whole("sps", 1), Whole("sps", 2),
                            Whole("pps", 1)>>),
                Aggregate(<<Whole("vps", 2), Cut, Whole("pps", 2)>>),
                Single("slice", 0) >>
    @@ 28 :> << Fragment("sps", 1), Single("vps", 1), Single("sps", 2), Single("slice", 0),
                Single("pps", 1), Single("sps", 3), Fragment("pps", 2) >>
=============================================================================
