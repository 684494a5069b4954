----------------------------- MODULE MCTracker -----------------------------
(***************************************************************************)
(* A game in play: its roster, what changes hands at it, and the log of a  *)
(* character.  The three share no variable, so a step of one changes       *)
(* nothing another reads: each is explored with the others as they begin.  *)
(***************************************************************************)
EXTENDS Tracker, HandOver, CharacterLog, TLC
CONSTANTS c1, c2, p1, n1, n2, d1, w1, short, long, q1, q2,
          r1, r2, b2, k1, race, atFirst, levelled, deeper, spell, loose,
          s1, s2, s3, branch, cantrip, hex

OwnersOf == [p \in Players |-> w1]

\* Two races, one with a subrace, and a class; the class asks for a
\* proficiency at once, for a spell, and at its second level for a branch
\* that asks what to double.
Kinds == r1 :> "race" @@ r2 :> "race" @@ b2 :> "subrace" @@ k1 :> "class"
Unders == r1 :> r1 @@ r2 :> r2 @@ b2 :> r2 @@ k1 :> k1
Granted == r1 :> {s1} @@ r2 :> {s2} @@ b2 :> {} @@ k1 :> {}
Askers == race :> r1 @@ atFirst :> k1 @@ levelled :> k1 @@ deeper :> branch
          @@ spell :> k1 @@ loose :> k1
Levels == race :> 0 @@ atFirst :> 0 @@ levelled :> 2 @@ deeper :> 2
          @@ spell :> 1 @@ loose :> 1
Options == race :> {s2, s3} @@ atFirst :> {s1, s2} @@ levelled :> {branch}
           @@ deeper :> {s1, s2} @@ spell :> {cantrip, hex} @@ loose :> {s3}
Needs == cantrip :> 1 @@ hex :> 2

\* The tab is slow to take its class.
ClassTaken == {Select(k1)}

Init == TrackerInit /\ HandInit /\ LogInit

Next ==
    \/ HandInit /\ LogInit /\ TrackerNext /\ UNCHANGED <<handVars, logVars>>
    \/ TrackerInit /\ LogInit /\ HandNext /\ UNCHANGED <<trackerVars, logVars>>
    \/ TrackerInit /\ HandInit /\ LogNext /\ UNCHANGED <<trackerVars, handVars>>

Spec == Init /\ [][Next]_<<trackerVars, handVars, logVars>>

\* The roster and the counts stay what their columns and checks allow, and
\* however many masters seat the same character at once, it has one entry.
RosterSound == HandTypeOK /\ TrackerTypeOK /\ SeatedOnce

Symmetry == Permutations({q1, q2}) \cup Permutations({c1, c2})
            \cup Permutations({n1, n2})
=============================================================================
