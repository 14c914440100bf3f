----------------------------- MODULE BracketProofs -----------------------------
(***************************************************************************)
(* Bracket for every set of versions, every bracket whose links satisfy    *)
(* BracketAssumption and every number of teams: the types, what a close    *)
(* puts into the bracket, the life of a version and the finality of        *)
(* results.  FileEffect says pointwise what filing a report changes; every *)
(* invariant is proved from it.                                            *)
(*                                                                         *)
(* The second half is about a bracket that was drawn (DrawnAssumption),    *)
(* single or double, of any number of teams: what IsABracket says of its   *)
(* links and entrants, why it can always be played on (NeverWedged), and   *)
(* that it ends with one champion (ChampionInTheEnd).                      *)
(***************************************************************************)
EXTENDS MCBracket, FiniteSetTheorems, TLAPS

USE DEF Sides, Closed

\* A filed report, whatever branch of execute filed it.
Filing(v, m, w, final) ==
    /\ v \in Versions /\ m \in Matches /\ w \in TeamsOf(v, m) \cup {NoTeam} /\ final \in Closed
    /\ Operable(v, m)
    /\ File(v, m, w, final)

\* The steps of Next, the three ways to close brought together.
LEMMA StepCases ==
    ASSUME Next
    PROVE  \/ \E v \in Versions : Publish(v)
           \/ \E v \in Versions : Regenerate(v)
           \/ \E v, u \in Versions : Clone(v, u)
           \/ \E v \in Versions, m \in Matches : CreateSegment(v, m)
           \/ \E v \in Versions, m \in Matches :
                 \E w \in TeamsOf(v, m) \cup {NoTeam}, final \in Closed : Filing(v, m, w, final)
<1>1. ASSUME NEW v \in Versions, NEW m \in Matches, ClosePlayed(v, m)
      PROVE  \E w \in TeamsOf(v, m) \cup {NoTeam}, final \in Closed : Filing(v, m, w, final)
  BY <1>1 DEF ClosePlayed, Filing
<1>2. ASSUME NEW v \in Versions, NEW m \in Matches, CloseAdministrative(v, m)
      PROVE  \E w \in TeamsOf(v, m) \cup {NoTeam}, final \in Closed : Filing(v, m, w, final)
  BY <1>2 DEF CloseAdministrative, Filing
<1>3. ASSUME NEW v \in Versions, NEW m \in Matches, CloseWalkover(v, m)
      PROVE  \E w \in TeamsOf(v, m) \cup {NoTeam}, final \in Closed : Filing(v, m, w, final)
  BY <1>3 DEF CloseWalkover, Filing
<1> QED BY <1>1, <1>2, <1>3 DEF Next

-------------------------------------------------------------------------------
(* The effect of a report.                                                 *)

\* The destination of a link of the match gets the team that leaves through it;
\* any other slot stays, the closed matches' and the match's own included.
LEMMA AdvancedSlots ==
    ASSUME TypeOK, BracketAssumption,
           NEW v \in Versions, NEW m \in Matches, NEW w, CanAdvance(v, m, w)
    PROVE  /\ \A l \in FeedsFrom(m) : Advanced(v, m, w)[l.target][l.side] = Leaving(v, l, w)
           /\ \A t \in Matches, s \in Sides :
                 (\A l \in FeedsFrom(m) : ~(l.target = t /\ l.side = s))
                    => Advanced(v, m, w)[t][s] = slot[v][t][s]
           /\ \A t \in Matches : status[v][t] # "scheduled" \/ t = m \/ t = GF2
                    => Advanced(v, m, w)[t] = slot[v][t]
<1>1. ASSUME NEW l \in FeedsFrom(m)
      PROVE  Advanced(v, m, w)[l.target][l.side] = Leaving(v, l, w)
  <2>1. l \in Feeds /\ l.target \in Matches /\ l.side \in Sides
    BY DEF FeedsFrom, BracketAssumption
  <2>2. \A k \in FeedsFrom(m) : k.target = l.target /\ k.side = l.side => k = l
    BY <2>1 DEF FeedsFrom, BracketAssumption
  <2>3. (CHOOSE k \in FeedsFrom(m) : k.target = l.target /\ k.side = l.side) = l
    BY <2>2
  <2> QED BY <2>1, <2>3 DEF Advanced
<1>2. ASSUME NEW t \in Matches, NEW s \in Sides,
             \A l \in FeedsFrom(m) : ~(l.target = t /\ l.side = s)
      PROVE  Advanced(v, m, w)[t][s] = slot[v][t][s]
  BY <1>2 DEF Advanced
<1>3. ASSUME NEW t \in Matches, status[v][t] # "scheduled" \/ t = m \/ t = GF2
      PROVE  Advanced(v, m, w)[t] = slot[v][t]
  <2>1. \A l \in FeedsFrom(m) : l.target # t
    BY <1>3 DEF CanAdvance, FeedsFrom, BracketAssumption
  <2>2. Advanced(v, m, w)[t] = [s \in Sides |-> slot[v][t][s]]
    BY <2>1 DEF Advanced
  <2>3. slot[v][t] \in [Sides -> Teams \cup {NoTeam}]
    BY DEF TypeOK
  <2> QED BY <2>2, <2>3
<1> QED BY <1>1, <1>2, <1>3

LEMMA FileEffect ==
    ASSUME TypeOK, BracketAssumption,
           NEW v \in Versions, NEW m \in Matches, NEW w, NEW final, Filing(v, m, w, final)
    PROVE  /\ UNCHANGED <<version, operated>>
           /\ \A u \in Versions \ {v} :
                 status'[u] = status[u] /\ slot'[u] = slot[u] /\ winner'[u] = winner[u]
           /\ status[v][m] \notin Closed /\ version[v] = "published"
           /\ status'[v][m] = final /\ winner'[v][m] = w
           /\ \A t \in Matches \ {m} :
                 /\ winner'[v][t] = winner[v][t]
                 /\ \/ status'[v][t] = status[v][t]
                    \/ t = GF2 /\ status[v][t] = "cancelled" /\ status'[v][t] = "scheduled"
           /\ \A t \in Matches : status[v][t] \in Closed \/ t = m => slot'[v][t] = slot[v][t]
           /\ \A l \in FeedsFrom(m) : slot'[v][l.target][l.side] = Leaving(v, l, w)
           /\ \A t \in Matches, s \in Sides :
                 t # GF2 /\ (\A l \in FeedsFrom(m) : ~(l.target = t /\ l.side = s))
                    => slot'[v][t][s] = slot[v][t][s]
<1> USE DEF Filing
<1>1. /\ CanAdvance(v, m, w) /\ CanRepeat(v, m, w) /\ Operable(v, m)
      /\ UNCHANGED <<version, operated>>
      /\ final \in Closed
      /\ status' = [status EXCEPT ![v] =
                      [t \in Matches |-> IF t = m THEN final
                                         ELSE IF Repeats(v, m, w) /\ t = GF2 THEN "scheduled"
                                         ELSE @[t]]]
      /\ winner' = [winner EXCEPT ![v][m] = w]
      /\ slot' = [slot EXCEPT ![v] =
                      [t \in Matches |-> IF Repeats(v, m, w) /\ t = GF2 THEN slot[v][m]
                                         ELSE Advanced(v, m, w)[t]]]
  BY DEF File
<1>2. Repeats(v, m, w) => m # GF2 /\ GF2 \in Matches /\ status[v][GF2] = "cancelled"
  BY <1>1 DEF Repeats, CanRepeat, BracketAssumption
<1>3. \A t \in Matches :
         slot'[v][t] = IF Repeats(v, m, w) /\ t = GF2 THEN slot[v][m] ELSE Advanced(v, m, w)[t]
  BY <1>1 DEF TypeOK
<1>4. \A t \in Matches :
         status'[v][t] = IF t = m THEN final
                         ELSE IF Repeats(v, m, w) /\ t = GF2 THEN "scheduled" ELSE status[v][t]
  BY <1>1 DEF TypeOK
<1>5. status[v][m] \notin Closed /\ version[v] = "published"
  BY <1>1 DEF Operable
<1>6. \A t \in Matches : winner'[v][t] = IF t = m THEN w ELSE winner[v][t]
  BY <1>1 DEF TypeOK
<1>7. \A u \in Versions \ {v} :
         status'[u] = status[u] /\ slot'[u] = slot[u] /\ winner'[u] = winner[u]
  BY <1>1 DEF TypeOK
<1>8. ASSUME NEW t \in Matches, status[v][t] \in Closed \/ t = m
      PROVE  slot'[v][t] = slot[v][t]
  <2>1. ~(Repeats(v, m, w) /\ t = GF2)
    BY <1>2, <1>8
  <2>2. status[v][t] # "scheduled" \/ t = m
    BY <1>8
  <2>3. Advanced(v, m, w)[t] = slot[v][t]
    BY <2>2, <1>1, AdvancedSlots
  <2> QED BY <2>1, <2>3, <1>3
<1>9. ASSUME NEW l \in FeedsFrom(m)
      PROVE  slot'[v][l.target][l.side] = Leaving(v, l, w)
  <2>1. l.target \in Matches /\ l.target # GF2
    BY DEF FeedsFrom, BracketAssumption
  <2> QED BY <2>1, <1>1, <1>3, AdvancedSlots
<1>10. ASSUME NEW t \in Matches, NEW s \in Sides,
              t # GF2 /\ (\A l \in FeedsFrom(m) : ~(l.target = t /\ l.side = s))
       PROVE  slot'[v][t][s] = slot[v][t][s]
  BY <1>10, <1>1, <1>3, AdvancedSlots
<1> QED BY <1>1, <1>2, <1>4, <1>5, <1>6, <1>7, <1>8, <1>9, <1>10

LEMMA AdvancedType ==
    ASSUME TypeOK, BracketAssumption,
           NEW v \in Versions, NEW m \in Matches, NEW w \in Teams \cup {NoTeam}
    PROVE  Advanced(v, m, w) \in [Matches -> [Sides -> Teams \cup {NoTeam}]]
<1>1. \A t \in Matches, s \in Sides : slot[v][t][s] \in Teams \cup {NoTeam}
  BY DEF TypeOK
<1>2. \A l \in FeedsFrom(m) : l.source \in Matches
  BY DEF FeedsFrom, BracketAssumption
<1>3. \A l \in FeedsFrom(m) : Leaving(v, l, w) \in Teams \cup {NoTeam}
  BY <1>1, <1>2 DEF Leaving, LoserOf
<1>4. \A t \in Matches, s \in Sides :
         (\E l \in FeedsFrom(m) : l.target = t /\ l.side = s) =>
            Leaving(v, CHOOSE l \in FeedsFrom(m) : l.target = t /\ l.side = s, w)
               \in Teams \cup {NoTeam}
  BY <1>3
<1> QED BY <1>1, <1>4 DEF Advanced

-------------------------------------------------------------------------------
\* The versions, matches and slots keep their types, for any bracket.
THEOREM TypeCorrect == Spec => []TypeOK
<1>1. Init => TypeOK
  BY BracketAssumption DEF Init, TypeOK, VersionStatuses, MatchStatuses, DrawnStatus, Unplayed
<1>2. ASSUME TypeOK, [Next]_vars
      PROVE  TypeOK'
  <2> USE <1>2, BracketAssumption
  <2>1. ASSUME NEW v \in Versions, Publish(v)
        PROVE  TypeOK'
    BY <2>1 DEF TypeOK, Publish, VersionStatuses
  <2>2. ASSUME NEW v \in Versions, Regenerate(v)
        PROVE  TypeOK'
    <3>1. DrawnStatus \in [Matches -> MatchStatuses]
      BY DEF DrawnStatus, MatchStatuses
    <3> QED BY <2>2, <3>1 DEF TypeOK, Regenerate
  <2>3. ASSUME NEW v \in Versions, NEW u \in Versions, Clone(v, u)
        PROVE  TypeOK'
    <3>1. /\ Unplayed("scheduled") \in [Matches -> MatchStatuses]
          /\ Unplayed(NoTeam) \in [Matches -> Teams \cup {NoTeam}]
      BY DEF Unplayed, MatchStatuses
    <3> QED BY <2>3, <3>1 DEF TypeOK, Clone, VersionStatuses
  <2>4. ASSUME NEW v \in Versions, NEW m \in Matches, CreateSegment(v, m)
        PROVE  TypeOK'
    BY <2>4 DEF TypeOK, CreateSegment
  <2>5. ASSUME NEW v \in Versions, NEW m \in Matches, NEW w \in TeamsOf(v, m) \cup {NoTeam},
               NEW final \in Closed, Filing(v, m, w, final)
        PROVE  TypeOK'
    <3>1. w \in Teams \cup {NoTeam}
      BY DEF TypeOK, TeamsOf
    <3>2. UNCHANGED <<version, operated>>
      BY <2>5 DEF Filing, File
    <3>3. winner' \in [Versions -> [Matches -> Teams \cup {NoTeam}]]
      BY <2>5, <3>1 DEF Filing, File, TypeOK
    <3>4. status' \in [Versions -> [Matches -> MatchStatuses]]
      BY <2>5 DEF Filing, File, TypeOK, MatchStatuses
    <3>5. slot' \in [Versions -> [Matches -> [Sides -> Teams \cup {NoTeam}]]]
      <4>1. Advanced(v, m, w) \in [Matches -> [Sides -> Teams \cup {NoTeam}]]
        BY <3>1, AdvancedType
      <4> QED BY <2>5, <4>1 DEF Filing, File, TypeOK
    <3> QED BY <3>2, <3>3, <3>4, <3>5 DEF TypeOK
  <2>6. CASE UNCHANGED vars
    BY <2>6 DEF TypeOK, vars
  <2> QED BY <2>1, <2>2, <2>3, <2>4, <2>5, <2>6, StepCases
<1> QED BY <1>1, <1>2, PTL DEF Spec

-------------------------------------------------------------------------------
(* The life of a version.                                                  *)

\* At most one version is published at a time, and a match has a result only in a
\* version that has been published (publish_version, execute step 3).
THEOREM OneVersionPublished == Spec => []OnePublishedVersion
<1>1. Init => OnePublishedVersion
  BY DEF Init, OnePublishedVersion, IsClosed, DrawnStatus
<1>2. ASSUME TypeOK, OnePublishedVersion, [Next]_vars
      PROVE  OnePublishedVersion'
  <2> USE <1>2, BracketAssumption DEF OnePublishedVersion, IsClosed
  <2>1. ASSUME NEW v \in Versions, Publish(v)
        PROVE  OnePublishedVersion'
    BY <2>1 DEF TypeOK, Publish, VersionStatuses
  <2>2. ASSUME NEW v \in Versions, Regenerate(v)
        PROVE  OnePublishedVersion'
    <3>1. \A m \in Matches : DrawnStatus[m] \notin Closed
      BY DEF DrawnStatus
    <3> QED BY <2>2, <3>1 DEF TypeOK, Regenerate
  <2>3. ASSUME NEW v \in Versions, NEW u \in Versions, Clone(v, u)
        PROVE  OnePublishedVersion'
    BY <2>3 DEF TypeOK, Clone, Unplayed
  <2>4. ASSUME NEW v \in Versions, NEW m \in Matches, CreateSegment(v, m)
        PROVE  OnePublishedVersion'
    BY <2>4 DEF CreateSegment
  <2>5. ASSUME NEW v \in Versions, NEW m \in Matches, NEW w \in TeamsOf(v, m) \cup {NoTeam},
               NEW final \in Closed, Filing(v, m, w, final)
        PROVE  OnePublishedVersion'
    BY <2>5, FileEffect
  <2>6. CASE UNCHANGED vars
    BY <2>6 DEF vars
  <2> QED BY <2>1, <2>2, <2>3, <2>4, <2>5, <2>6, StepCases
<1> QED BY <1>1, <1>2, TypeCorrect, PTL DEF Spec

-------------------------------------------------------------------------------
(* Results.                                                                *)

\* A closed match keeps its status, its winner and its teams whatever happens next,
\* in its version or in another (advance_from_match, the reset, clone, regenerate).
THEOREM ResultsStay == Spec => ResultsAreFinal
<1> DEFINE Step == \A v \in Versions, m \in Matches :
                      IsClosed(v, m) => /\ status'[v][m] = status[v][m]
                                        /\ winner'[v][m] = winner[v][m]
                                        /\ slot'[v][m] = slot[v][m]
<1>1. ASSUME TypeOK, OnePublishedVersion, [Next]_vars
      PROVE  Step
  <2> USE <1>1, BracketAssumption DEF IsClosed
  <2>1. ASSUME NEW v \in Versions, Publish(v)
        PROVE  Step
    BY <2>1 DEF Publish
  <2>2. ASSUME NEW v \in Versions, Regenerate(v)
        PROVE  Step
    BY <2>2 DEF TypeOK, Regenerate
  <2>3. ASSUME NEW v \in Versions, NEW u \in Versions, Clone(v, u)
        PROVE  Step
    BY <2>3 DEF TypeOK, Clone, OnePublishedVersion
  <2>4. ASSUME NEW v \in Versions, NEW m \in Matches, CreateSegment(v, m)
        PROVE  Step
    BY <2>4 DEF CreateSegment
  <2>5. ASSUME NEW v \in Versions, NEW m \in Matches, NEW w \in TeamsOf(v, m) \cup {NoTeam},
               NEW final \in Closed, Filing(v, m, w, final)
        PROVE  Step
    BY <2>5, FileEffect
  <2>6. CASE UNCHANGED vars
    BY <2>6 DEF vars
  <2> QED BY <2>1, <2>2, <2>3, <2>4, <2>5, <2>6, StepCases
<1> QED BY <1>1, TypeCorrect, OneVersionPublished, PTL DEF Spec, ResultsAreFinal

\* Each slot fed by a closed match holds the team that match sent there: the
\* advancement of one report is never lost or overwritten by another.
THEOREM AdvancementHolds == Spec => []ClosedFeedsTarget
<1>1. Init => ClosedFeedsTarget
  BY BracketAssumption DEF Init, ClosedFeedsTarget, IsClosed, DrawnStatus
<1>2. ASSUME TypeOK, OnePublishedVersion, ClosedFeedsTarget, [Next]_vars
      PROVE  ClosedFeedsTarget'
  <2> USE <1>2, BracketAssumption
  <2>0. \A l \in Feeds : l.source \in Matches /\ l.target \in Matches /\ l.side \in Sides
    BY DEF BracketAssumption
  <2>1. ASSUME NEW v \in Versions, Publish(v)
        PROVE  ClosedFeedsTarget'
    BY <2>1 DEF Publish, ClosedFeedsTarget, IsClosed, Leaving, LoserOf
  <2>2. ASSUME NEW v \in Versions, Regenerate(v)
        PROVE  ClosedFeedsTarget'
    <3>1. \A m \in Matches : DrawnStatus[m] \notin Closed
      BY DEF DrawnStatus
    <3> QED BY <2>0, <2>2, <3>1 DEF TypeOK, Regenerate, ClosedFeedsTarget, IsClosed, Leaving, LoserOf
  <2>3. ASSUME NEW v \in Versions, NEW u \in Versions, Clone(v, u)
        PROVE  ClosedFeedsTarget'
    BY <2>0, <2>3 DEF TypeOK, Clone, Unplayed, ClosedFeedsTarget, IsClosed, Leaving, LoserOf
  <2>4. ASSUME NEW v \in Versions, NEW m \in Matches, CreateSegment(v, m)
        PROVE  ClosedFeedsTarget'
    BY <2>4 DEF CreateSegment, ClosedFeedsTarget, IsClosed, Leaving, LoserOf
  <2>5. ASSUME NEW v \in Versions, NEW m \in Matches, NEW w \in TeamsOf(v, m) \cup {NoTeam},
               NEW final \in Closed, Filing(v, m, w, final)
        PROVE  ClosedFeedsTarget'
    <3> SUFFICES ASSUME NEW u \in Versions, NEW l \in Feeds, status'[u][l.source] \in Closed
                 PROVE  slot'[u][l.target][l.side] = Leaving(u, l, winner[u][l.source])'
      BY DEF ClosedFeedsTarget, IsClosed
    <3>1. CASE u # v
      BY <2>0, <2>5, <3>1, FileEffect DEF ClosedFeedsTarget, IsClosed, Leaving, LoserOf
    <3>2. CASE u = v /\ l.source = m
      <4>1. l \in FeedsFrom(m)
        BY <3>2 DEF FeedsFrom
      <4>2. slot'[v][l.target][l.side] = Leaving(v, l, w) /\ winner'[v][m] = w
        BY <2>5, <4>1, FileEffect
      <4>3. slot'[v][m] = slot[v][m]
        BY <2>5, FileEffect
      <4> QED BY <3>2, <4>2, <4>3 DEF Leaving, LoserOf
    <3>3. CASE u = v /\ l.source # m
      <4>1. status[v][l.source] \in Closed /\ winner'[v][l.source] = winner[v][l.source]
        BY <2>0, <2>5, <3>3, FileEffect
      <4>2. slot'[v][l.source] = slot[v][l.source]
        BY <2>0, <2>5, <4>1, FileEffect
      <4>3. \A k \in FeedsFrom(m) : ~(k.target = l.target /\ k.side = l.side)
        BY <3>3 DEF FeedsFrom, BracketAssumption
      <4>4. slot'[v][l.target][l.side] = slot[v][l.target][l.side]
        BY <2>0, <2>5, <4>3, FileEffect DEF BracketAssumption
      <4> QED BY <3>3, <4>1, <4>2, <4>4 DEF ClosedFeedsTarget, IsClosed, Leaving, LoserOf
    <3> QED BY <3>1, <3>2, <3>3
  <2>6. CASE UNCHANGED vars
    BY <2>6 DEF vars, ClosedFeedsTarget, IsClosed, Leaving, LoserOf
  <2> QED BY <2>1, <2>2, <2>3, <2>4, <2>5, <2>6, StepCases
<1> QED BY <1>1, <1>2, TypeCorrect, OneVersionPublished, PTL DEF Spec

\* No handler changes the matches of an archived version, and none revives it.
THEOREM ArchiveStays == Spec => ArchivedIsFrozen
<1> DEFINE Step == \A v \in Versions : version[v] = "archived" =>
                      /\ version'[v] = "archived"
                      /\ status'[v] = status[v] /\ slot'[v] = slot[v] /\ winner'[v] = winner[v]
<1>1. ASSUME TypeOK, [Next]_vars
      PROVE  Step
  <2> USE <1>1, BracketAssumption
  <2>1. ASSUME NEW v \in Versions, Publish(v)
        PROVE  Step
    BY <2>1 DEF TypeOK, Publish
  <2>2. ASSUME NEW v \in Versions, Regenerate(v)
        PROVE  Step
    BY <2>2 DEF TypeOK, Regenerate
  <2>3. ASSUME NEW v \in Versions, NEW u \in Versions, Clone(v, u)
        PROVE  Step
    BY <2>3 DEF TypeOK, Clone
  <2>4. ASSUME NEW v \in Versions, NEW m \in Matches, CreateSegment(v, m)
        PROVE  Step
    BY <2>4 DEF CreateSegment
  <2>5. ASSUME NEW v \in Versions, NEW m \in Matches, NEW w \in TeamsOf(v, m) \cup {NoTeam},
               NEW final \in Closed, Filing(v, m, w, final)
        PROVE  Step
    BY <2>5, FileEffect
  <2>6. CASE UNCHANGED vars
    BY <2>6 DEF vars
  <2> QED BY <2>1, <2>2, <2>3, <2>4, <2>5, <2>6, StepCases
<1> QED BY <1>1, TypeCorrect, PTL DEF Spec, ArchivedIsFrozen

-------------------------------------------------------------------------------
(* The version that was drawn: no clone is ever written over it.           *)

\* When a filed report opens GF2, and that nothing else does.
LEMMA ResetEffect ==
    ASSUME TypeOK, BracketAssumption,
           NEW v \in Versions, NEW m \in Matches, NEW w, NEW final, Filing(v, m, w, final)
    PROVE  /\ Repeats(v, m, w) => status'[v][GF2] = "scheduled"
           /\ ~Repeats(v, m, w) => \A t \in Matches \ {m} : status'[v][t] = status[v][t]
<1> USE DEF Filing
<1>1. status' = [status EXCEPT ![v] =
                   [t \in Matches |-> IF t = m THEN final
                                      ELSE IF Repeats(v, m, w) /\ t = GF2 THEN "scheduled"
                                      ELSE @[t]]]
  BY DEF File
<1>2. Repeats(v, m, w) => GF2 \in Matches /\ GF2 # m
  BY DEF Repeats, BracketAssumption
<1> QED BY <1>1, <1>2 DEF TypeOK

\* The version that was drawn is never the target of a clone.
DrawnIsKept == version[FirstVersion] # "none"

LEMMA DrawnIsKeptStep ==
    ASSUME TypeOK, DrawnIsKept, [Next]_vars
    PROVE  /\ DrawnIsKept'
           /\ \A v \in Versions : ~Clone(v, FirstVersion)
<1> USE BracketAssumption DEF BracketAssumption, DrawnIsKept
<1>1. \A v \in Versions : ~Clone(v, FirstVersion)
  BY DEF Clone
<1>2. ASSUME NEW v \in Versions, Publish(v)
      PROVE  DrawnIsKept'
  BY <1>2 DEF Publish
<1>3. ASSUME NEW v \in Versions, NEW u \in Versions, Clone(v, u)
      PROVE  DrawnIsKept'
  BY <1>1, <1>3 DEF Clone, TypeOK
<1>4. ASSUME version' = version
      PROVE  DrawnIsKept'
  BY <1>4
<1>5. ASSUME NEW v \in Versions, NEW m \in Matches, NEW w \in TeamsOf(v, m) \cup {NoTeam},
             NEW final \in Closed, Filing(v, m, w, final)
      PROVE  version' = version
  BY <1>5 DEF Filing, File
<1> QED BY <1>1, <1>2, <1>3, <1>4, <1>5, StepCases DEF Regenerate, CreateSegment, vars

\* In the version that was drawn no team is in a match before having earned it, in
\* whatever order the reports arrive and whatever happens to clones of it.
THEOREM NobodyEarly == Spec => []NobodyArrivesEarly
<1> DEFINE F == FirstVersion
<1>0. F \in Versions
  BY BracketAssumption DEF BracketAssumption
<1>1. Init => DrawnIsKept /\ NobodyArrivesEarly
  BY <1>0, BracketAssumption DEF Init, DrawnIsKept, NobodyArrivesEarly, BracketAssumption
<1>2. ASSUME TypeOK, DrawnIsKept, NobodyArrivesEarly, [Next]_vars
      PROVE  NobodyArrivesEarly'
  <2> USE <1>2, <1>0, BracketAssumption
  <2>0. \A l \in Feeds : /\ l.source \in Matches /\ l.target \in Matches /\ l.side \in Sides
                         /\ l.target # GF2 /\ Direct[l.target][l.side] = NoTeam
    BY DEF BracketAssumption
  <2>1. CASE status'[F] = status[F] /\ slot'[F] = slot[F]
    BY <2>1 DEF NobodyArrivesEarly, IsClosed
  <2>2. ASSUME NEW v \in Versions, Regenerate(v), v = F
        PROVE  NobodyArrivesEarly'
    <3>1. slot'[F] = Direct
      BY <2>2 DEF Regenerate, TypeOK
    <3> QED BY <2>0, <3>1 DEF NobodyArrivesEarly
  <2>3. ASSUME NEW v \in Versions, Regenerate(v), v # F
        PROVE  status'[F] = status[F] /\ slot'[F] = slot[F]
    BY <2>3 DEF Regenerate, TypeOK
  <2>4. ASSUME NEW v \in Versions, NEW u \in Versions, Clone(v, u)
        PROVE  status'[F] = status[F] /\ slot'[F] = slot[F]
    <3>1. u # F
      BY <2>4, DrawnIsKeptStep
    <3> QED BY <2>4, <3>1 DEF Clone, TypeOK
  <2>5. ASSUME NEW v \in Versions, NEW m \in Matches, NEW w \in TeamsOf(v, m) \cup {NoTeam},
               NEW final \in Closed, Filing(v, m, w, final), v # F
        PROVE  status'[F] = status[F] /\ slot'[F] = slot[F]
    BY <2>5, FileEffect
  <2>6. ASSUME NEW m \in Matches, NEW w \in TeamsOf(F, m) \cup {NoTeam},
               NEW final \in Closed, Filing(F, m, w, final)
        PROVE  NobodyArrivesEarly'
    <3> SUFFICES ASSUME NEW l \in Feeds, status'[F][l.source] \notin Closed
                 PROVE  slot'[F][l.target][l.side] = NoTeam
      BY DEF NobodyArrivesEarly, IsClosed
    <3>1. l.source # m
      BY <2>6, FileEffect
    <3>2. status[F][l.source] \notin Closed
      <4>1. \/ status'[F][l.source] = status[F][l.source]
            \/ status[F][l.source] = "cancelled"
        BY <2>0, <2>6, <3>1, FileEffect
      <4> QED BY <4>1
    <3>3. \A k \in FeedsFrom(m) : ~(k.target = l.target /\ k.side = l.side)
      BY <3>1 DEF FeedsFrom, BracketAssumption
    <3>4. slot'[F][l.target][l.side] = slot[F][l.target][l.side]
      BY <2>0, <2>6, <3>3, FileEffect
    <3> QED BY <3>2, <3>4 DEF NobodyArrivesEarly, IsClosed
  <2>7. ASSUME NEW v \in Versions, NEW m \in Matches, CreateSegment(v, m)
        PROVE  status'[F] = status[F] /\ slot'[F] = slot[F]
    BY <2>7 DEF CreateSegment
  <2>8. ASSUME NEW v \in Versions, Publish(v)
        PROVE  status'[F] = status[F] /\ slot'[F] = slot[F]
    BY <2>8 DEF Publish
  <2>9. CASE UNCHANGED vars
    BY <2>1, <2>9 DEF vars
  <2> QED BY <2>1, <2>2, <2>3, <2>4, <2>5, <2>6, <2>7, <2>8, <2>9, StepCases
<1>3. TypeOK /\ DrawnIsKept /\ [Next]_vars => DrawnIsKept'
  BY DrawnIsKeptStep
<1> QED BY <1>1, <1>2, <1>3, TypeCorrect, PTL DEF Spec

\* The repetition of the grand final of a version is open or played exactly when the
\* visitor has won its grand final.
ResetIffLost(v) ==
    GF1 # NoMatch => (status[v][GF2] # "cancelled"
                        <=> IsClosed(v, GF1) /\ winner[v][GF1] = slot[v][GF1]["away"])

\* It is so in the version that was drawn, whatever is cloned from it.
THEOREM ResetOfTheDrawn == Spec => []ResetIffLost(FirstVersion)
<1> DEFINE F == FirstVersion
<1>0. F \in Versions
  BY BracketAssumption DEF BracketAssumption
<1>1. Init => DrawnIsKept /\ ResetIffLost(F)
  BY <1>0, BracketAssumption
     DEF Init, DrawnIsKept, ResetIffLost, BracketAssumption, DrawnStatus, IsClosed
<1>2. ASSUME TypeOK, DrawnIsKept, ResetIffLost(F), [Next]_vars
      PROVE  ResetIffLost(F)'
  <2> USE <1>2, <1>0, BracketAssumption
  <2> SUFFICES ASSUME GF1 # NoMatch
               PROVE  status'[F][GF2] # "cancelled" <=>
                        /\ status'[F][GF1] \in Closed
                        /\ winner'[F][GF1] = slot'[F][GF1]["away"]
    BY DEF ResetIffLost, IsClosed
  <2>0. GF1 \in Matches /\ GF2 \in Matches /\ GF1 # GF2
    BY DEF BracketAssumption
  <2>1. CASE status'[F] = status[F] /\ slot'[F] = slot[F] /\ winner'[F] = winner[F]
    BY <2>1 DEF ResetIffLost, IsClosed
  <2>2. ASSUME NEW v \in Versions, Regenerate(v), v = F
        PROVE  status'[F][GF2] = "cancelled" /\ status'[F][GF1] = "scheduled"
    BY <2>0, <2>2 DEF Regenerate, TypeOK, DrawnStatus
  <2>3. ASSUME NEW v \in Versions, Regenerate(v), v # F
        PROVE  status'[F] = status[F] /\ slot'[F] = slot[F] /\ winner'[F] = winner[F]
    BY <2>3 DEF Regenerate, TypeOK
  <2>4. ASSUME NEW v \in Versions, NEW u \in Versions, Clone(v, u)
        PROVE  status'[F] = status[F] /\ slot'[F] = slot[F] /\ winner'[F] = winner[F]
    <3>1. u # F
      BY <2>4, DrawnIsKeptStep
    <3> QED BY <2>4, <3>1 DEF Clone, TypeOK
  <2>5. ASSUME NEW v \in Versions, NEW m \in Matches, NEW w \in TeamsOf(v, m) \cup {NoTeam},
               NEW final \in Closed, Filing(v, m, w, final), v # F
        PROVE  status'[F] = status[F] /\ slot'[F] = slot[F] /\ winner'[F] = winner[F]
    BY <2>5, FileEffect
  <2>6. ASSUME NEW m \in Matches, NEW w \in TeamsOf(F, m) \cup {NoTeam},
               NEW final \in Closed, Filing(F, m, w, final)
        PROVE  status'[F][GF2] # "cancelled" <=>
                        /\ status'[F][GF1] \in Closed
                        /\ winner'[F][GF1] = slot'[F][GF1]["away"]
    <3>1. CASE m = GF1
      <4>1. /\ status[F][GF1] \notin Closed /\ status'[F][GF1] \in Closed
            /\ winner'[F][GF1] = w /\ slot'[F][GF1] = slot[F][GF1]
        BY <2>0, <2>6, <3>1, FileEffect
      <4>2. status[F][GF2] = "cancelled"
        BY <4>1 DEF ResetIffLost, IsClosed
      <4>3. Repeats(F, m, w) <=> w = slot[F][GF1]["away"]
        BY <3>1 DEF Repeats
      <4>4. status'[F][GF2] # "cancelled" <=> Repeats(F, m, w)
        BY <2>0, <2>6, <3>1, <4>2, ResetEffect
      <4> QED BY <4>1, <4>3, <4>4
    <3>2. CASE m # GF1
      <4>1. status'[F][GF1] = status[F][GF1] /\ winner'[F][GF1] = winner[F][GF1]
        <5>1. ~Repeats(F, m, w)
          BY <3>2 DEF Repeats
        <5> QED BY <2>0, <2>6, <3>2, <5>1, FileEffect, ResetEffect
      <4>2. status'[F][GF2] # "cancelled" <=> status[F][GF2] # "cancelled"
        <5>1. ~Repeats(F, m, w)
          BY <3>2 DEF Repeats
        <5>2. CASE m = GF2
          <6>1. status'[F][GF2] \in Closed /\ status[F][GF2] # "cancelled"
            BY <2>6, <5>2, FileEffect DEF Filing, Operable
          <6> QED BY <6>1
        <5>3. CASE m # GF2
          BY <2>0, <2>6, <5>1, <5>3, ResetEffect
        <5> QED BY <5>2, <5>3
      <4>3. status[F][GF1] \in Closed => slot'[F][GF1] = slot[F][GF1]
        BY <2>0, <2>6, FileEffect
      <4> QED BY <4>1, <4>2, <4>3 DEF ResetIffLost, IsClosed
    <3> QED BY <3>1, <3>2
  <2>7. ASSUME NEW v \in Versions, NEW m \in Matches, CreateSegment(v, m)
        PROVE  status'[F] = status[F] /\ slot'[F] = slot[F] /\ winner'[F] = winner[F]
    BY <2>7 DEF CreateSegment
  <2>8. ASSUME NEW v \in Versions, Publish(v)
        PROVE  status'[F] = status[F] /\ slot'[F] = slot[F] /\ winner'[F] = winner[F]
    BY <2>8 DEF Publish
  <2>9. CASE UNCHANGED vars
    BY <2>1, <2>9 DEF vars
  <2> QED BY <2>1, <2>2, <2>3, <2>4, <2>5, <2>6, <2>7, <2>8, <2>9, StepCases
<1>3. TypeOK /\ DrawnIsKept /\ [Next]_vars => DrawnIsKept'
  BY DrawnIsKeptStep
<1> QED BY <1>1, <1>2, <1>3, TypeCorrect, PTL DEF Spec

\* A tournament that is never cloned keeps the rule of docs/contrato-reglas.md; in a
\* clone GF2 is scheduled from the start (the run bracket_clone_reset).
THEOREM ResetWithoutClones ==
    ASSUME Versions = {FirstVersion}
    PROVE  Spec => []ResetOnlyIfNeeded
<1>1. ResetIffLost(FirstVersion) => ResetOnlyIfNeeded
  BY DEF ResetIffLost, ResetOnlyIfNeeded
<1> QED BY <1>1, ResetOfTheDrawn, PTL
-------------------------------------------------------------------------------
(* BracketDrawProofs is about an instance of BracketDraw of its own, and   *)
(* every definition is the same in both.                                   *)

Proved == INSTANCE BracketDrawProofs

\* What is drawn is the same.
LEMMA SameDraw ==
    \A format, n : Proved!Drawn(format, n) = Draw!Drawn(format, n)
<1>1. \A n : Proved!SingleElimination(n) = Draw!SingleElimination(n)
  BY Zenon DEF Proved!SingleElimination, Proved!RoundMatches, Proved!NextEntries,
     Proved!FirstEntries, Proved!Power, Proved!RoundsFor, Proved!Cardinality,
     Proved!Main, Proved!Match, Proved!Bye, Proved!From, Proved!Entry, Proved!Through,
     Proved!IsPlayed, Proved!NumberOf, Draw!SingleElimination, Draw!RoundMatches,
     Draw!NextEntries, Draw!FirstEntries, Draw!Power, Draw!RoundsFor, Draw!Cardinality,
     Draw!Main, Draw!Match, Draw!Bye, Draw!From, Draw!Entry, Draw!Through,
     Draw!IsPlayed, Draw!NumberOf
<1>2. \A n : Proved!DoubleElimination(n) = Draw!DoubleElimination(n)
  BY Zenon DEF Proved!Power, Proved!RoundsFor, Proved!Match, Proved!From,
     Proved!Entry, Proved!Upper, Proved!Lower, Proved!GrandFinal, Proved!MinorRound,
     Proved!MajorRound, Proved!UpperPlaces, Proved!LowerPlaces, Proved!UpperMatch,
     Proved!MinorMatch, Proved!MajorMatch, Proved!GrandFinalMatch,
     Proved!DoubleElimination, Draw!Power, Draw!RoundsFor, Draw!Match, Draw!From,
     Draw!Entry, Draw!Upper, Draw!Lower, Draw!GrandFinal, Draw!MinorRound,
     Draw!MajorRound, Draw!UpperPlaces, Draw!LowerPlaces, Draw!UpperMatch,
     Draw!MinorMatch, Draw!MajorMatch, Draw!GrandFinalMatch, Draw!DoubleElimination
<1> QED BY <1>1, <1>2 DEF Proved!Drawn, Draw!Drawn

\* What makes it a bracket is the same.
LEMMA SameBracket ==
    \A format, n, bracket :
        Proved!IsABracket(format, n, bracket) <=> Draw!IsABracket(format, n, bracket)
<1>1. \A n, bracket : Proved!EveryTeamEntersOnce(n, bracket) <=> Draw!EveryTeamEntersOnce(n, bracket)
  BY Zenon DEF Proved!EveryTeamEntersOnce, Proved!Sides, Proved!MatchIds,
     Proved!Entry, Proved!From, Draw!EveryTeamEntersOnce, Draw!Sides, Draw!MatchIds,
     Draw!Entry, Draw!From
<1>2. \A format, n, bracket :
        Proved!EveryoneGoesOnOnce(format, n, bracket) <=> Draw!EveryoneGoesOnOnce(format, n, bracket)
  BY Zenon DEF Proved!EveryoneGoesOnOnce, Proved!LastMatch, Proved!Main,
     Proved!GrandFinal, Proved!Power, Proved!RoundsFor, Proved!Links, Proved!Sides,
     Proved!MatchIds, Draw!EveryoneGoesOnOnce, Draw!LastMatch, Draw!Main,
     Draw!GrandFinal, Draw!Power, Draw!RoundsFor, Draw!Links, Draw!Sides, Draw!MatchIds
<1>3. \A format, n, bracket :
        Proved!LanesCountDefeats(format, n, bracket) <=> Draw!LanesCountDefeats(format, n, bracket)
  BY Zenon DEF Proved!LanesCountDefeats, Proved!DefeatsAt, Proved!LastMatch,
     Proved!Main, Proved!GrandFinal, Proved!Power, Proved!RoundsFor, Proved!Links,
     Proved!Sides, Proved!MatchIds, Draw!LanesCountDefeats, Draw!DefeatsAt,
     Draw!LastMatch, Draw!Main, Draw!GrandFinal, Draw!Power, Draw!RoundsFor,
     Draw!Links, Draw!Sides, Draw!MatchIds
<1>4. \A bracket : Proved!CodesAreUnique(bracket) <=> Draw!CodesAreUnique(bracket)
  BY Zenon DEF Proved!CodesAreUnique, Draw!CodesAreUnique
<1>5. \A format, n, bracket :
        Proved!RightNumberOfMatches(format, n, bracket) <=> Draw!RightNumberOfMatches(format, n, bracket)
  BY Zenon DEF Proved!RightNumberOfMatches, Proved!Losses, Proved!IsFiniteSet,
     Proved!Cardinality, Draw!RightNumberOfMatches, Draw!Losses, Draw!IsFiniteSet,
     Draw!Cardinality
<1>6. \A n, bracket :
        Proved!FeedersArePlayedBefore(n, bracket) <=> Draw!FeedersArePlayedBefore(n, bracket)
  BY Zenon DEF Proved!FeedersArePlayedBefore, Proved!Matchday, Proved!GrandFinal,
     Proved!Power, Proved!RoundsFor, Proved!Links, Proved!Sides, Proved!MatchIds,
     Draw!FeedersArePlayedBefore, Draw!Matchday, Draw!GrandFinal, Draw!Power,
     Draw!RoundsFor, Draw!Links, Draw!Sides, Draw!MatchIds
<1> QED BY <1>1, <1>2, <1>3, <1>4, <1>5, <1>6 DEF Proved!IsABracket, Draw!IsABracket

\* Whatever the number of teams, what is drawn is a bracket.
LEMMA WhatIsDrawn ==
    /\ \A n \in Nat \ {0, 1} : Draw!IsABracket("single", n, Draw!Drawn("single", n))
    /\ \A k \in Nat \ {0, 1} :
         Draw!IsABracket("double", Draw!Power[k], Draw!Drawn("double", Draw!Power[k]))
<1>1. Proved!Power = Draw!Power
  BY DEF Proved!Power, Draw!Power
<1>2. \A n \in Nat \ {0, 1} : Draw!IsABracket("single", n, Draw!Drawn("single", n))
  BY SameDraw, SameBracket, Proved!SingleIsABracket
<1>3. \A k \in Nat \ {0, 1} :
        Draw!IsABracket("double", Draw!Power[k], Draw!Drawn("double", Draw!Power[k]))
  BY <1>1, SameDraw, SameBracket, Proved!DoubleIsABracket
<1> QED BY <1>2, <1>3

\* So is the bracket that is played.
LEMMA DrawnIsABracket == Draw!IsABracket(Format, Size, Drawn)
<1>1. CASE Format = "single"
  BY <1>1, DrawnAssumption, WhatIsDrawn DEF Drawn
<1>2. CASE Format = "double"
  <2>1. PICK k \in 2 .. Size : Size = Draw!Power[k]
    BY <1>2, DrawnAssumption
  <2>2. k \in Nat \ {0, 1}
    BY DrawnAssumption
  <2> QED BY <1>2, <2>1, <2>2, WhatIsDrawn DEF Drawn
<1> QED BY <1>1, <1>2, DrawnAssumption
-------------------------------------------------------------------------------
(* The shape of a drawn bracket, in terms of its matches, links and teams. *)

\* The match nobody leaves, and the order in which the calendar plays the others.
Last == Draw!LastMatch(Format, Size)
Rank(m) == Draw!Matchday(Size, m)

\* The defeats of a team that is in a match: GF2 is between two that have lost once.
Defeats(m, side) == IF m = GF2 THEN 1 ELSE Draw!DefeatsAt(m, side)

\* A link takes the winner, or the loser, of m on to another match.
GoesOn(m, outcome) == \E l \in Feeds : l.source = m /\ l.outcome = outcome

\* The grand final is the last match of a double elimination; GF2 comes after it.
LastIsGrandFinal ==
    /\ Last \in Matches \ {GF2}
    /\ Format = "single" => GF1 = NoMatch /\ GF2 = NoMatch
    /\ Format = "double" => GF1 = Last /\ GF2 \in Matches

\* The winner of every match but the last goes on, through one link, and the loser
\* through one at most.
LinksInTurn ==
    /\ \A m \in Matches \ {GF2, Last} : GoesOn(m, "winner")
    /\ FeedsFrom(Last) = {}
    /\ \A k, l \in Feeds : k.source = l.source /\ k.outcome = l.outcome => k = l
    /\ \A l \in Feeds : Rank(l.source) < Rank(l.target)
    /\ \A m \in Matches \ {GF2} : Rank(m) \in Nat

\* A slot has a team of the draw or is fed by a link, and every team has one slot.
EntriesOnce ==
    /\ \A m \in Matches \ {GF2}, s \in Sides :
          Direct[m][s] # NoTeam \/ \E l \in Feeds : l.target = m /\ l.side = s
    /\ GF2 \in Matches => \A s \in Sides : Direct[GF2][s] = NoTeam
    /\ \A t \in Teams : \E m \in Matches, s \in Sides : Direct[m][s] = t
    /\ \A m, k \in Matches, s, r \in Sides :
          Direct[m][s] = Direct[k][r] /\ Direct[m][s] # NoTeam => m = k /\ s = r

\* A link carries the defeats along and adds one for the loser, who is out if there
\* is no link for him.
DefeatsAdd ==
    /\ \A m \in Matches, s \in Sides : Defeats(m, s) \in 0 .. Lives - 1
    /\ \A m \in Matches, s \in Sides : Direct[m][s] # NoTeam => Defeats(m, s) = 0
    /\ \A l \in Feeds, s \in Sides :
          Defeats(l.target, l.side) = Defeats(l.source, s) + (IF l.outcome = "loser" THEN 1 ELSE 0)
    /\ \A m \in Matches \ {GF2, Last}, s \in Sides :
          ~GoesOn(m, "loser") => Defeats(m, s) = Lives - 1
    /\ Format = "double" => Defeats(Last, "home") = 0 /\ Defeats(Last, "away") = 1

\* What LinksInTurn says of the bracket that was drawn.
LEMMA DrawnLinks ==
    LET ids == Draw!MatchIds(Drawn) IN
    /\ Last \in ids
    /\ \A m \in ids :
         /\ IF m = Last THEN ~GoesOn(m, "winner") ELSE GoesOn(m, "winner")
         /\ GoesOn(m, "loser") <=> m[1] = "winners"
    /\ \A k, l \in Feeds : k.source = l.source /\ k.outcome = l.outcome /\ l.source \in ids => k = l
    /\ \A m \in ids : IF Format = "single" THEN m[1] = "main"
                      ELSE m[1] \in {"winners", "losers"} \/ m = Last
<1> DEFINE ids == Draw!MatchIds(Drawn)
           leaving(m, outcome) == {l \in Feeds : l.source = m /\ l.outcome = outcome}
<1>1. Draw!Links(Drawn) = Feeds
  BY DrawnAssumption DEF MCFeeds
<1>2. Draw!EveryoneGoesOnOnce(Format, Size, Drawn) /\ Draw!LanesCountDefeats(Format, Size, Drawn)
  BY DrawnAssumption, DrawnIsABracket DEF Draw!IsABracket
<1>3. Last \in ids
  BY <1>2 DEF Draw!EveryoneGoesOnOnce, Last
<1>4. \A m \in ids :
         /\ IF m = Last THEN leaving(m, "winner") = {} ELSE \E l \in Feeds : leaving(m, "winner") = {l}
         /\ IF m[1] = "winners" THEN \E l \in Feeds : leaving(m, "loser") = {l}
                                ELSE leaving(m, "loser") = {}
  BY <1>1, <1>2 DEF Draw!EveryoneGoesOnOnce, Last
<1>5. \A m \in ids : IF Format = "single" THEN m[1] = "main"
                     ELSE m[1] \in {"winners", "losers"} \/ m = Last
  BY <1>2 DEF Draw!LanesCountDefeats, Last
<1>6. ASSUME NEW k \in Feeds, NEW l \in Feeds,
             k.source = l.source, k.outcome = l.outcome, l.source \in ids
      PROVE  k = l
  <2>1. l.outcome \in {"winner", "loser"}
    BY BracketAssumption DEF BracketAssumption
  <2>2. k \in leaving(l.source, l.outcome) /\ l \in leaving(l.source, l.outcome)
    BY <1>6
  <2>3. PICK e \in Feeds : leaving(l.source, l.outcome) = {e}
    BY <1>4, <1>6, <2>1, <2>2
  <2> QED BY <2>2, <2>3
<1>7. ASSUME NEW m, NEW outcome
      PROVE  GoesOn(m, outcome) <=> leaving(m, outcome) # {}
  BY DEF GoesOn
<1>8. ASSUME NEW m \in ids
      PROVE  /\ IF m = Last THEN ~GoesOn(m, "winner") ELSE GoesOn(m, "winner")
             /\ GoesOn(m, "loser") <=> m[1] = "winners"
  BY <1>4, <1>7
<1> HIDE DEF leaving
<1> QED BY <1>3, <1>5, <1>6, <1>8

\* The same in terms of the matches that are played: GF2 has no link.
LEMMA ToMatches ==
    /\ Draw!MatchIds(Drawn) \subseteq Matches
    /\ Matches \subseteq Draw!MatchIds(Drawn) \cup {GF2}
    /\ GF2 \notin Draw!MatchIds(Drawn)
    /\ GF2 \in Matches <=> Format = "double"
<1> DEFINE ids == Draw!MatchIds(Drawn)
<1>1. /\ Draw!ResetFinal # Draw!GrandFinal /\ MCNoMatch # Draw!GrandFinal
      /\ MCNoMatch # Draw!ResetFinal
      /\ Draw!ResetFinal[1] = "final" /\ MCNoMatch[1] = "none"
  BY DEF Draw!ResetFinal, Draw!GrandFinal, MCNoMatch
<1>2. ids = {x.match : x \in Drawn}
  BY DEF Draw!MatchIds
<1>3. Matches = ids \cup ({MCGF2} \ {MCNoMatch})
  BY <1>2, DrawnAssumption DEF MCMatches
<1>4. GF2 = IF Format = "single" THEN MCNoMatch ELSE Draw!ResetFinal
  BY DrawnAssumption DEF MCGF2
<1>5. Format = "double" => Last = Draw!GrandFinal
  BY DEF Last, Draw!LastMatch
<1>6. \A m \in ids : IF Format = "single" THEN m[1] = "main"
                     ELSE m[1] \in {"winners", "losers"} \/ m = Last
  BY DrawnLinks
<1>7. Format \in {"single", "double"}
  BY DrawnAssumption
<1>8. GF2 \notin ids
  BY <1>1, <1>4, <1>5, <1>6, <1>7
<1>9. MCGF2 = GF2
  BY DrawnAssumption
<1> HIDE DEF ids
<1>10. GF2 \in Matches <=> Format = "double"
  BY <1>1, <1>3, <1>4, <1>7, <1>8, <1>9
<1>11. ids \subseteq Matches /\ Matches \subseteq ids \cup {GF2}
  BY <1>3, <1>9
<1> QED BY <1>8, <1>10, <1>11 DEF ids

\* The three parts of the shape, and what DefeatsAdd says of the lanes.
LEMMA LastIsRight == LastIsGrandFinal
<1>1. Last \in Matches \ {GF2}
  BY ToMatches, DrawnLinks
<1>2. Format = "single" => GF1 = NoMatch /\ GF2 = NoMatch
  BY DrawnAssumption DEF MCGF1, MCGF2
<1>3. Format = "double" => GF1 = Last
  BY DrawnAssumption DEF MCGF1, Last, Draw!LastMatch
<1> QED BY <1>1, <1>2, <1>3, ToMatches DEF LastIsGrandFinal

\* One link at most for a winner or a loser, and always to a later round.
LEMMA LinksAreRight == LinksInTurn
<1>1. \A l \in Feeds : l.source \in Draw!MatchIds(Drawn)
  <2>1. \A l \in Feeds : l.source \in Matches /\ l.source # GF2
    BY BracketAssumption DEF BracketAssumption
  <2> QED BY <2>1, ToMatches
<1>2. \A k, l \in Feeds : k.source = l.source /\ k.outcome = l.outcome => k = l
  BY <1>1, DrawnLinks
<1>3. \A m \in Matches \ {GF2, Last} : GoesOn(m, "winner")
  BY ToMatches, DrawnLinks
<1>4. FeedsFrom(Last) = {}
  <2>1. ~GoesOn(Last, "winner")
    BY DrawnLinks
  <2>2. ~GoesOn(Last, "loser")
    <3>1. Last[1] # "winners"
      <4>1. CASE Format = "single"
        BY <4>1, DrawnLinks
      <4>2. CASE Format = "double"
        BY <4>2 DEF Last, Draw!LastMatch, Draw!GrandFinal
      <4> QED BY <4>1, <4>2, DrawnAssumption
    <3> QED BY <3>1, DrawnLinks
  <2>3. \A l \in Feeds : l.outcome \in {"winner", "loser"}
    BY BracketAssumption DEF BracketAssumption
  <2> QED BY <2>1, <2>2, <2>3 DEF FeedsFrom, GoesOn
<1>5. /\ \A l \in Feeds : Rank(l.source) < Rank(l.target)
      /\ \A m \in Matches \ {GF2} : Rank(m) \in Nat
  <2>1. Draw!FeedersArePlayedBefore(Size, Drawn) /\ Draw!Links(Drawn) = Feeds
    BY DrawnAssumption, DrawnIsABracket DEF Draw!IsABracket, MCFeeds
  <2> QED BY <2>1, ToMatches DEF Draw!FeedersArePlayedBefore, Rank
<1> QED BY <1>2, <1>3, <1>4, <1>5 DEF LinksInTurn

\* A drawn bracket is finite, and so is what is played of it.
LEMMA MatchesAreFinite == IsFiniteSet(Matches)
<1> DEFINE f == [x \in Drawn |-> x.match]
<1>1. IsFiniteSet(Drawn)
  BY DrawnAssumption, DrawnIsABracket DEF Draw!IsABracket, Draw!RightNumberOfMatches, Draw!IsFiniteSet, IsFiniteSet
<1>2. f \in Surjection(Drawn, Draw!MatchIds(Drawn))
  BY DEF Surjection, Draw!MatchIds
<1> HIDE DEF f
<1>3. IsFiniteSet(Draw!MatchIds(Drawn))
  BY <1>1, <1>2, FS_Surjection
<1>4. IsFiniteSet(Draw!MatchIds(Drawn) \cup {GF2})
  BY <1>3, FS_AddElement
<1> QED BY <1>4, ToMatches, FS_Subset

\* An entrant is a team or leaves a match; Direct has the teams.
LEMMA DrawnEntries ==
    /\ Draw!MatchIds(Drawn) = {x.match : x \in Drawn}
    /\ \A x \in Drawn, s \in Sides :
         \/ /\ x[s].kind = "team" /\ x[s].team \in Teams /\ x[s] = Draw!Entry(x[s].team)
            /\ Direct[x.match][s] = x[s].team
         \/ /\ Direct[x.match][s] = NoTeam
            /\ \E l \in Feeds : l.target = x.match /\ l.side = s
    /\ \A m \in Matches \ {GF2} : \E x \in Drawn : x.match = m
    /\ GF2 \in Matches => \A s \in Sides : Direct[GF2][s] = NoTeam
<1>1. /\ Draw!EveryTeamEntersOnce(Size, Drawn) /\ Draw!CodesAreUnique(Drawn)
      /\ Draw!Links(Drawn) = Feeds /\ Teams = 1 .. Size /\ NoTeam = 0
      /\ Direct = MCDirect /\ Matches = MCMatches /\ MCGF2 = GF2
  BY DrawnAssumption, DrawnIsABracket DEF Draw!IsABracket, MCFeeds, MCTeams, MCNoTeam
<1>2. Draw!MatchIds(Drawn) = {x.match : x \in Drawn}
  BY DEF Draw!MatchIds
<1>3. \A m \in Matches, s \in Sides :
         Direct[m][s] = IF m = GF2 THEN 0 ELSE Placed(CHOOSE x \in Drawn : x.match = m, s)
  BY <1>1 DEF MCDirect, MCNoTeam, Draw!Sides
<1>4. ASSUME NEW x \in Drawn, NEW s \in Sides
      PROVE  /\ x.match \in Matches
             /\ Direct[x.match][s] = Placed(x, s)
  <2>1. x.match \in Matches /\ x.match # GF2
    BY <1>2, ToMatches
  <2>2. (CHOOSE y \in Drawn : y.match = x.match) = x
    BY <1>1 DEF Draw!CodesAreUnique
  <2> QED BY <1>3, <2>1, <2>2
<1>5. ASSUME NEW x \in Drawn, NEW s \in Sides
      PROVE  \/ /\ x[s].kind = "team" /\ x[s].team \in Teams /\ x[s] = Draw!Entry(x[s].team)
                /\ Direct[x.match][s] = x[s].team
             \/ /\ Direct[x.match][s] = NoTeam
                /\ \E l \in Feeds : l.target = x.match /\ l.side = s
  <2>1. \/ \E i \in 1 .. Size : x[s] = Draw!Entry(i)
        \/ \E m \in Draw!MatchIds(Drawn), outcome \in {"winner", "loser"} : x[s] = Draw!From(m, outcome)
    BY <1>1 DEF Draw!EveryTeamEntersOnce, Draw!Sides
  <2>2. ASSUME NEW i \in 1 .. Size, x[s] = Draw!Entry(i)
        PROVE  /\ x[s].kind = "team" /\ x[s].team \in Teams /\ x[s] = Draw!Entry(x[s].team)
               /\ Direct[x.match][s] = x[s].team
    <3>1. x[s].kind = "team" /\ x[s].team = i
      BY <2>2 DEF Draw!Entry
    <3> QED BY <1>1, <1>4, <2>2, <3>1 DEF Placed
  <2>3. ASSUME NEW m \in Draw!MatchIds(Drawn), NEW outcome \in {"winner", "loser"},
               x[s] = Draw!From(m, outcome)
        PROVE  /\ Direct[x.match][s] = NoTeam
               /\ \E l \in Feeds : l.target = x.match /\ l.side = s
    <3>1. x[s].kind = "from"
      BY <2>3 DEF Draw!From
    <3>2. Direct[x.match][s] = NoTeam
      BY <1>1, <1>4, <3>1 DEF Placed, MCNoTeam
    <3> DEFINE l == [source |-> x[s].match, target |-> x.match, side |-> s, outcome |-> x[s].outcome]
    <3>3. l \in Draw!Links(Drawn)
      BY <3>1 DEF Draw!Links, Draw!Sides
    <3> QED BY <1>1, <3>2, <3>3
  <2> QED BY <2>1, <2>2, <2>3
<1>6. \A m \in Matches \ {GF2} : \E x \in Drawn : x.match = m
  BY <1>2, ToMatches
<1>7. GF2 \in Matches => \A s \in Sides : Direct[GF2][s] = NoTeam
  BY <1>1, <1>3
<1> QED BY <1>2, <1>5, <1>6, <1>7

\* Every slot is filled by the draw or by a link, every team once.
LEMMA EntriesAreRight == EntriesOnce
<1>1. ASSUME NEW m \in Matches \ {GF2}, NEW s \in Sides
      PROVE  Direct[m][s] # NoTeam \/ \E l \in Feeds : l.target = m /\ l.side = s
  <2>1. PICK x \in Drawn : x.match = m
    BY DrawnEntries
  <2>2. NoTeam \notin Teams
    BY BracketAssumption DEF BracketAssumption
  <2> QED BY <2>1, <2>2, DrawnEntries
<1>2. /\ Draw!EveryTeamEntersOnce(Size, Drawn) /\ Teams = 1 .. Size /\ NoTeam = 0
  BY DrawnAssumption, DrawnIsABracket DEF Draw!IsABracket, MCTeams, MCNoTeam
<1> DEFINE at(i) == {q \in Drawn \X Sides : q[1][q[2]] = Draw!Entry(i)}
<1>3. \A i \in Teams : \E p \in Drawn \X Sides : at(i) = {p}
  BY <1>2 DEF Draw!EveryTeamEntersOnce, Draw!Sides
<1>4. ASSUME NEW t \in Teams
      PROVE  \E m \in Matches, s \in Sides : Direct[m][s] = t
  <2>1. PICK p \in Drawn \X Sides : at(t) = {p}
    BY <1>3
  <2>2. p[1] \in Drawn /\ p[2] \in Sides /\ p[1][p[2]] = Draw!Entry(t)
    BY <2>1
  <2>3. p[1][p[2]].kind = "team" /\ p[1][p[2]].team = t
    BY <2>2 DEF Draw!Entry
  <2>4. p[1].match \in Matches
    BY <2>2, DrawnEntries, ToMatches
  <2>5. Direct[p[1].match][p[2]] = t \/ Direct[p[1].match][p[2]] = NoTeam
    BY <2>2, <2>3, DrawnEntries
  <2>6. Draw!Links(Drawn) = Feeds /\ Draw!CodesAreUnique(Drawn) /\ Direct = MCDirect
        /\ Matches = MCMatches /\ MCGF2 = GF2
    BY DrawnAssumption, DrawnIsABracket DEF Draw!IsABracket, MCFeeds
  <2>7. Direct[p[1].match][p[2]] = Placed(p[1], p[2])
    <3>1. p[1].match # GF2
      BY <2>2, DrawnEntries, ToMatches
    <3>2. (CHOOSE y \in Drawn : y.match = p[1].match) = p[1]
      BY <2>2, <2>6 DEF Draw!CodesAreUnique
    <3> QED BY <2>2, <2>4, <2>6, <3>1, <3>2 DEF MCDirect, Draw!Sides
  <2> QED BY <2>2, <2>3, <2>4, <2>7 DEF Placed
<1>5. ASSUME NEW m \in Matches, NEW k \in Matches, NEW s \in Sides, NEW r \in Sides,
             Direct[m][s] = Direct[k][r], Direct[m][s] # NoTeam
      PROVE  m = k /\ s = r
  <2>1. m # GF2 /\ k # GF2
    BY <1>5, DrawnEntries
  <2>2. PICK x \in Drawn : x.match = m
    BY <2>1, DrawnEntries
  <2>3. PICK y \in Drawn : y.match = k
    BY <2>1, DrawnEntries
  <2>4. x[s].team \in Teams /\ x[s] = Draw!Entry(x[s].team) /\ Direct[m][s] = x[s].team
    BY <1>5, <2>2, DrawnEntries
  <2>5. y[r].team \in Teams /\ y[r] = Draw!Entry(y[r].team) /\ Direct[k][r] = y[r].team
    BY <1>5, <2>3, DrawnEntries
  <2>6. <<x, s>> \in at(x[s].team) /\ <<y, r>> \in at(x[s].team)
    BY <1>5, <2>4, <2>5
  <2>7. PICK p \in Drawn \X Sides : at(x[s].team) = {p}
    BY <1>3, <2>4
  <2>8. <<x, s>> = <<y, r>>
    BY <2>6, <2>7
  <2> QED BY <2>2, <2>3, <2>8
<1>6. GF2 \in Matches => \A s \in Sides : Direct[GF2][s] = NoTeam
  BY DrawnEntries
<1> HIDE DEF at
<1> QED BY <1>1, <1>4, <1>5, <1>6 DEF EntriesOnce

\* A slot stands for a number of defeats, and links keep count of it.
LEMMA DefeatsAreRight == DefeatsAdd
<1>1. /\ Draw!LanesCountDefeats(Format, Size, Drawn) /\ Draw!Links(Drawn) = Feeds
      /\ Format \in {"single", "double"}
  BY DrawnAssumption, DrawnIsABracket DEF Draw!IsABracket, MCFeeds
<1>2. \A m \in Matches : m = GF2 \/ m \in Draw!MatchIds(Drawn)
  BY ToMatches
<1>3. \A m \in Draw!MatchIds(Drawn) :
         /\ IF Format = "single" THEN m[1] = "main" ELSE m[1] \in {"winners", "losers"} \/ m = Last
         /\ GoesOn(m, "loser") <=> m[1] = "winners"
  BY DrawnLinks
<1>4. Format = "double" => Last = Draw!GrandFinal
  BY DEF Last, Draw!LastMatch
<1>5. Draw!GrandFinal[1] = "final"
  BY DEF Draw!GrandFinal
<1>6. Lives = IF Format = "single" THEN 1 ELSE 2
  BY DEF Lives
<1>7. GF2 \in Matches => Format = "double"
  BY ToMatches
<1>8. ASSUME NEW m \in Matches, NEW s \in Sides
      PROVE  Defeats(m, s) \in 0 .. Lives - 1
  <2>1. CASE Format = "double"
    BY <1>6, <2>1 DEF Defeats, Draw!DefeatsAt
  <2>2. CASE Format = "single"
    <3>1. m # GF2 /\ m[1] = "main" /\ m # Draw!GrandFinal
      BY <1>2, <1>3, <1>5, <1>7, <2>2
    <3> QED BY <1>6, <2>2, <3>1 DEF Defeats, Draw!DefeatsAt
  <2> QED BY <1>1, <2>1, <2>2
<1>9. ASSUME NEW m \in Matches, NEW s \in Sides, Direct[m][s] # NoTeam
      PROVE  Defeats(m, s) = 0
  <2>1. m # GF2
    BY <1>9, DrawnEntries
  <2>2. PICK x \in Drawn : x.match = m
    BY <2>1, DrawnEntries
  <2>3. x[s].kind = "team"
    BY <1>9, <2>2, DrawnEntries
  <2> QED BY <1>1, <2>1, <2>2, <2>3 DEF Draw!LanesCountDefeats, Defeats, Draw!Sides
<1>10. ASSUME NEW l \in Feeds, NEW s \in Sides
       PROVE  Defeats(l.target, l.side)
                = Defeats(l.source, s) + (IF l.outcome = "loser" THEN 1 ELSE 0)
  <2>1. l.target # GF2 /\ l.source # GF2
    BY BracketAssumption DEF BracketAssumption
  <2> QED BY <1>1, <2>1 DEF Draw!LanesCountDefeats, Defeats, Draw!Sides
<1>11. ASSUME NEW m \in Matches \ {GF2, Last}, NEW s \in Sides, ~GoesOn(m, "loser")
       PROVE  Defeats(m, s) = Lives - 1
  <2>1. IF Format = "single" THEN m[1] = "main" ELSE m[1] = "losers"
    BY <1>2, <1>3, <1>11
  <2>2. m[1] = "main" => m # Draw!GrandFinal
    BY <1>5
  <2> QED BY <1>1, <1>6, <2>1, <2>2 DEF Defeats, Draw!DefeatsAt
<1>12. ASSUME Format = "double"
       PROVE  Defeats(Last, "home") = 0 /\ Defeats(Last, "away") = 1
  BY <1>4, <1>5, <1>12, LastIsRight DEF LastIsGrandFinal, Defeats, Draw!DefeatsAt
<1> QED BY <1>8, <1>9, <1>10, <1>11, <1>12 DEF DefeatsAdd
-------------------------------------------------------------------------------
(* The version that was drawn: who is where, and with how many defeats.    *)

IsOpen(m) == status[V][m] = "scheduled"
At(t, m, s) == IsOpen(m) /\ slot[V][m][s] = t

\* Only GF2 is ever cancelled; it has the teams of GF1 from when it is open.
ResetInTurn ==
    /\ \A m \in Matches : status[V][m] = "cancelled" => m = GF2
    /\ GF2 \in Matches =>
         slot[V][GF2] = IF status[V][GF2] = "cancelled" THEN [s \in Sides |-> NoTeam]
                        ELSE slot[V][GF1]

\* A team of the draw keeps the slot it was drawn to.
DirectStays ==
    \A m \in Matches, s \in Sides : Direct[m][s] # NoTeam => slot[V][m][s] = Direct[m][s]

\* A closed match had both its teams, and one of them has won if that decides who
\* goes on.
ClosedIsFull ==
    \A m \in Matches : IsClosed(V, m) =>
       /\ NoTeam \notin TeamsOf(V, m)
       /\ winner[V][m] \in TeamsOf(V, m) \cup {NoTeam}
       /\ FeedsFrom(m) # {} \/ m \in {GF1, GF2} => winner[V][m] # NoTeam

\* A team in an open match has the defeats that its side of it stands for.
DefeatsCounted ==
    \A m \in Matches, s \in Sides, t \in Teams : At(t, m, s) => Lost(t) = Defeats(m, s)

\* No team is in two open slots; until the end none that is alive is in no open one.
OnePlace ==
    \A m, k \in Matches, s, r \in Sides, t \in Teams : At(t, m, s) /\ At(t, k, r) => m = k /\ s = r

AliveHasPlace ==
    ~Over => \A t \in Alive : \E m \in Matches, s \in Sides : At(t, m, s)
-------------------------------------------------------------------------------
(* The version that was drawn, while it is played.                         *)

USE DEF V

\* A nonempty set of numbers has a least element.
LEMMA LeastExists ==
    ASSUME NEW S \in SUBSET Nat, S # {}
    PROVE  \E n \in S : \A k \in S : n <= k
<1> DEFINE R == OpToRel(<, Nat)
<1>1. IsWellFoundedOn(R, Nat)
  BY NatLessThanWellFounded
<1>2. \A k, n \in Nat : k < n => <<k, n>> \in R
  BY DEF OpToRel
<1> HIDE DEF R
<1>3. PICK n \in S : \A k \in S : <<k, n>> \notin R
  BY <1>1, WFMin
<1>4. ASSUME NEW k \in S PROVE n <= k
  <2>1. k \in Nat /\ n \in Nat /\ ~(k < n)
    BY <1>2, <1>3
  <2> QED BY <2>1
<1> QED BY <1>4

\* Some matches have a first and a last one.
LEMMA FirstAndLast ==
    ASSUME NEW S, IsFiniteSet(S), S # {}, \A m \in S : Rank(m) \in Nat
    PROVE  /\ \E m \in S : \A k \in S : Rank(m) <= Rank(k)
           /\ \E m \in S : \A k \in S : Rank(k) <= Rank(m)
<1>1. \E m \in S : \A k \in S : Rank(m) <= Rank(k)
  <2>1. PICK n \in {Rank(m) : m \in S} : \A k \in {Rank(m) : m \in S} : n <= k
    <3> DEFINE ranks == {Rank(m) : m \in S}
    <3>1. ranks \in SUBSET Nat /\ ranks # {}
      OBVIOUS
    <3> HIDE DEF ranks
    <3>2. \E n \in ranks : \A k \in ranks : n <= k
      BY <3>1, LeastExists
    <3> QED BY <3>2 DEF ranks
  <2> QED BY <2>1
<1>2. \E m \in S : \A k \in S : Rank(k) <= Rank(m)
  <2> DEFINE after(m) == {k \in S : Rank(m) < Rank(k)}
             counts == {Cardinality(after(m)) : m \in S}
  <2>1. \A m \in S : IsFiniteSet(after(m)) /\ Cardinality(after(m)) \in Nat
    <3> TAKE m \in S
    <3>1. after(m) \in SUBSET S
      OBVIOUS
    <3> HIDE DEF after
    <3> QED BY <3>1, FS_Subset, FS_CardinalityType
  <2>2. PICK n \in counts : \A k \in counts : n <= k
    <3>1. counts \in SUBSET Nat /\ counts # {}
      BY <2>1
    <3> HIDE DEF counts
    <3> QED BY <3>1, LeastExists
  <2>3. PICK m \in S : n = Cardinality(after(m))
    BY <2>2
  <2>4. SUFFICES ASSUME NEW k \in S, Rank(m) < Rank(k)
                 PROVE  FALSE
    BY <2>3
  <2>5. after(k) \in SUBSET after(m) /\ k \in after(m) /\ k \notin after(k)
    BY <2>4
  <2> HIDE DEF after
  <2>6. Cardinality(after(k)) < Cardinality(after(m))
    BY <2>1, <2>5, FS_Subset
  <2>7. Cardinality(after(m)) <= Cardinality(after(k))
    BY <2>2, <2>3 DEF counts
  <2> QED BY <2>1, <2>6, <2>7
<1> QED BY <1>1, <1>2

\* What a step can do to the version that was drawn: nothing, draw it again, or
\* file the report of one of its matches.
LEMMA StepOfDrawn ==
    ASSUME TypeOK, DrawnIsKept, [Next]_vars
    PROVE  \/ status'[V] = status[V] /\ slot'[V] = slot[V] /\ winner'[V] = winner[V]
           \/ status'[V] = DrawnStatus /\ slot'[V] = Direct
           \/ \E m \in Matches : \E w \in TeamsOf(V, m) \cup {NoTeam}, final \in Closed :
                 Filing(V, m, w, final)
<1>0. V \in Versions
  BY BracketAssumption DEF BracketAssumption
<1>1. ASSUME NEW v \in Versions, Publish(v)
      PROVE  status'[V] = status[V] /\ slot'[V] = slot[V] /\ winner'[V] = winner[V]
  BY <1>1 DEF Publish
<1>2. ASSUME NEW v \in Versions, Regenerate(v)
      PROVE  \/ status'[V] = status[V] /\ slot'[V] = slot[V] /\ winner'[V] = winner[V]
             \/ status'[V] = DrawnStatus /\ slot'[V] = Direct
  BY <1>0, <1>2 DEF Regenerate, TypeOK
<1>3. ASSUME NEW v \in Versions, NEW u \in Versions, Clone(v, u)
      PROVE  status'[V] = status[V] /\ slot'[V] = slot[V] /\ winner'[V] = winner[V]
  <2>1. u # V
    BY <1>3, DrawnIsKeptStep
  <2> QED BY <1>0, <1>3, <2>1 DEF Clone, TypeOK
<1>4. ASSUME NEW v \in Versions, NEW m \in Matches, CreateSegment(v, m)
      PROVE  status'[V] = status[V] /\ slot'[V] = slot[V] /\ winner'[V] = winner[V]
  BY <1>4 DEF CreateSegment
<1>5. ASSUME NEW v \in Versions, NEW m \in Matches, NEW w \in TeamsOf(v, m) \cup {NoTeam},
             NEW final \in Closed, Filing(v, m, w, final), v # V
      PROVE  status'[V] = status[V] /\ slot'[V] = slot[V] /\ winner'[V] = winner[V]
  BY <1>0, <1>5, BracketAssumption, FileEffect
<1>6. CASE UNCHANGED vars
  BY <1>6 DEF vars
<1> QED BY <1>1, <1>2, <1>3, <1>4, <1>5, <1>6, StepCases
\* What filing a report of the drawn version finds and changes, GF2 included.
LEMMA Filed ==
    ASSUME TypeOK, NEW m \in Matches, NEW w \in TeamsOf(V, m) \cup {NoTeam}, NEW final \in Closed,
           Filing(V, m, w, final)
    PROVE  /\ IsOpen(m) /\ NoTeam \notin TeamsOf(V, m)
           /\ m \in {GF1, GF2} => w # NoTeam
           /\ CanAdvance(V, m, w)
           /\ \A l \in FeedsFrom(m) : /\ w # NoTeam
                                      /\ IsOpen(l.target) /\ slot[V][l.target][l.side] = NoTeam
           /\ Repeats(V, m, w) => GF2 \in Matches /\ status[V][GF2] = "cancelled"
           /\ GF2 \in Matches =>
                slot'[V][GF2] = IF Repeats(V, m, w) THEN slot[V][m] ELSE slot[V][GF2]
<1>0. V \in Versions
  BY BracketAssumption DEF BracketAssumption
<1>1. /\ Operable(V, m) /\ CanAdvance(V, m, w) /\ CanRepeat(V, m, w)
      /\ m \in {GF1, GF2} => w # NoTeam
      /\ slot' = [slot EXCEPT ![V] =
                    [t \in Matches |-> IF Repeats(V, m, w) /\ t = GF2 THEN slot[V][m]
                                       ELSE Advanced(V, m, w)[t]]]
  BY DEF Filing, File
<1>2. IsOpen(m) /\ NoTeam \notin TeamsOf(V, m)
  BY <1>0, <1>1 DEF Operable, IsOpen, TypeOK, MatchStatuses
<1>3. \A l \in FeedsFrom(m) : w # NoTeam /\ IsOpen(l.target) /\ slot[V][l.target][l.side] = NoTeam
  BY <1>1 DEF CanAdvance, IsOpen
<1>4. Repeats(V, m, w) => GF2 \in Matches /\ status[V][GF2] = "cancelled"
  BY <1>1, BracketAssumption DEF Repeats, CanRepeat, BracketAssumption
<1>5. ASSUME GF2 \in Matches
      PROVE  slot'[V][GF2] = IF Repeats(V, m, w) THEN slot[V][m] ELSE slot[V][GF2]
  <2>1. Advanced(V, m, w)[GF2] = slot[V][GF2]
    BY <1>0, <1>1, <1>5, BracketAssumption, AdvancedSlots
  <2> QED BY <1>0, <1>1, <1>5, <2>1 DEF TypeOK
<1> QED BY <1>1, <1>2, <1>3, <1>4, <1>5

\* Who leaves a filed match is one of its teams, the loser not being the winner.
LEMMA TeamsLeave ==
    ASSUME NEW m \in Matches, NEW w \in TeamsOf(V, m), NEW l \in FeedsFrom(m)
    PROVE  /\ Leaving(V, l, w) \in TeamsOf(V, m)
           /\ slot[V][m]["home"] # slot[V][m]["away"] =>
                (Leaving(V, l, w) = w <=> l.outcome = "winner")
<1>1. l.source = m /\ l.outcome \in {"winner", "loser"}
  BY BracketAssumption DEF FeedsFrom, BracketAssumption
<1> QED BY <1>1 DEF Leaving, LoserOf, TeamsOf

\* The drawn version while it is played.
Playing ==
    /\ TypeOK /\ DrawnIsKept /\ NobodyArrivesEarly /\ ClosedFeedsTarget /\ ResetIffLost(V)
    /\ ResetInTurn /\ DirectStays /\ ClosedIsFull

\* A bracket that has just been drawn is ready to be played.
LEMMA PlayingDrawn ==
    TypeOK /\ status[V] = DrawnStatus /\ slot[V] = Direct => ResetInTurn /\ DirectStays /\ ClosedIsFull
<1> SUFFICES ASSUME TypeOK, status[V] = DrawnStatus, slot[V] = Direct
             PROVE  ResetInTurn /\ DirectStays /\ ClosedIsFull
  OBVIOUS
<1>1. V \in Versions /\ Direct \in [Matches -> [Sides -> Teams \cup {NoTeam}]]
  BY BracketAssumption DEF BracketAssumption
<1>2. GF2 \in Matches => Direct[GF2] = [s \in Sides |-> NoTeam]
  <2> SUFFICES ASSUME GF2 \in Matches PROVE Direct[GF2] = [s \in Sides |-> NoTeam]
    OBVIOUS
  <2>1. \A s \in Sides : Direct[GF2][s] = NoTeam
    BY EntriesAreRight DEF EntriesOnce
  <2> QED BY <1>1, <2>1
<1>3. \A m \in Matches : status[V][m] = IF m = GF2 THEN "cancelled" ELSE "scheduled"
  BY DEF DrawnStatus
<1> QED BY <1>2, <1>3 DEF ResetInTurn, DirectStays, ClosedIsFull, IsClosed

\* A report keeps the bracket in order: it fills later slots and closes its match.
LEMMA PlayingFiled ==
    ASSUME Playing, NEW m \in Matches, NEW w \in TeamsOf(V, m) \cup {NoTeam}, NEW final \in Closed,
           Filing(V, m, w, final)
    PROVE  (ResetInTurn /\ DirectStays /\ ClosedIsFull)'
<1> USE DEF Playing
<1>0. V \in Versions
  BY BracketAssumption DEF BracketAssumption
<1>1. /\ status'[V][m] = final /\ winner'[V][m] = w
      /\ \A t \in Matches \ {m} :
           /\ winner'[V][t] = winner[V][t]
           /\ \/ status'[V][t] = status[V][t]
              \/ t = GF2 /\ status[V][t] = "cancelled" /\ status'[V][t] = "scheduled"
      /\ \A t \in Matches : status[V][t] \in Closed \/ t = m => slot'[V][t] = slot[V][t]
      /\ \A t \in Matches, s \in Sides :
           t # GF2 /\ (\A l \in FeedsFrom(m) : ~(l.target = t /\ l.side = s))
              => slot'[V][t][s] = slot[V][t][s]
  BY <1>0, BracketAssumption, FileEffect
<1>2. /\ IsOpen(m) /\ NoTeam \notin TeamsOf(V, m)
      /\ m \in {GF1, GF2} => w # NoTeam
      /\ \A l \in FeedsFrom(m) : /\ w # NoTeam
                                 /\ IsOpen(l.target) /\ slot[V][l.target][l.side] = NoTeam
      /\ Repeats(V, m, w) => GF2 \in Matches /\ status[V][GF2] = "cancelled"
      /\ GF2 \in Matches =>
           slot'[V][GF2] = IF Repeats(V, m, w) THEN slot[V][m] ELSE slot[V][GF2]
  BY Filed
<1>3. /\ Repeats(V, m, w) => status'[V][GF2] = "scheduled"
      /\ ~Repeats(V, m, w) => \A t \in Matches \ {m} : status'[V][t] = status[V][t]
  BY <1>0, BracketAssumption, ResetEffect
<1>4. GF2 \in Matches => GF1 \in Matches /\ GF1 # GF2 /\ GF1 # NoMatch
  BY BracketAssumption, LastIsRight, DrawnAssumption, ToMatches DEF LastIsGrandFinal, BracketAssumption
<1>5. ResetInTurn'
  <2>1. ASSUME NEW t \in Matches, status'[V][t] = "cancelled"
        PROVE  t = GF2
    BY <1>1, <2>1 DEF ResetInTurn
  <2>2. ASSUME GF2 \in Matches
        PROVE  slot'[V][GF2] = IF status'[V][GF2] = "cancelled" THEN [s \in Sides |-> NoTeam]
                               ELSE slot'[V][GF1]
    <3>1. CASE Repeats(V, m, w)
      <4>1. m = GF1
        BY <3>1 DEF Repeats
      <4> QED BY <1>1, <1>2, <1>3, <2>2, <3>1, <4>1
    <3>2. CASE ~Repeats(V, m, w) /\ m = GF2
      <4>1. status[V][GF2] # "cancelled"
        BY <1>2, <3>2 DEF IsOpen
      <4>2. slot[V][GF2] = slot[V][GF1] /\ IsClosed(V, GF1)
        BY <1>4, <2>2, <4>1 DEF ResetInTurn, ResetIffLost
      <4>3. slot'[V][GF1] = slot[V][GF1]
        BY <1>1, <1>4, <2>2, <4>2 DEF IsClosed
      <4> QED BY <1>1, <1>2, <2>2, <3>2, <4>2, <4>3
    <3>3. CASE ~Repeats(V, m, w) /\ m # GF2
      <4>1. status'[V][GF2] = status[V][GF2] /\ slot'[V][GF2] = slot[V][GF2]
        BY <1>2, <1>3, <2>2, <3>3
      <4>2. status[V][GF2] # "cancelled" => slot'[V][GF1] = slot[V][GF1]
        BY <1>1, <1>4, <2>2 DEF ResetIffLost, IsClosed
      <4> QED BY <2>2, <4>1, <4>2 DEF ResetInTurn
    <3> QED BY <3>1, <3>2, <3>3
  <2> QED BY <2>1, <2>2 DEF ResetInTurn
<1>6. DirectStays'
  <2> SUFFICES ASSUME NEW t \in Matches, NEW s \in Sides, Direct[t][s] # NoTeam
               PROVE  slot'[V][t][s] = Direct[t][s]
    BY DEF DirectStays
  <2>1. t # GF2
    BY EntriesAreRight DEF EntriesOnce
  <2>2. \A l \in FeedsFrom(m) : ~(l.target = t /\ l.side = s)
    BY BracketAssumption DEF BracketAssumption, FeedsFrom
  <2> QED BY <1>1, <2>1, <2>2 DEF DirectStays
<1>7. ClosedIsFull'
  <2> SUFFICES ASSUME NEW t \in Matches, status'[V][t] \in Closed
               PROVE  /\ NoTeam \notin TeamsOf(V, t)'
                      /\ winner'[V][t] \in TeamsOf(V, t)' \cup {NoTeam}
                      /\ FeedsFrom(t) # {} \/ t \in {GF1, GF2} => winner'[V][t] # NoTeam
    BY DEF ClosedIsFull, IsClosed
  <2>1. CASE t = m
    <3>1. TeamsOf(V, t)' = TeamsOf(V, t)
      BY <1>1, <2>1 DEF TeamsOf
    <3> QED BY <1>1, <1>2, <2>1, <3>1
  <2>2. CASE t # m
    <3>1. status[V][t] \in Closed
      BY <1>1, <2>2
    <3>2. TeamsOf(V, t)' = TeamsOf(V, t)
      BY <1>1, <3>1 DEF TeamsOf
    <3> QED BY <1>1, <2>2, <3>1, <3>2 DEF ClosedIsFull, IsClosed
  <2> QED BY <2>1, <2>2
<1> QED BY <1>5, <1>6, <1>7

\* The drawn version is in order from its first match to its last.
LEMMA AlwaysPlaying == Spec => []Playing
<1> DEFINE More == ResetInTurn /\ DirectStays /\ ClosedIsFull
<1>0. V \in Versions
  BY BracketAssumption DEF BracketAssumption
<1>1. Init => DrawnIsKept /\ status[V] = DrawnStatus /\ slot[V] = Direct
  BY <1>0 DEF Init, DrawnIsKept
<1>2. TypeOK /\ Init => More
  BY <1>1, PlayingDrawn
<1>3. Playing /\ TypeOK' /\ [Next]_vars => More'
  <2> SUFFICES ASSUME Playing, TypeOK', [Next]_vars
               PROVE  More'
    OBVIOUS
  <2>1. CASE status'[V] = status[V] /\ slot'[V] = slot[V] /\ winner'[V] = winner[V]
    <3> USE <2>1 DEF Playing
    <3>1. ResetInTurn'
      BY DEF ResetInTurn
    <3>2. DirectStays'
      BY DEF DirectStays
    <3>3. ClosedIsFull'
      BY DEF ClosedIsFull, IsClosed, TeamsOf
    <3> QED BY <3>1, <3>2, <3>3
  <2>2. CASE status'[V] = DrawnStatus /\ slot'[V] = Direct
    <3>1. (TypeOK /\ status[V] = DrawnStatus /\ slot[V] = Direct => More)'
      BY PlayingDrawn, PTL
    <3> QED BY <2>2, <3>1
  <2>3. ASSUME NEW m \in Matches, NEW w \in TeamsOf(V, m) \cup {NoTeam}, NEW final \in Closed,
               Filing(V, m, w, final)
        PROVE  More'
    BY <2>3, PlayingFiled
  <2> QED BY <2>1, <2>2, <2>3, StepOfDrawn DEF Playing
<1>4. Spec => []DrawnIsKept
  <2>1. Init => DrawnIsKept
    BY <1>1
  <2>2. TypeOK /\ DrawnIsKept /\ [Next]_vars => DrawnIsKept'
    BY DrawnIsKeptStep
  <2> QED BY <2>1, <2>2, TypeCorrect, PTL DEF Spec
<1>5. Playing <=> /\ TypeOK /\ DrawnIsKept /\ NobodyArrivesEarly /\ ClosedFeedsTarget
                  /\ ResetIffLost(FirstVersion) /\ More
  BY DEF Playing
<1> HIDE DEF More
<1> QED BY <1>2, <1>3, <1>4, <1>5, TypeCorrect, NobodyEarly, AdvancementHolds, ResetOfTheDrawn, PTL DEF Spec

-------------------------------------------------------------------------------
(* Somebody can always go on.                                              *)

\* A match that is still open and whose feeders are closed has both its teams, and
\* filing it is accepted.
LEMMA ReadyToPlay ==
    ASSUME Playing, NEW m \in Matches, IsOpen(m),
           m = GF2 \/ \A l \in Feeds : l.target = m => IsClosed(V, l.source)
    PROVE  /\ NoTeam \notin TeamsOf(V, m)
           /\ \A w \in TeamsOf(V, m) : CanAdvance(V, m, w) /\ CanRepeat(V, m, w)
<1> USE DEF Playing
<1>0. V \in Versions /\ NoTeam \notin Teams /\ Direct \in [Matches -> [Sides -> Teams \cup {NoTeam}]]
  BY BracketAssumption DEF BracketAssumption
<1>1. NoTeam \notin TeamsOf(V, m)
  <2>1. CASE m = GF2
    <3>1. GF1 \in Matches /\ GF1 # NoMatch
      BY <2>1, BracketAssumption, LastIsRight, DrawnAssumption, ToMatches
         DEF LastIsGrandFinal, BracketAssumption
    <3>2. slot[V][GF2] = slot[V][GF1] /\ IsClosed(V, GF1)
      BY <2>1, <3>1 DEF ResetInTurn, ResetIffLost, IsOpen
    <3> QED BY <2>1, <3>1, <3>2 DEF ClosedIsFull, TeamsOf
  <2>2. CASE m # GF2
    <3> SUFFICES ASSUME NEW s \in Sides PROVE slot[V][m][s] # NoTeam
      BY DEF TeamsOf
    <3>1. CASE Direct[m][s] # NoTeam
      BY <3>1 DEF DirectStays
    <3>2. ASSUME NEW l \in Feeds, l.target = m, l.side = s
          PROVE  slot[V][m][s] # NoTeam
      <4>1. IsClosed(V, l.source) /\ l.source \in Matches /\ l \in FeedsFrom(l.source)
        BY <2>2, <3>2, BracketAssumption DEF BracketAssumption, FeedsFrom
      <4>2. slot[V][m][s] = Leaving(V, l, winner[V][l.source])
        BY <1>0, <3>2, <4>1 DEF ClosedFeedsTarget
      <4>3. winner[V][l.source] \in TeamsOf(V, l.source) /\ NoTeam \notin TeamsOf(V, l.source)
        BY <4>1 DEF ClosedIsFull
      <4> QED BY <4>1, <4>2, <4>3, TeamsLeave
    <3> QED BY <2>2, <3>1, <3>2, EntriesAreRight DEF EntriesOnce
  <2> QED BY <2>1, <2>2
<1>2. ASSUME NEW w \in TeamsOf(V, m)
      PROVE  CanAdvance(V, m, w)
  <2> SUFFICES ASSUME NEW l \in FeedsFrom(m)
               PROVE  /\ w # NoTeam
                      /\ status[V][l.target] = "scheduled" /\ slot[V][l.target][l.side] = NoTeam
    BY <1>1 DEF CanAdvance
  <2>1. l \in Feeds /\ l.source = m /\ l.target \in Matches /\ l.target # GF2 /\ l.side \in Sides
    BY BracketAssumption DEF BracketAssumption, FeedsFrom
  <2>2. slot[V][l.target][l.side] = NoTeam
    BY <2>1 DEF NobodyArrivesEarly, IsOpen, IsClosed
  <2>3. ~IsClosed(V, l.target)
    BY <2>1, <2>2 DEF ClosedIsFull, TeamsOf
  <2>4. status[V][l.target] = "scheduled"
    BY <1>0, <2>1, <2>3 DEF TypeOK, MatchStatuses, IsClosed, ResetInTurn
  <2> QED BY <1>1, <2>2, <2>4
<1>3. ASSUME NEW w \in TeamsOf(V, m)
      PROVE  CanRepeat(V, m, w)
  <2> SUFFICES ASSUME m = GF1
               PROVE  /\ GF2 # NoMatch /\ status[V][GF2] = "cancelled"
                      /\ slot[V][GF2] = [s \in Sides |-> NoTeam]
    BY DEF CanRepeat, Repeats
  <2>1. GF1 # NoMatch /\ GF2 \in Matches /\ GF2 # NoMatch
    BY BracketAssumption DEF BracketAssumption
  <2>2. status[V][GF2] = "cancelled"
    BY <2>1 DEF ResetIffLost, IsClosed, IsOpen
  <2> QED BY <2>1, <2>2 DEF ResetInTurn
<1> QED BY <1>1, <1>2, <1>3

\* In no bracket that is drawn does an order of reports lead to a state where no
\* match can be closed: of the open matches the first in the calendar can, for all
\* that feed it are closed, and if only GF2 is open, GF2 can.
THEOREM NeverWedged == Spec => []NeverStuck
<1>1. ASSUME Playing, ~Over
      PROVE  \E m \in Matches :
                /\ IsOpen(m)
                /\ m = GF2 \/ \A l \in Feeds : l.target = m => IsClosed(V, l.source)
  <2> DEFINE S == {m \in Matches \ {GF2} : IsOpen(m)}
  <2>1. CASE S = {}
    BY <1>1, <2>1 DEF Over, IsOpen
  <2>2. CASE S # {}
    <3>1. IsFiniteSet(S) /\ \A m \in S : Rank(m) \in Nat
      <4>1. S \in SUBSET Matches
        OBVIOUS
      <4> HIDE DEF S
      <4>2. IsFiniteSet(S)
        BY <4>1, MatchesAreFinite, FS_Subset
      <4> QED BY <4>2, LinksAreRight DEF LinksInTurn, S
    <3>2. PICK m \in S : \A k \in S : Rank(m) <= Rank(k)
      <4> HIDE DEF S
      <4> QED BY <2>2, <3>1, FirstAndLast
    <3>3. ASSUME NEW l \in Feeds, l.target = m
          PROVE  IsClosed(V, l.source)
      <4>1. l.source \in Matches /\ l.source # GF2
        BY BracketAssumption DEF BracketAssumption
      <4>2. Rank(l.source) \in Nat /\ Rank(m) \in Nat /\ Rank(l.source) < Rank(m)
        BY <3>3, <4>1, LinksAreRight DEF LinksInTurn
      <4>3. l.source \notin S
        BY <3>2, <4>2
      <4>4. V \in Versions
        BY BracketAssumption DEF BracketAssumption
      <4> QED BY <1>1, <4>1, <4>3, <4>4
              DEF IsOpen, IsClosed, Playing, ResetInTurn, TypeOK, MatchStatuses
    <3> QED BY <3>2, <3>3
  <2> QED BY <2>1, <2>2
<1>2. Playing => NeverStuck
  BY <1>1, ReadyToPlay DEF NeverStuck, IsOpen
<1> QED BY <1>2, AlwaysPlaying, PTL
-------------------------------------------------------------------------------
(* One champion.                                                           *)

\* The matches a team has lost, as a set: Lost counts them.
LostIn(t) == {m \in Matches : IsClosed(V, m) /\ t \in TeamsOf(V, m) /\ winner[V][m] # t}

\* Lost counts a finite set.
LEMMA LostIsCount ==
    \A t : IsFiniteSet(LostIn(t)) /\ Lost(t) = Cardinality(LostIn(t)) /\ Lost(t) \in Nat
<1> TAKE t
<1>1. LostIn(t) \in SUBSET Matches
  BY DEF LostIn
<1>2. IsFiniteSet(LostIn(t)) /\ Cardinality(LostIn(t)) \in Nat
  BY <1>1, MatchesAreFinite, FS_Subset, FS_CardinalityType
<1>3. Lost(t) = Cardinality(LostIn(t))
  BY DEF Lost, LostIn
<1> QED BY <1>2, <1>3

\* The last match of a bracket that has both its teams is the only one left, and GF2
\* is only open when the grand final is closed.
LEMMA OnlyTheLast ==
    ASSUME Playing, NEW m \in Matches, IsOpen(m), NoTeam \notin TeamsOf(V, m), m \in {Last, GF2}
    PROVE  \A k \in Matches \ {m} :
              /\ ~IsOpen(k)
              /\ k \notin {Last, GF2} => IsClosed(V, k)
<1> USE DEF Playing
<1>0. V \in Versions /\ Last # GF2 /\ Last \in Matches
  BY BracketAssumption, LastIsRight DEF BracketAssumption, LastIsGrandFinal
<1>1. GF2 \in Matches => GF1 = Last /\ GF1 # NoMatch
  BY BracketAssumption, LastIsRight, DrawnAssumption, ToMatches
     DEF LastIsGrandFinal, BracketAssumption
<1>2. m = GF2 => IsClosed(V, Last)
  BY <1>1 DEF IsOpen, ResetIffLost
<1>3. m = Last => ~(GF2 \in Matches /\ IsOpen(GF2))
  BY <1>1 DEF IsOpen, ResetIffLost, IsClosed
<1>4. NoTeam \notin TeamsOf(V, Last)
  BY <1>0, <1>2 DEF ClosedIsFull
<1> DEFINE S == {k \in Matches \ {Last, GF2} : ~IsClosed(V, k)}
<1>5. S = {}
  <2> SUFFICES ASSUME S # {} PROVE FALSE
    OBVIOUS
  <2>1. S \in SUBSET Matches /\ \A k \in S : Rank(k) \in Nat
    BY LinksAreRight DEF LinksInTurn
  <2>2. PICK k \in S : \A x \in S : Rank(x) <= Rank(k)
    <3> HIDE DEF S
    <3>1. IsFiniteSet(S)
      BY <2>1, MatchesAreFinite, FS_Subset
    <3> QED BY <2>1, <3>1, FirstAndLast
  <2>3. PICK l \in Feeds : l.source = k /\ l.outcome = "winner"
    BY <2>2, LinksAreRight DEF LinksInTurn, GoesOn
  <2>4. l.target \in Matches /\ l.target # GF2 /\ l.side \in Sides
    BY BracketAssumption DEF BracketAssumption
  <2>5. slot[V][l.target][l.side] = NoTeam
    BY <2>2, <2>3 DEF NobodyArrivesEarly
  <2>6. l.target # Last
    BY <1>4, <2>4, <2>5 DEF TeamsOf
  <2>7. ~IsClosed(V, l.target)
    BY <2>4, <2>5 DEF ClosedIsFull, TeamsOf
  <2>8. l.target \in S
    BY <2>4, <2>6, <2>7
  <2>9. Rank(k) < Rank(l.target) /\ Rank(k) \in Nat /\ Rank(l.target) \in Nat
    BY <2>1, <2>2, <2>3, <2>8, LinksAreRight DEF LinksInTurn
  <2> QED BY <2>2, <2>8, <2>9
<1> QED BY <1>2, <1>3, <1>5 DEF IsOpen, IsClosed

\* A report adds one defeat, to the loser of the match that is closed.
LEMMA LostAfter ==
    ASSUME Playing, NEW m \in Matches, NEW w \in TeamsOf(V, m) \cup {NoTeam}, NEW final \in Closed,
           Filing(V, m, w, final), NEW t \in Teams
    PROVE  Lost(t)' = Lost(t) + (IF t \in TeamsOf(V, m) /\ t # w THEN 1 ELSE 0)
<1> USE DEF Playing
<1>0. V \in Versions
  BY BracketAssumption DEF BracketAssumption
<1>1. /\ status'[V][m] = final /\ winner'[V][m] = w /\ status[V][m] \notin Closed
      /\ \A k \in Matches \ {m} :
           /\ winner'[V][k] = winner[V][k]
           /\ \/ status'[V][k] = status[V][k]
              \/ k = GF2 /\ status[V][k] = "cancelled" /\ status'[V][k] = "scheduled"
      /\ \A k \in Matches : status[V][k] \in Closed \/ k = m => slot'[V][k] = slot[V][k]
  BY <1>0, BracketAssumption, FileEffect
<1>2. \A k \in Matches \ {m} :
         k \in LostIn(t)' <=> k \in LostIn(t)
  BY <1>1 DEF LostIn, IsClosed, TeamsOf
<1>3. m \notin LostIn(t) /\ (m \in LostIn(t)' <=> t \in TeamsOf(V, m) /\ t # w)
  BY <1>1 DEF LostIn, IsClosed, TeamsOf
<1>4. LostIn(t) \subseteq Matches /\ LostIn(t)' \subseteq Matches
  BY DEF LostIn
<1>5. LostIn(t)' = IF t \in TeamsOf(V, m) /\ t # w THEN LostIn(t) \cup {m} ELSE LostIn(t)
  BY <1>2, <1>3, <1>4
<1>6. Lost(t)' = Cardinality(LostIn(t)')
  BY DEF Lost, LostIn
<1>7. /\ Lost(t) = Cardinality(LostIn(t)) /\ IsFiniteSet(LostIn(t)) /\ Lost(t) \in Nat
      /\ Cardinality(LostIn(t) \cup {m}) = Lost(t) + 1
  BY <1>3, LostIsCount, FS_AddElement
<1> QED BY <1>5, <1>6, <1>7

\* Where a team is once a report is filed: where it was, but for the match that was
\* filed, where a link sends it, or in GF2.
LEMMA PlacesAfter ==
    ASSUME Playing, NEW m \in Matches, NEW w \in TeamsOf(V, m) \cup {NoTeam}, NEW final \in Closed,
           Filing(V, m, w, final), NEW t \in Teams, NEW k \in Matches, NEW s \in Sides
    PROVE  At(t, k, s)' <=>
              \/ k # m /\ At(t, k, s)
              \/ \E l \in FeedsFrom(m) : l.target = k /\ l.side = s /\ Leaving(V, l, w) = t
              \/ Repeats(V, m, w) /\ k = GF2 /\ slot[V][m][s] = t
<1> USE DEF Playing
<1>0. V \in Versions /\ NoTeam \notin Teams
  BY BracketAssumption DEF BracketAssumption
<1>1. /\ status'[V][m] = final
      /\ \A l \in FeedsFrom(m) : slot'[V][l.target][l.side] = Leaving(V, l, w)
      /\ k # GF2 /\ (\A l \in FeedsFrom(m) : ~(l.target = k /\ l.side = s))
            => slot'[V][k][s] = slot[V][k][s]
      /\ k # m => \/ status'[V][k] = status[V][k]
                  \/ k = GF2 /\ status[V][k] = "cancelled" /\ status'[V][k] = "scheduled"
  BY <1>0, BracketAssumption, FileEffect
<1>2. /\ IsOpen(m)
      /\ \A l \in FeedsFrom(m) : IsOpen(l.target) /\ slot[V][l.target][l.side] = NoTeam
      /\ Repeats(V, m, w) => GF2 \in Matches /\ status[V][GF2] = "cancelled"
      /\ GF2 \in Matches =>
           slot'[V][GF2] = IF Repeats(V, m, w) THEN slot[V][m] ELSE slot[V][GF2]
  BY Filed
<1>3. /\ Repeats(V, m, w) => status'[V][GF2] = "scheduled"
      /\ ~Repeats(V, m, w) => \A x \in Matches \ {m} : status'[V][x] = status[V][x]
  BY <1>0, BracketAssumption, ResetEffect
<1>4. \A l \in FeedsFrom(m) : /\ l.source = m /\ l.target # m /\ l.target # GF2
                              /\ l.target \in Matches /\ l.side \in Sides
  BY BracketAssumption DEF BracketAssumption, FeedsFrom
<1>5. At(t, k, s)' <=> status'[V][k] = "scheduled" /\ slot'[V][k][s] = t
  BY DEF At, IsOpen
<1>6. At(t, k, s) <=> status[V][k] = "scheduled" /\ slot[V][k][s] = t
  BY DEF At, IsOpen
<1>7. CASE k = m
  <2>1. ~(Repeats(V, m, w) /\ k = GF2)
    BY <1>2, <1>7 DEF IsOpen
  <2> QED BY <1>1, <1>4, <1>5, <1>7, <2>1
<1>8. CASE k # m /\ k = GF2
  BY <1>1, <1>2, <1>3, <1>4, <1>5, <1>6, <1>8
<1>9. CASE k # m /\ k # GF2
  <2>1. status'[V][k] = status[V][k]
    BY <1>1, <1>9
  <2>2. ASSUME NEW l \in FeedsFrom(m), l.target = k, l.side = s
        PROVE  /\ status[V][k] = "scheduled" /\ slot[V][k][s] = NoTeam
               /\ slot'[V][k][s] = Leaving(V, l, w)
               /\ \A x \in FeedsFrom(m) : x.target = k /\ x.side = s => x = l
    <3>1. \A x \in FeedsFrom(m) : x.target = k /\ x.side = s => x = l
      BY <2>2, BracketAssumption DEF BracketAssumption, FeedsFrom
    <3> QED BY <1>1, <1>2, <2>2, <3>1 DEF IsOpen
  <2>3. CASE \E l \in FeedsFrom(m) : l.target = k /\ l.side = s
    BY <1>0, <1>5, <1>6, <1>9, <2>1, <2>2, <2>3
  <2>4. CASE \A l \in FeedsFrom(m) : ~(l.target = k /\ l.side = s)
    BY <1>1, <1>5, <1>6, <1>9, <2>1, <2>4
  <2> QED BY <2>3, <2>4
<1> QED BY <1>7, <1>8, <1>9

\* Who is where, with how many defeats, and that somebody is left.
Championship == DefeatsCounted /\ OnePlace /\ AliveHasPlace /\ OneChampion

\* Before the first match every team has one slot and no defeat.
LEMMA ChampionshipDrawn ==
    TypeOK /\ status[V] = DrawnStatus /\ slot[V] = Direct => Championship
<1> SUFFICES ASSUME TypeOK, status[V] = DrawnStatus, slot[V] = Direct
             PROVE  Championship
  OBVIOUS
<1>1. \A m \in Matches : status[V][m] = IF m = GF2 THEN "cancelled" ELSE "scheduled"
  BY DEF DrawnStatus
<1>2. \A t : Lost(t) = 0
  <2> TAKE t
  <2>1. LostIn(t) = {}
    BY <1>1 DEF LostIn, IsClosed
  <2> QED BY <2>1, LostIsCount, FS_EmptySet
<1>3. NoTeam \notin Teams
  BY BracketAssumption DEF BracketAssumption
<1>4. DefeatsCounted
  BY <1>2, <1>3, DefeatsAreRight DEF DefeatsCounted, DefeatsAdd, At
<1>5. OnePlace
  BY <1>3, EntriesAreRight DEF OnePlace, EntriesOnce, At
<1>6. AliveHasPlace
  <2>1. ASSUME NEW t \in Teams
        PROVE  \E m \in Matches, s \in Sides : At(t, m, s)
    <3>1. PICK m \in Matches, s \in Sides : Direct[m][s] = t
      BY EntriesAreRight DEF EntriesOnce
    <3>2. m # GF2
      BY <1>3, <3>1, EntriesAreRight DEF EntriesOnce
    <3> QED BY <1>1, <3>1, <3>2 DEF At, IsOpen
  <2> QED BY <2>1 DEF AliveHasPlace, Alive
<1>7. ~Over
  BY <1>1, LastIsRight DEF LastIsGrandFinal, Over
<1> QED BY <1>4, <1>5, <1>6, <1>7 DEF Championship, OneChampion

\* The two teams of a match that is filed: two, with the defeats of their sides, and
\* nowhere else.
LEMMA TheTwoTeams ==
    ASSUME Playing, Championship, NEW m \in Matches, IsOpen(m), NoTeam \notin TeamsOf(V, m)
    PROVE  /\ TeamsOf(V, m) \subseteq Teams /\ slot[V][m]["home"] # slot[V][m]["away"]
           /\ \A s \in Sides : Lost(slot[V][m][s]) = Defeats(m, s)
           /\ \A t \in Teams : t \in TeamsOf(V, m) <=> \E s \in Sides : At(t, m, s)
           /\ \A t \in TeamsOf(V, m), k \in Matches, r \in Sides : At(t, k, r) => k = m
<1>1. \A s \in Sides : slot[V][m][s] \in Teams
  <2>1. V \in Versions
    BY BracketAssumption DEF BracketAssumption
  <2> QED BY <2>1 DEF Playing, TypeOK, TeamsOf
<1>2. \A s \in Sides : At(slot[V][m][s], m, s)
  BY DEF At
<1>3. slot[V][m]["home"] # slot[V][m]["away"]
  BY <1>1, <1>2 DEF Championship, OnePlace
<1>4. \A s \in Sides : Lost(slot[V][m][s]) = Defeats(m, s)
  BY <1>1, <1>2 DEF Championship, DefeatsCounted
<1>5. TeamsOf(V, m) \subseteq Teams
  BY <1>1 DEF TeamsOf
<1>6. \A t \in TeamsOf(V, m) : \E s \in Sides : At(t, m, s)
  BY <1>2 DEF TeamsOf
<1>7. \A t \in TeamsOf(V, m), k \in Matches, r \in Sides : At(t, k, r) => k = m
  BY <1>5, <1>6 DEF Championship, OnePlace
<1>8. \A t \in Teams : (\E s \in Sides : At(t, m, s)) => t \in TeamsOf(V, m)
  BY DEF At, TeamsOf
<1> QED BY <1>3, <1>4, <1>5, <1>6, <1>7, <1>8

\* A report of the drawn version, and what has been said of it.
Report(m, w, final) ==
    /\ Playing /\ Championship /\ m \in Matches /\ w \in TeamsOf(V, m) \cup {NoTeam} /\ final \in Closed
    /\ Filing(V, m, w, final)

\* The teams that go on keep the count of their defeats.
LEMMA DefeatsAfter ==
    ASSUME NEW m, NEW w, NEW final, Report(m, w, final)
    PROVE  DefeatsCounted'
<1> USE DEF Report
<1>1. /\ IsOpen(m) /\ NoTeam \notin TeamsOf(V, m)
      /\ \A l \in FeedsFrom(m) : w # NoTeam
      /\ Repeats(V, m, w) => GF2 \in Matches
  BY Filed DEF Playing
<1>2. /\ TeamsOf(V, m) \subseteq Teams /\ slot[V][m]["home"] # slot[V][m]["away"]
      /\ \A s \in Sides : Lost(slot[V][m][s]) = Defeats(m, s)
      /\ \A t \in Teams : t \in TeamsOf(V, m) <=> \E s \in Sides : At(t, m, s)
      /\ \A t \in TeamsOf(V, m), k \in Matches, r \in Sides : At(t, k, r) => k = m
  BY <1>1, TheTwoTeams
<1> SUFFICES ASSUME NEW k \in Matches, NEW s \in Sides, NEW t \in Teams, At(t, k, s)'
             PROVE  Lost(t)' = Defeats(k, s)
  BY DEF DefeatsCounted
<1>3. Lost(t)' = Lost(t) + (IF t \in TeamsOf(V, m) /\ t # w THEN 1 ELSE 0) /\ Lost(t) \in Nat
  BY LostAfter, LostIsCount
<1>4. CASE k # m /\ At(t, k, s)
  <2>1. t \notin TeamsOf(V, m)
    BY <1>2, <1>4
  <2>2. Lost(t) = Defeats(k, s)
    BY <1>4 DEF Championship, DefeatsCounted
  <2> QED BY <1>3, <2>1, <2>2
<1>5. ASSUME NEW l \in FeedsFrom(m), l.target = k, l.side = s, Leaving(V, l, w) = t
      PROVE  Lost(t)' = Defeats(k, s)
  <2>1. w \in TeamsOf(V, m)
    BY <1>1, <1>5
  <2>2. t \in TeamsOf(V, m) /\ (t = w <=> l.outcome = "winner")
    BY <1>2, <1>5, <2>1, TeamsLeave
  <2>3. PICK r \in Sides : At(t, m, r)
    BY <1>2, <2>2
  <2>4. Lost(t) = Defeats(m, r)
    BY <2>3 DEF Championship, DefeatsCounted
  <2>5. l \in Feeds /\ l.source = m /\ l.outcome \in {"winner", "loser"}
    BY BracketAssumption DEF BracketAssumption, FeedsFrom
  <2>6. Defeats(k, s) = Defeats(m, r) + (IF l.outcome = "loser" THEN 1 ELSE 0)
    BY <1>5, <2>5, DefeatsAreRight DEF DefeatsAdd
  <2> QED BY <1>3, <2>2, <2>4, <2>5, <2>6
<1>6. CASE Repeats(V, m, w) /\ k = GF2 /\ slot[V][m][s] = t
  <2>1. m = GF1 /\ w = slot[V][m]["away"] /\ m = Last /\ Format = "double"
    BY <1>1, <1>6, LastIsRight, ToMatches DEF Repeats, LastIsGrandFinal
  <2>2. Defeats(Last, "home") = 0 /\ Defeats(Last, "away") = 1
    BY <2>1, DefeatsAreRight DEF DefeatsAdd
  <2>3. Defeats(k, s) = 1
    BY <1>6 DEF Defeats
  <2>4. t \in TeamsOf(V, m)
    BY <1>6 DEF TeamsOf
  <2>5. CASE s = "home"
    BY <1>2, <1>3, <1>6, <2>1, <2>2, <2>3, <2>4, <2>5
  <2>6. CASE s = "away"
    BY <1>2, <1>3, <1>6, <2>1, <2>2, <2>3, <2>4, <2>6
  <2> QED BY <2>5, <2>6
<1> QED BY <1>4, <1>5, <1>6, PlacesAfter

\* Who leaves a match is nowhere else.
LEMMA OnePlaceAfter ==
    ASSUME NEW m, NEW w, NEW final, Report(m, w, final)
    PROVE  OnePlace'
<1> USE DEF Report
<1>1. /\ IsOpen(m) /\ NoTeam \notin TeamsOf(V, m)
      /\ \A l \in FeedsFrom(m) : w # NoTeam
      /\ Repeats(V, m, w) => GF2 \in Matches
  BY Filed DEF Playing
<1>2. /\ slot[V][m]["home"] # slot[V][m]["away"]
      /\ \A t \in TeamsOf(V, m), k \in Matches, r \in Sides : At(t, k, r) => k = m
  BY <1>1, TheTwoTeams
<1> SUFFICES ASSUME NEW k \in Matches, NEW s \in Sides, NEW j \in Matches, NEW r \in Sides,
                    NEW t \in Teams, At(t, k, s)', At(t, j, r)'
             PROVE  k = j /\ s = r
  BY DEF OnePlace
<1>3. \A x \in Matches, y \in Sides : At(t, x, y)' <=>
        \/ x # m /\ At(t, x, y)
        \/ \E l \in FeedsFrom(m) : l.target = x /\ l.side = y /\ Leaving(V, l, w) = t
        \/ Repeats(V, m, w) /\ x = GF2 /\ slot[V][m][y] = t
  BY PlacesAfter
<1>4. \A l \in FeedsFrom(m) : Leaving(V, l, w) = t =>
        t \in TeamsOf(V, m) /\ (t = w <=> l.outcome = "winner")
  BY <1>1, <1>2, TeamsLeave
<1>5. CASE t \notin TeamsOf(V, m)
  <2>1. \A y \in Sides : slot[V][m][y] # t
    BY <1>5 DEF TeamsOf
  <2>2. At(t, k, s) /\ At(t, j, r)
    BY <1>3, <1>4, <1>5, <2>1
  <2> QED BY <2>2 DEF Championship, OnePlace
<1>6. CASE t \in TeamsOf(V, m) /\ FeedsFrom(m) # {}
  <2>1. ~Repeats(V, m, w)
    BY <1>1, <1>6, LastIsRight, LinksAreRight, ToMatches DEF Repeats, LastIsGrandFinal, LinksInTurn
  <2>2. PICK l \in FeedsFrom(m) : l.target = k /\ l.side = s /\ Leaving(V, l, w) = t
    BY <1>2, <1>3, <1>6, <2>1
  <2>3. PICK n \in FeedsFrom(m) : n.target = j /\ n.side = r /\ Leaving(V, n, w) = t
    BY <1>2, <1>3, <1>6, <2>1
  <2>4. /\ l \in Feeds /\ n \in Feeds /\ l.source = m /\ n.source = m
        /\ l.outcome \in {"winner", "loser"} /\ n.outcome \in {"winner", "loser"}
    BY BracketAssumption DEF BracketAssumption, FeedsFrom
  <2>5. l.outcome = n.outcome
    BY <1>4, <2>2, <2>3, <2>4
  <2>6. l = n
    BY <2>4, <2>5, LinksAreRight DEF LinksInTurn
  <2> QED BY <2>2, <2>3, <2>6
<1>7. CASE t \in TeamsOf(V, m) /\ FeedsFrom(m) = {}
  <2>1. /\ k = GF2 /\ slot[V][m][s] = t
        /\ j = GF2 /\ slot[V][m][r] = t
    BY <1>2, <1>3, <1>7
  <2> QED BY <1>2, <2>1
<1> QED BY <1>5, <1>6, <1>7

\* Who leaves a match and is still alive goes on.
LEMMA AliveAfter ==
    ASSUME NEW m, NEW w, NEW final, Report(m, w, final)
    PROVE  AliveHasPlace'
<1> USE DEF Report
<1>1. /\ IsOpen(m) /\ NoTeam \notin TeamsOf(V, m)
      /\ m \in {GF1, GF2} => w # NoTeam
      /\ \A l \in FeedsFrom(m) : w # NoTeam
  BY Filed DEF Playing
<1>2. /\ TeamsOf(V, m) \subseteq Teams /\ slot[V][m]["home"] # slot[V][m]["away"]
      /\ \A s \in Sides : Lost(slot[V][m][s]) = Defeats(m, s)
      /\ \A t \in Teams : t \in TeamsOf(V, m) <=> \E s \in Sides : At(t, m, s)
  BY <1>1, TheTwoTeams
<1> SUFFICES ASSUME ~Over', NEW t \in Teams, Lost(t)' < Lives
             PROVE  \E k \in Matches, s \in Sides : At(t, k, s)'
  BY DEF AliveHasPlace, Alive
<1>3. \A k \in Matches, s \in Sides : At(t, k, s)' <=>
        \/ k # m /\ At(t, k, s)
        \/ \E l \in FeedsFrom(m) : l.target = k /\ l.side = s /\ Leaving(V, l, w) = t
        \/ Repeats(V, m, w) /\ k = GF2 /\ slot[V][m][s] = t
  BY PlacesAfter
<1>4. /\ Lost(t)' = Lost(t) + (IF t \in TeamsOf(V, m) /\ t # w THEN 1 ELSE 0)
      /\ Lost(t) \in Nat /\ Lives \in Nat
  BY LostAfter, LostIsCount DEF Lives
<1>5. PICK k \in Matches, s \in Sides : At(t, k, s)
  <2>1. ~Over
    BY <1>1 DEF Over, IsOpen
  <2>2. Lost(t) < Lives
    BY <1>4
  <2> QED BY <2>1, <2>2 DEF Championship, AliveHasPlace, Alive
<1>6. CASE k # m
  BY <1>3, <1>5, <1>6
<1>7. CASE k = m /\ m \notin {Last, GF2}
  <2>1. t \in TeamsOf(V, m) /\ t = slot[V][m][s]
    BY <1>5, <1>7 DEF At, TeamsOf
  <2>2. GoesOn(m, "winner") /\ FeedsFrom(m) # {} /\ w \in TeamsOf(V, m)
    BY <1>1, <1>7, LinksAreRight DEF LinksInTurn, GoesOn, FeedsFrom
  <2>3. PICK outcome \in {"winner", "loser"} : GoesOn(m, outcome) /\ (t = w <=> outcome = "winner")
    <3>1. CASE t = w
      BY <2>2, <3>1
    <3>2. CASE t # w
      <4>1. Defeats(m, s) # Lives - 1
        BY <1>2, <1>4, <2>1, <3>2
      <4> QED BY <1>7, <3>2, <4>1, DefeatsAreRight DEF DefeatsAdd
    <3> QED BY <3>1, <3>2
  <2>4. PICK l \in FeedsFrom(m) : l.outcome = outcome
    BY <2>3 DEF GoesOn, FeedsFrom
  <2>5. Leaving(V, l, w) = t
    <3>1. l.source = m
      BY DEF FeedsFrom
    <3> QED BY <1>2, <2>1, <2>2, <2>3, <2>4, <3>1 DEF Leaving, LoserOf, TeamsOf
  <2>6. l.target \in Matches /\ l.side \in Sides
    BY BracketAssumption DEF BracketAssumption, FeedsFrom
  <2> QED BY <1>3, <2>5, <2>6
<1>8. CASE k = m /\ m \in {Last, GF2}
  <2>1. \A x \in Matches \ {m} : ~IsOpen(x)
    BY <1>1, <1>8, OnlyTheLast
  <2>2. V \in Versions
    BY BracketAssumption DEF BracketAssumption
  <2>3. status'[V][m] \in Closed
    BY <2>2, BracketAssumption, FileEffect DEF Playing
  <2>4. Repeats(V, m, w)
    <3> SUFFICES ASSUME ~Repeats(V, m, w) PROVE FALSE
      OBVIOUS
    <3>1. \A x \in Matches \ {m} : status'[V][x] = status[V][x]
      BY <2>2, BracketAssumption, ResetEffect DEF Playing
    <3> QED BY <2>1, <2>3, <3>1 DEF Over, IsOpen
  <2>5. GF2 \in Matches
    BY <2>4, Filed DEF Playing
  <2>6. slot[V][m][s] = t
    BY <1>5, <1>8 DEF At
  <2> QED BY <1>3, <2>4, <2>5, <2>6
<1> QED BY <1>6, <1>7, <1>8

\* The report of the last match leaves one team alive.
LEMMA ChampionAfter ==
    ASSUME NEW m, NEW w, NEW final, Report(m, w, final)
    PROVE  OneChampion'
<1> USE DEF Report
<1>1. /\ IsOpen(m) /\ NoTeam \notin TeamsOf(V, m)
      /\ m \in {GF1, GF2} => w # NoTeam
      /\ \A l \in FeedsFrom(m) : IsOpen(l.target)
  BY Filed DEF Playing
<1>2. /\ TeamsOf(V, m) \subseteq Teams /\ slot[V][m]["home"] # slot[V][m]["away"]
      /\ \A s \in Sides : Lost(slot[V][m][s]) = Defeats(m, s)
      /\ \A t \in Teams : t \in TeamsOf(V, m) <=> \E s \in Sides : At(t, m, s)
  BY <1>1, TheTwoTeams
<1>3. V \in Versions
  BY BracketAssumption DEF BracketAssumption
<1>4. /\ status'[V][m] \in Closed /\ winner'[V][m] = w
      /\ \A k \in Matches \ {m} :
           /\ winner'[V][k] = winner[V][k]
           /\ IsOpen(k) => status'[V][k] = "scheduled"
  BY <1>3, BracketAssumption, FileEffect DEF Playing, IsOpen
<1> SUFFICES ASSUME Over'
             PROVE  Cardinality(Alive') = IF Format = "single" /\ \E k \in Matches : winner'[V][k] = NoTeam
                                          THEN 0 ELSE 1
  BY DEF OneChampion
<1>5. m \in {Last, GF2}
  <2> SUFFICES ASSUME m \notin {Last, GF2} PROVE FALSE
    OBVIOUS
  <2>1. PICK l \in FeedsFrom(m) : TRUE
    BY LinksAreRight DEF LinksInTurn, GoesOn, FeedsFrom
  <2>2. l.target \in Matches /\ l.target # m
    BY BracketAssumption DEF BracketAssumption, FeedsFrom
  <2> QED BY <1>1, <1>4, <2>1, <2>2 DEF Over
<1>6. \A k \in Matches \ {m} : ~IsOpen(k) /\ (k \notin {Last, GF2} => IsClosed(V, k))
  BY <1>1, <1>5, OnlyTheLast
<1>7. ~Repeats(V, m, w)
  BY <1>3, BracketAssumption, Filed, ResetEffect DEF Over, Playing
<1>8. Format \in {"single", "double"} /\ Lives = IF Format = "single" THEN 1 ELSE 2
  BY DrawnAssumption DEF Lives
<1>9. \A t \in Teams : /\ Lost(t)' = Lost(t) + (IF t \in TeamsOf(V, m) /\ t # w THEN 1 ELSE 0)
                       /\ Lost(t) \in Nat
  BY LostAfter, LostIsCount
<1>10. \A t \in Teams \ TeamsOf(V, m) : ~(Lost(t)' < Lives)
  <2> SUFFICES ASSUME NEW t \in Teams \ TeamsOf(V, m), Lost(t) < Lives PROVE FALSE
    BY <1>9
  <2>1. ~Over
    BY <1>1 DEF Over, IsOpen
  <2>2. PICK k \in Matches, s \in Sides : At(t, k, s)
    BY <2>1 DEF Championship, AliveHasPlace, Alive
  <2>3. k = m
    BY <1>6, <2>2 DEF At
  <2> QED BY <1>2, <2>2, <2>3
<1>11. GF2 \in Matches => Format = "double"
  BY ToMatches
<1>12. ASSUME NEW s \in Sides, slot[V][m][s] # w
       PROVE  Defeats(m, s) = Lives - 1
  <2>1. CASE Format = "single"
    BY <1>8, <2>1, DefeatsAreRight DEF DefeatsAdd
  <2>2. CASE m = GF2
    BY <1>8, <1>11, <2>2 DEF Defeats
  <2>3. CASE Format = "double" /\ m = Last
    <3>1. m = GF1 /\ Defeats(m, "away") = 1
      BY <2>3, LastIsRight, DefeatsAreRight DEF LastIsGrandFinal, DefeatsAdd
    <3>2. w # slot[V][m]["away"] /\ w \in TeamsOf(V, m)
      BY <1>1, <1>7, <3>1 DEF Repeats
    <3>3. s = "away"
      BY <1>12, <3>2 DEF TeamsOf
    <3> QED BY <1>8, <2>3, <3>1, <3>3
  <2> QED BY <1>5, <1>8, <2>1, <2>2, <2>3
<1>13. \A t \in TeamsOf(V, m) : Lost(t)' < Lives <=> t = w
  <2> TAKE t \in TeamsOf(V, m)
  <2>1. PICK s \in Sides : t = slot[V][m][s]
    BY DEF TeamsOf
  <2>2. t \in Teams /\ Lost(t) = Defeats(m, s) /\ Defeats(m, s) \in 0 .. Lives - 1
    BY <1>2, <2>1, DefeatsAreRight DEF DefeatsAdd
  <2>3. CASE t = w
    BY <1>8, <1>9, <2>2, <2>3
  <2>4. CASE t # w
    BY <1>8, <1>9, <1>12, <2>1, <2>2, <2>4
  <2> QED BY <2>3, <2>4
<1>14. Alive' = {t \in Teams : Lost(t)' < Lives}
  BY DEF Alive
<1>15. CASE w = NoTeam
  <2>1. Format = "single"
    BY <1>1, <1>5, <1>8, <1>15, LastIsRight DEF LastIsGrandFinal
  <2>2. Alive' = {}
    BY <1>1, <1>10, <1>13, <1>14, <1>15
  <2>3. Cardinality(Alive') = 0
    BY <2>2, FS_EmptySet
  <2> QED BY <1>4, <1>15, <2>1, <2>3
<1>16. CASE w # NoTeam
  <2>1. Alive' = {w}
    BY <1>2, <1>10, <1>13, <1>14, <1>16
  <2>2. Cardinality(Alive') = 1
    BY <2>1, FS_Singleton
  <2>3. ASSUME Format = "single", NEW k \in Matches, winner'[V][k] = NoTeam
        PROVE  FALSE
    <3>1. k # m /\ winner[V][k] = NoTeam
      BY <1>4, <1>16, <2>3
    <3>2. k \notin {Last, GF2}
      BY <1>5, <1>11, <2>3, <3>1
    <3>3. IsClosed(V, k) /\ FeedsFrom(k) # {}
      BY <1>6, <3>1, <3>2, LinksAreRight DEF LinksInTurn, GoesOn, FeedsFrom
    <3> QED BY <3>1, <3>3 DEF Playing, ClosedIsFull
  <2> QED BY <2>2, <2>3
<1> QED BY <1>15, <1>16

\* The count of the defeats is kept in the drawn version at every step.
LEMMA AlwaysChampionship == Spec => []Championship
<1>0. V \in Versions
  BY BracketAssumption DEF BracketAssumption
<1>1. Playing /\ Init => Championship
  <2>1. Init => status[V] = DrawnStatus /\ slot[V] = Direct
    BY <1>0 DEF Init
  <2> QED BY <2>1, ChampionshipDrawn DEF Playing
<1>2. Playing /\ Playing' /\ Championship /\ [Next]_vars => Championship'
  <2> SUFFICES ASSUME Playing, Playing', Championship, [Next]_vars
               PROVE  Championship'
    OBVIOUS
  <2>1. CASE status'[V] = status[V] /\ slot'[V] = slot[V] /\ winner'[V] = winner[V]
    <3> USE <2>1
    <3>1. \A t : Lost(t)' = Lost(t)
      BY DEF Lost, IsClosed, TeamsOf
    <3>2. \A t, m, s : At(t, m, s)' <=> At(t, m, s)
      BY DEF At, IsOpen
    <3>3. (Over' <=> Over) /\ Alive' = Alive
      BY <3>1 DEF Over, Alive
    <3>4. DefeatsCounted' /\ OnePlace'
      BY <3>1, <3>2 DEF Championship, DefeatsCounted, OnePlace
    <3>5. AliveHasPlace'
      BY <3>2, <3>3 DEF Championship, AliveHasPlace
    <3>6. OneChampion'
      BY <3>3 DEF Championship, OneChampion
    <3> QED BY <3>4, <3>5, <3>6 DEF Championship
  <2>2. CASE status'[V] = DrawnStatus /\ slot'[V] = Direct
    <3>1. (TypeOK /\ status[V] = DrawnStatus /\ slot[V] = Direct => Championship)'
      BY ChampionshipDrawn, PTL
    <3> QED BY <2>2, <3>1 DEF Playing
  <2>3. ASSUME NEW m \in Matches, NEW w \in TeamsOf(V, m) \cup {NoTeam}, NEW final \in Closed,
               Filing(V, m, w, final)
        PROVE  Championship'
    <3>1. Report(m, w, final)
      BY <2>3 DEF Report
    <3> QED BY <3>1, DefeatsAfter, OnePlaceAfter, AliveAfter, ChampionAfter DEF Championship
  <2> QED BY <2>1, <2>2, <2>3, StepOfDrawn DEF Playing
<1> QED BY <1>1, <1>2, AlwaysPlaying, PTL DEF Spec

\* Every bracket that is drawn, single or double, of any number of teams, ends with
\* one champion: until it is over the teams that may still win are those in an open
\* match, each in one, and whoever has lost all its lives is in none.
THEOREM ChampionInTheEnd == Spec => []EndsWithOneChampion
<1>1. ASSUME Playing, Championship
      PROVE  AliveIffPlaying
  <2> SUFFICES ASSUME NEW t \in Teams
               PROVE  Cardinality(InOpenMatch(t)) = IF t \in Alive /\ ~Over THEN 1 ELSE 0
    BY DEF AliveIffPlaying
  <2>1. \A m \in Matches : m \in InOpenMatch(t) <=> \E s \in Sides : At(t, m, s)
    BY DEF InOpenMatch, At, IsOpen, TeamsOf
  <2>2. InOpenMatch(t) \subseteq Matches
    BY DEF InOpenMatch
  <2>3. CASE t \in Alive /\ ~Over
    <3>1. PICK m \in Matches, s \in Sides : At(t, m, s)
      BY <1>1, <2>3 DEF Championship, AliveHasPlace
    <3>2. InOpenMatch(t) = {m}
      BY <1>1, <2>1, <2>2, <3>1 DEF Championship, OnePlace
    <3> QED BY <2>3, <3>2, FS_Singleton
  <2>4. CASE ~(t \in Alive /\ ~Over)
    <3>1. ASSUME NEW m \in Matches, NEW s \in Sides, At(t, m, s)
          PROVE  FALSE
      <4>1. ~Over
        BY <3>1 DEF Over, At, IsOpen
      <4>2. Lost(t) = Defeats(m, s) /\ Defeats(m, s) \in 0 .. Lives - 1 /\ Lives \in Nat
        BY <1>1, <3>1, DefeatsAreRight DEF Championship, DefeatsCounted, DefeatsAdd, Lives
      <4> QED BY <2>4, <4>1, <4>2 DEF Alive
    <3>2. InOpenMatch(t) = {}
      BY <2>1, <2>2, <3>1
    <3> QED BY <2>4, <3>2, FS_EmptySet
  <2> QED BY <2>3, <2>4
<1>2. Playing /\ Championship => EndsWithOneChampion
  BY <1>1 DEF EndsWithOneChampion, Playing, Championship
<1> QED BY <1>2, AlwaysPlaying, AlwaysChampionship, PTL
==============================================================================
