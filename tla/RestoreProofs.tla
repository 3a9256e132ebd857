---------------------------- MODULE RestoreProofs ----------------------------
(***************************************************************************)
(* What holds of Restore for every set of directory entries, every archive *)
(* and every number of faults and crashes.                                 *)
(***************************************************************************)
EXTENDS Restore, SequenceTheorems, TLAPS

USE RestoreAssumption

Contents == {"none", "old", "new", "empty", "rest"}
Steps == {"stopped", "extract", "move", "install", "discard", "uninstall", "putback"}

(* The part of the type invariant that the argument needs.                 *)
DataTypes ==
    /\ live \in [Items -> Contents] /\ aside \in [Items -> Contents]
    /\ staged \in [Items -> {"none", "new"}]
    /\ moved \in Seq(Items) /\ installed \in Seq(Items)
    /\ pc \in Steps /\ stage \in 1..5
    /\ swapped \in BOOLEAN

(* What was moved aside is on the list of what the undo puts back, and      *)
(* between two attempts nothing is aside.                                  *)
AsideIsMoved ==
    /\ pc \in {"extract", "move", "install", "uninstall"} =>
         \A i \in Items : Holds(aside, i) => \E n \in 1..Len(moved) : moved[n] = i
    /\ pc = "extract" \/ (pc = "stopped" /\ outcome # "done") => aside = Nothing

(* No rest is in the archive, so none is ever installed or removed by the  *)
(* undo, and none was there before the first attempt.                      *)
RestsAreOld ==
    /\ archive.entries \cap Rests = {}
    /\ \A r \in Rests : origin[r] = "none"
    /\ \A r \in Rests : staged[r] = "none"
    /\ \A n \in 1..Len(installed) : installed[n] \notin Rests

(* What the undo removes was never there before the attempt.               *)
InstalledIsNew ==
    /\ \A n \in 1..Len(installed) : live[installed[n]] \in {"new", "none"}
    /\ pc \in {"stopped", "putback"} => installed = <<>>

(* Nothing is moved to a rollback path that is taken, and nothing is       *)
(* installed at a path that is taken.                                      *)
PlacesAreFree ==
    /\ pc \in {"move", "install"} =>
         \A n \in stage+1..5 : \A i \in Members[Stages[n]] : ~Holds(aside, i)
    /\ pc = "move" => \A i \in In : Holds(aside, i) => ~Holds(live, i)
    /\ pc = "install" => \A i \in In : Holds(staged, i) => ~Holds(live, i)

(* Rollback paths are only discarded once everything is installed.         *)
DiscardIsLast == pc = "discard" => swapped

Inv == /\ DataTypes /\ AsideIsMoved /\ RestsAreOld /\ InstalledIsNew /\ PlacesAreFree
       /\ DiscardIsLast /\ OldIsKept

----------------------------------------------------------------------------
(* Lemmas about the helpers                                                *)

(* Every entry belongs to one stage.                                       *)
LEMMA StagesAreApart ==
    /\ \A n \in 1..5 : Members[Stages[n]] \subseteq Items
    /\ \A m, n \in 1..5 : m # n => Members[Stages[m]] \cap Members[Stages[n]] = {}
    /\ Len(Stages) = 5
<1>1. /\ Members[Stages[1]] = Sidecars /\ Members[Stages[2]] = {"db"}
      /\ Members[Stages[3]] = {"secrets"}
      /\ Members[Stages[4]] = AssetChildren \cup {"assets_rest"}
      /\ Members[Stages[5]] = RunChildren \cup {"runs_rest"}
  BY DEF Members, Stages
<1>2. \A n \in 1..5 : n = 1 \/ n = 2 \/ n = 3 \/ n = 4 \/ n = 5
  OBVIOUS
<1>3. \A n \in 1..5 : Members[Stages[n]] \subseteq Items
  BY <1>1, <1>2 DEF Items, Sidecars, Rests
<1>4. \A m, n \in 1..5 : m < n => Members[Stages[m]] \cap Members[Stages[n]] = {}
  <2> SUFFICES ASSUME NEW m \in 1..5, NEW n \in 1..5, m < n
               PROVE  Members[Stages[m]] \cap Members[Stages[n]] = {}
    OBVIOUS
  <2>1. CASE m = 1
    BY <1>1, <1>2, <2>1 DEF Sidecars, RestoreAssumption
  <2>2. CASE m = 2
    BY <1>1, <1>2, <2>2 DEF RestoreAssumption
  <2>3. CASE m = 3
    BY <1>1, <1>2, <2>3 DEF RestoreAssumption
  <2>4. CASE m = 4
    BY <1>1, <1>2, <2>4 DEF RestoreAssumption
  <2> QED
    BY <2>1, <2>2, <2>3, <2>4
<1>5. Len(Stages) = 5
  BY DEF Stages
<1> QED
  BY <1>3, <1>4, <1>5

(* The next stage in the scope is a later one.                             *)
LEMMA NextStage ==
    ASSUME stage \in 1..5, Later # {}
    PROVE  (CHOOSE n \in Later : \A m \in Later : n <= m) \in stage+1..5
<1>1. Later \subseteq stage+1..5
  BY StagesAreApart DEF Later
<1>2. \E n \in Later : \A m \in Later : n <= m
  <2>1. CASE 2 \in Later
    BY <1>1, <2>1
  <2>2. CASE 2 \notin Later /\ 3 \in Later
    BY <1>1, <2>2
  <2>3. CASE 2 \notin Later /\ 3 \notin Later /\ 4 \in Later
    BY <1>1, <2>3
  <2>4. CASE 2 \notin Later /\ 3 \notin Later /\ 4 \notin Later
    <3>1. \A m \in Later : m = 5
      BY <1>1, <2>4
    <3> QED
      BY <3>1
  <2> QED
    BY <2>1, <2>2, <2>3, <2>4
<1> QED
  BY <1>1, <1>2

(* What exists is kept when the secret store is created.                   *)
LEMMA EnsuredKeeps ==
    ASSUME NEW content \in [Items -> Contents]
    PROVE  /\ Ensured(content) \in [Items -> Contents]
           /\ \A i \in Items : content[i] # "none" => Ensured(content)[i] = content[i]
BY DEF Ensured, Contents, Items

(* Nothing holds no entry.                                                 *)
LEMMA NothingType == Nothing \in [Items -> Contents] /\ Nothing \in [Items -> {"none", "new"}]
                     /\ \A i \in Items : ~Holds(Nothing, i)
BY DEF Nothing, Contents, Holds

(* A rest is an entry of its root and none of the others.                  *)
LEMMA RestsHere ==
    /\ Rests \subseteq Items
    /\ Rests \cap (Sidecars \cup {"db", "secrets"}) = {}
    /\ \A r \in Rests : r \in Root[r] /\ Root[r] \subseteq Items
<1>1. Rests \subseteq Items /\ Rests \cap (Sidecars \cup {"db", "secrets"}) = {}
  BY DEF Rests, Items, Sidecars
<1>2. /\ Root["assets_rest"] = AssetChildren \cup {"assets_rest"}
      /\ Root["runs_rest"] = RunChildren \cup {"runs_rest"}
  BY DEF Root, Members
<1> QED
  BY <1>1, <1>2 DEF Rests, Items

(* A rest is in the scope when another entry of its root is.               *)
LEMMA RootScope ==
    \A r \in Rests : \E n \in 1..5 : Root[r] = Members[Stages[n]]
<1>1. /\ Root["assets_rest"] = Members[Stages[4]]
      /\ Root["runs_rest"] = Members[Stages[5]]
  BY DEF Root, Members, Stages
<1>2. \A r \in Rests : r = "assets_rest" \/ r = "runs_rest"
  BY DEF Rests
<1> QED
  BY <1>1, <1>2

(* A root gets a rest, and nothing else changes.                           *)
LEMMA LitteredKeeps ==
    ASSUME NEW content \in [Items -> Contents], NEW rests \in SUBSET Rests
    PROVE  /\ Littered(content, rests) \in [Items -> Contents]
           /\ \A i \in Items : i \notin rests => Littered(content, rests)[i] = content[i]
           /\ \A r \in rests : Littered(content, rests)[r] = "rest"
           /\ \A i \in Items : Holds(content, i) => Holds(Littered(content, rests), i)
BY RestsHere DEF Littered, Contents, Holds

(* What the first or the last element of a list leaves of it.              *)
LEMMA Shorter ==
    ASSUME NEW s \in Seq(Items), s # <<>>
    PROVE  /\ Head(s) \in Items /\ Tail(s) \in Seq(Items)
           /\ Last(s) \in Items /\ Front(s) \in Seq(Items)
           /\ \A i \in Items : i # Head(s) /\ (\E n \in 1..Len(s) : s[n] = i)
                                 => \E n \in 1..Len(Tail(s)) : Tail(s)[n] = i
           /\ \A i \in Items : i # Last(s) /\ (\E n \in 1..Len(s) : s[n] = i)
                                 => \E n \in 1..Len(Front(s)) : Front(s)[n] = i
           /\ \A n \in 1..Len(Front(s)) : Front(s)[n] = s[n] /\ n \in 1..Len(s)
           /\ \E n \in 1..Len(s) : Last(s) = s[n]
           /\ Len(Front(s)) = Len(s) - 1
<1>1. Len(s) \in Nat \ {0}
  BY EmptySeq
<1>2. /\ Head(s) = s[1] /\ Tail(s) \in Seq(Items) /\ Len(Tail(s)) = Len(s) - 1
      /\ \A n \in 1..Len(Tail(s)) : Tail(s)[n] = s[n+1]
  BY <1>1, HeadTailProperties
<1>3. /\ Front(s) \in Seq(Items) /\ Len(Front(s)) = Len(s) - 1
      /\ \A n \in 1..Len(Front(s)) : Front(s)[n] = s[n]
  <2>1. \A n \in 1..Len(s)-1 : s[n] \in Items
    BY <1>1
  <2>2. Front(s) = SubSeq(s, 1, Len(s)-1)
    BY DEF Front
  <2>3. \A n \in 1..Len(s)-1 : n \in 1..Len(s)
    BY <1>1
  <2>4. SubSeq(s, 1, Len(s)-1) = [n \in 1..Len(s)-1 |-> s[n]]
    BY <1>1
  <2>5. [n \in 1..Len(s)-1 |-> s[n]] \in Seq(Items)
    BY <1>1, <2>1
  <2>6. Len([n \in 1..Len(s)-1 |-> s[n]]) = Len(s) - 1
    BY <1>1
  <2> QED
    BY <2>2, <2>4, <2>5, <2>6
<1>4. Last(s) = s[Len(s)]
  BY DEF Last
<1>5. ASSUME NEW i \in Items, i # Head(s), NEW n \in 1..Len(s), s[n] = i
      PROVE  \E k \in 1..Len(Tail(s)) : Tail(s)[k] = i
  <2>1. n - 1 \in 1..Len(Tail(s)) /\ Tail(s)[n-1] = i
    BY <1>1, <1>2, <1>5
  <2> QED
    BY <2>1
<1>6. ASSUME NEW i \in Items, i # Last(s), NEW n \in 1..Len(s), s[n] = i
      PROVE  \E k \in 1..Len(Front(s)) : Front(s)[k] = i
  BY <1>1, <1>3, <1>4, <1>6
<1> QED
  BY <1>1, <1>2, <1>3, <1>4, <1>5, <1>6

----------------------------------------------------------------------------
(* One lemma for each group of actions                                     *)

(* Before the first attempt.                                               *)
LEMMA InitInv == Init => Inv
<1> SUFFICES ASSUME Init PROVE Inv
  OBVIOUS
<1>1. live \in [Items -> Contents]
  <2>1. PICK present \in SUBSET (Items \ Rests) :
          origin = [i \in Items |-> IF i \in present THEN "old" ELSE "none"]
    BY DEF Init
  <2>2. origin \in [Items -> Contents]
    BY <2>1 DEF Contents
  <2> QED
    BY <2>2 DEF Init
<1>2. DataTypes
  <2>1. /\ aside = Nothing /\ staged = Nothing /\ moved = <<>> /\ installed = <<>>
        /\ pc = "stopped" /\ stage = 1 /\ swapped = FALSE
    BY DEF Init
  <2>2. <<>> \in Seq(Items)
    BY EmptySeq
  <2>3. pc \in Steps /\ stage \in 1..5 /\ swapped \in BOOLEAN
    <3>1. swapped \in BOOLEAN
      BY <2>1, Zenon
    <3>2. pc \in Steps /\ stage \in 1..5
      BY <2>1 DEF Steps
    <3> QED
      BY <3>1, <3>2
  <2>4. moved \in Seq(Items) /\ installed \in Seq(Items)
    BY <2>1, <2>2
  <2>5. aside \in [Items -> Contents] /\ staged \in [Items -> {"none", "new"}]
    BY <2>1, NothingType
  <2> QED
    BY <1>1, <2>3, <2>4, <2>5 DEF DataTypes
<1>3. AsideIsMoved
  BY NothingType DEF Init, AsideIsMoved
<1>4. InstalledIsNew /\ PlacesAreFree /\ DiscardIsLast
  BY DEF Init, InstalledIsNew, PlacesAreFree, DiscardIsLast
<1>6. RestsAreOld
  <2>1. archive.entries \cap Rests = {}
    BY DEF Init, Archives
  <2>2. \A r \in Rests : origin[r] = "none"
    BY RestsHere DEF Init
  <2> QED
    BY <2>1, <2>2, RestsHere, EmptySeq DEF Init, RestsAreOld, Nothing
<1>5. OldIsKept
  BY DEF Init, OldIsKept, Holds
<1> QED
  BY <1>2, <1>3, <1>4, <1>5, <1>6 DEF Inv

(* A step after which the old contents and the rests are where they were.  *)
LEMMA SamePlaces ==
    ASSUME OldIsKept, UNCHANGED origin, swapped' = swapped, left \subseteq left',
           \A i \in Items \ Sidecars :
              "old" \in {live[i], aside[i]} => "old" \in {live'[i], aside'[i]} \/ IsLeft(i)',
           \A r \in Rests : Holds(live, r) \/ Holds(aside, r) => Holds(live', r) \/ Holds(aside', r)
    PROVE  OldIsKept'
BY DEF OldIsKept, Holds, IsLeft

(* A step that installs nothing keeps the rests out of it.                 *)
LEMMA SameRests ==
    ASSUME RestsAreOld, UNCHANGED <<archive, origin, staged>>, installed' = installed \/ installed' = <<>>
    PROVE  RestsAreOld'
BY EmptySeq DEF RestsAreOld

(* An attempt begins, or is refused: the secret store may be created.      *)
LEMMA BeginInv == Inv /\ (Begin \/ Refuse) => Inv'
<1> SUFFICES ASSUME Inv, Begin \/ Refuse PROVE Inv'
  OBVIOUS
<1> USE DEF Inv
<1>1. /\ pc = "stopped" /\ pc' \in {"extract", "stopped"} /\ live' = Ensured(live)
      /\ aside = Nothing
      /\ UNCHANGED <<archive, origin, aside, staged, moved, installed, stage, left, swapped>>
  BY DEF Begin, Refuse, At, fixed, AsideIsMoved
<1>2. live' \in [Items -> Contents] /\ \A i \in Items : live[i] # "none" => live'[i] = live[i]
  BY <1>1, EnsuredKeeps DEF DataTypes
<1>3. DataTypes'
  BY <1>1, <1>2 DEF DataTypes, Steps
<1>4. AsideIsMoved'
  BY <1>1, NothingType DEF AsideIsMoved
<1>5. installed = <<>>
  BY <1>1 DEF InstalledIsNew
<1>6. InstalledIsNew' /\ PlacesAreFree' /\ DiscardIsLast' /\ RestsAreOld'
  BY <1>1, <1>5, EmptySeq, SameRests DEF InstalledIsNew, PlacesAreFree, DiscardIsLast
<1>7. OldIsKept'
  BY <1>1, <1>2, RestsHere, SamePlaces DEF Holds
<1> QED
  BY <1>3, <1>4, <1>6, <1>7

(* Only new contents are staged.                                           *)
LEMMA ExtractInv == Inv /\ Extract => Inv'
<1> SUFFICES ASSUME Inv, Extract PROVE Inv'
  OBVIOUS
<1> USE DEF Inv
<1>1. /\ pc = "extract" /\ pc' = "move" /\ staged' \in [Items -> {"none", "new"}]
      /\ staged' = Packed
      /\ UNCHANGED <<archive, origin, live, aside, moved, installed, stage, left, swapped>>
  BY DEF Extract, At, fixed, Packed
<1>2. \A i \in Items : ~Holds(aside, i)
  BY <1>1, NothingType DEF AsideIsMoved
<1>3. DataTypes'
  BY <1>1 DEF DataTypes, Steps
<1>4. AsideIsMoved' /\ InstalledIsNew' /\ DiscardIsLast'
  BY <1>1 DEF AsideIsMoved, InstalledIsNew, DiscardIsLast, Holds
<1>5. PlacesAreFree'
  BY <1>1, <1>2, StagesAreApart DEF PlacesAreFree, In, Holds, DataTypes
<1>6. OldIsKept'
  BY <1>1, SamePlaces DEF Holds
<1>7. RestsAreOld'
  BY <1>1, RestsHere DEF RestsAreOld, Packed
<1> QED
  BY <1>3, <1>4, <1>5, <1>6, <1>7

(* The rollback path was free, so nothing is overwritten.                  *)
LEMMA MoveInv == ASSUME NEW i \in Items, Inv, Move(i) PROVE Inv'
<1> USE DEF Inv
<1>1. /\ pc = "move" /\ i \in In /\ live[i] # "none"
      /\ aside' = [aside EXCEPT ![i] = live[i]] /\ live' = [live EXCEPT ![i] = "none"]
      /\ moved' = Append(moved, i)
      /\ UNCHANGED <<archive, origin, staged, installed, pc, stage, left, swapped>>
  BY DEF Move, At, ToMove, Holds, fixed
<1>2. aside[i] = "none"
  BY <1>1 DEF PlacesAreFree, Holds
<1>3. /\ moved' \in Seq(Items) /\ Len(moved') = Len(moved) + 1 /\ moved'[Len(moved')] = i
      /\ \A n \in 1..Len(moved) : moved'[n] = moved[n]
  BY <1>1, AppendProperties DEF DataTypes
<1>4. DataTypes'
  BY <1>1, <1>3 DEF DataTypes, Contents
<1>5. AsideIsMoved'
  <2>1. ASSUME NEW j \in Items, Holds(aside', j)
        PROVE  \E n \in 1..Len(moved') : moved'[n] = j
    <3> Len(moved) \in Nat
      BY LenProperties DEF DataTypes
    <3>1. CASE j = i
      BY <1>3, <3>1
    <3>2. CASE j # i
      <4>1. PICK n \in 1..Len(moved) : moved[n] = j
        BY <1>1, <2>1, <3>2 DEF AsideIsMoved, Holds, DataTypes
      <4> QED
        BY <1>3, <4>1
    <3> QED
      BY <3>1, <3>2
  <2> QED
    BY <1>1, <2>1 DEF AsideIsMoved
<1>6. InstalledIsNew' /\ DiscardIsLast' /\ RestsAreOld'
  BY <1>1, SameRests DEF InstalledIsNew, DiscardIsLast, DataTypes
<1>7. PlacesAreFree'
  <2>1. \A n \in stage+1..5 : i \notin Members[Stages[n]]
    BY <1>1, StagesAreApart DEF In, DataTypes
  <2>2. \A n \in stage+1..5 : \A j \in Members[Stages[n]] : ~Holds(aside', j)
    BY <1>1, <2>1, StagesAreApart DEF PlacesAreFree, Holds, DataTypes
  <2>3. \A j \in In : Holds(aside', j) => ~Holds(live', j)
    BY <1>1, StagesAreApart DEF PlacesAreFree, Holds, DataTypes, In
  <2> QED
    BY <1>1, <2>2, <2>3 DEF PlacesAreFree, In
<1>8. OldIsKept'
  <2>1. \A j \in Items : Holds(live, j) \/ Holds(aside, j) => Holds(live', j) \/ Holds(aside', j)
    BY <1>1 DEF DataTypes, Holds
  <2>2. \A j \in Items : "old" \in {live[j], aside[j]} => "old" \in {live'[j], aside'[j]}
    BY <1>1, <1>2 DEF DataTypes
  <2> QED
    BY <1>1, <2>1, <2>2, RestsHere, SamePlaces
<1> QED
  BY <1>4, <1>5, <1>6, <1>7, <1>8

(* From moving to installing, and on to the next stage.                    *)
LEMMA TurnInv == Inv /\ (AllMoved \/ AllInstalled) => Inv'
<1> SUFFICES ASSUME Inv, AllMoved \/ AllInstalled PROVE Inv'
  OBVIOUS
<1> USE DEF Inv
<1>1. UNCHANGED <<archive, origin, live, aside, staged, moved, installed, left>>
  BY DEF AllMoved, AllInstalled, fixed, data
<1>4. RestsAreOld'
  BY <1>1, SameRests
<1>2. CASE AllMoved
  <2>1. pc = "move" /\ pc' = "install" /\ UNCHANGED <<stage, swapped>> /\ ToMove = {}
    BY <1>2 DEF AllMoved, At
  <2>2. PlacesAreFree'
    BY <1>1, <2>1 DEF PlacesAreFree, In, Holds, ToMove
  <2>3. OldIsKept'
    BY <1>1, <2>1, SamePlaces DEF Holds
  <2> QED
    BY <1>1, <1>4, <2>1, <2>2, <2>3
       DEF DataTypes, Steps, AsideIsMoved, InstalledIsNew, DiscardIsLast, Holds
<1>3. CASE AllInstalled
  <2>1. /\ pc = "install" /\ swapped' = (swapped \/ Later = {})
        /\ \/ Later = {} /\ pc' = "discard" /\ UNCHANGED stage
           \/ Later # {} /\ pc' = "move" /\ stage' = CHOOSE n \in Later : \A m \in Later : n <= m
    BY <1>3 DEF AllInstalled, At
  <2>2. pc' = "move" => stage' \in stage+1..5
    BY <2>1, NextStage DEF DataTypes
  <2>3. DataTypes'
    BY <1>1, <2>1, <2>2 DEF DataTypes, Steps
  <2>4. AsideIsMoved' /\ InstalledIsNew' /\ DiscardIsLast'
    BY <1>1, <2>1 DEF AsideIsMoved, InstalledIsNew, DiscardIsLast, Holds
  <2>5. PlacesAreFree'
    <3>1. CASE pc' = "move"
      <4>1. /\ stage' \in stage+1..5
            /\ \A n \in stage'+1..5 : n \in stage+1..5
        BY <2>2, <3>1 DEF DataTypes
      <4>2. \A n \in stage+1..5 : \A i \in Members[Stages[n]] : aside[i] = "none"
        BY <2>1 DEF PlacesAreFree, Holds
      <4> QED
        BY <1>1, <3>1, <4>1, <4>2 DEF PlacesAreFree, In, Holds
    <3>2. CASE pc' = "discard"
      BY <3>2 DEF PlacesAreFree
    <3> QED
      BY <2>1, <3>1, <3>2
  <2>6. OldIsKept'
    BY <1>1, <2>1 DEF OldIsKept, IsLeft, Holds, DataTypes
  <2> QED
    BY <1>4, <2>3, <2>4, <2>5, <2>6
<1> QED
  BY <1>2, <1>3

(* The place was emptied, so nothing is overwritten.                       *)
LEMMA InstallInv == ASSUME NEW i \in Items, Inv, Install(i) PROVE Inv'
<1> USE DEF Inv
<1>1. /\ pc = "install" /\ i \in In /\ staged[i] # "none"
      /\ live' = [live EXCEPT ![i] = staged[i]] /\ staged' = [staged EXCEPT ![i] = "none"]
      /\ installed' = Append(installed, i)
      /\ UNCHANGED <<archive, origin, aside, moved, pc, stage, left, swapped>>
  BY DEF Install, At, ToInstall, Holds, fixed
<1>2. live[i] = "none" /\ staged[i] = "new"
  BY <1>1 DEF PlacesAreFree, Holds, DataTypes
<1>3. /\ installed' \in Seq(Items) /\ Len(installed') = Len(installed) + 1
      /\ installed'[Len(installed')] = i
      /\ \A n \in 1..Len(installed) : installed'[n] = installed[n] /\ installed[n] \in Items
      /\ Len(installed) \in Nat
  BY <1>1, AppendProperties, ElementOfSeq, LenProperties DEF DataTypes
<1>4. DataTypes'
  BY <1>1, <1>2, <1>3 DEF DataTypes, Contents
<1>5. AsideIsMoved' /\ DiscardIsLast'
  BY <1>1 DEF AsideIsMoved, DiscardIsLast, Holds
<1>6. InstalledIsNew'
  <2>1. ASSUME NEW n \in 1..Len(installed')
        PROVE  live'[installed'[n]] \in {"new", "none"}
    <3>1. CASE n = Len(installed')
      BY <1>1, <1>2, <1>3, <3>1 DEF DataTypes
    <3>2. CASE n # Len(installed')
      <4>1. n \in 1..Len(installed) /\ installed'[n] = installed[n] /\ installed[n] \in Items
        BY <1>3, <3>2
      <4> QED
        BY <1>1, <1>2, <4>1 DEF InstalledIsNew, DataTypes
    <3> QED
      BY <3>1, <3>2
  <2> QED
    BY <1>1, <2>1 DEF InstalledIsNew
<1>7. PlacesAreFree'
  BY <1>1, StagesAreApart DEF PlacesAreFree, Holds, DataTypes, In
<1>8. OldIsKept'
  <2>1. \A j \in Items : Holds(live, j) => Holds(live', j)
    BY <1>1, <1>2 DEF DataTypes, Holds
  <2> QED
    BY <1>1, <1>2, <2>1, RestsHere, SamePlaces DEF DataTypes
<1>9. RestsAreOld'
  <2>1. i \notin Rests
    BY <1>1 DEF RestsAreOld
  <2>2. \A n \in 1..Len(installed') : installed'[n] \notin Rests
    <3>1. \A n \in 1..Len(installed') : n = Len(installed') \/ n \in 1..Len(installed)
      BY <1>3
    <3> QED
      BY <1>3, <2>1, <3>1 DEF RestsAreOld
  <2> QED
    BY <1>1, <1>2, <2>1, <2>2, RestsHere DEF RestsAreOld, DataTypes
<1> QED
  BY <1>4, <1>5, <1>6, <1>7, <1>8, <1>9

(* Everything is installed: only types and the list matter.                *)
LEMMA DiscardInv == ASSUME NEW removed \in BOOLEAN, Inv, Discard(removed) PROVE Inv'
<1> USE DEF Inv
<1>1. /\ pc = "discard" /\ moved # <<>> /\ moved' = Tail(moved)
      /\ aside' = aside \/ aside' = [aside EXCEPT ![Head(moved)] = "none"]
      /\ UNCHANGED <<archive, origin, live, staged, installed, pc, stage, swapped>>
  BY DEF Discard, At, fixed
<1>2. swapped
  BY <1>1 DEF DiscardIsLast
<1>3. Head(moved) \in Items /\ Tail(moved) \in Seq(Items)
  BY <1>1, Shorter DEF DataTypes
<1>4. DataTypes'
  BY <1>1, <1>3 DEF DataTypes, Contents
<1>5. AsideIsMoved' /\ RestsAreOld'
  BY <1>1, SameRests DEF AsideIsMoved
<1>6. InstalledIsNew' /\ PlacesAreFree' /\ DiscardIsLast' /\ OldIsKept'
  BY <1>1, <1>2 DEF InstalledIsNew, PlacesAreFree, DiscardIsLast, OldIsKept
<1> QED
  BY <1>4, <1>5, <1>6

(* What the second removal of the rollback directories leaves aside.       *)
LEMMA SucceedKeeps ==
    ASSUME Inv, Succeed
    PROVE  /\ aside' \in [Items -> Contents] /\ live' \in [Items -> Contents]
           /\ live' = Littered(live, Strewn(aside')) /\ Strewn(aside') \in SUBSET Rests
<1>1. PICK gone \in SUBSET Rests :
        aside' = [i \in Items |-> IF \E r \in gone : i \in Root[r] THEN "none" ELSE aside[i]]
  BY DEF Succeed
<1>2. aside' \in [Items -> Contents]
  BY <1>1 DEF Inv, DataTypes, Contents
<1>3. live' = Littered(live, Strewn(aside')) /\ Strewn(aside') \in SUBSET Rests
  BY DEF Succeed, Strewn
<1>4. live' \in [Items -> Contents]
  BY <1>3, LitteredKeeps DEF Inv, DataTypes
<1> QED
  BY <1>2, <1>3, <1>4

(* The attempt that installed everything ends.                             *)
LEMMA SucceedInv == Inv /\ Succeed => Inv'
<1> SUFFICES ASSUME Inv, Succeed PROVE Inv'
  OBVIOUS
<1> USE DEF Inv
<1>1. /\ pc = "discard" /\ pc' = "stopped" /\ outcome' = "done" /\ stage' = 1
      /\ installed' = <<>>
      /\ UNCHANGED <<archive, origin, staged, moved, swapped>>
  BY DEF Succeed, At, fixed
<1>2. swapped
  BY <1>1 DEF DiscardIsLast
<1>3. <<>> \in Seq(Items)
  BY EmptySeq
<1>4. DataTypes'
  BY <1>1, <1>3, SucceedKeeps DEF DataTypes, Steps
<1>5. AsideIsMoved' /\ RestsAreOld'
  BY <1>1, SameRests DEF AsideIsMoved
<1>6. InstalledIsNew' /\ PlacesAreFree' /\ DiscardIsLast' /\ OldIsKept'
  BY <1>1, <1>2, EmptySeq DEF InstalledIsNew, PlacesAreFree, DiscardIsLast, OldIsKept
<1> QED
  BY <1>4, <1>5, <1>6

(* The steps of the undo that move nothing.                                *)
LEMMA HandlerInv == Inv /\ (Fail \/ AllRemoved) => Inv'
<1> SUFFICES ASSUME Inv, Fail \/ AllRemoved PROVE Inv'
  OBVIOUS
<1> USE DEF Inv
<1>1. /\ UNCHANGED <<archive, origin, live, aside, staged, moved, installed, left, stage, swapped>>
      /\ \/ pc' = "uninstall" /\ pc \in {"extract", "move", "install"}
         \/ pc' = "putback" /\ installed = <<>>
  BY DEF Fail, AllRemoved, Raise, At, fixed, data
<1>2. OldIsKept' /\ RestsAreOld'
  BY <1>1, SamePlaces, SameRests DEF Holds
<1> QED
  BY <1>1, <1>2
     DEF DataTypes, Steps, AsideIsMoved, InstalledIsNew, PlacesAreFree, DiscardIsLast, Holds

(* What is removed was never there before.                                 *)
LEMMA UninstallInv == Inv /\ (Uninstall \/ UninstallPasses) => Inv'
<1> SUFFICES ASSUME Inv, Uninstall \/ UninstallPasses PROVE Inv'
  OBVIOUS
<1> USE DEF Inv
<1>1. /\ pc = "uninstall" /\ installed # <<>> /\ installed' = Front(installed)
      /\ live' = [live EXCEPT ![Last(installed)] = "none"] \/ live' = live
      /\ UNCHANGED <<archive, origin, aside, staged, moved, pc, stage, left, swapped>>
  BY DEF Uninstall, UninstallPasses, At, fixed, data
<1>2. /\ Last(installed) \in Items /\ Front(installed) \in Seq(Items)
      /\ \A n \in 1..Len(Front(installed)) :
            Front(installed)[n] = installed[n] /\ n \in 1..Len(installed)
      /\ \E n \in 1..Len(installed) : Last(installed) = installed[n]
  BY <1>1, Shorter DEF DataTypes
<1>3. live[Last(installed)] \in {"new", "none"}
  BY <1>2 DEF InstalledIsNew
<1>4. live' \in [Items -> Contents] /\ \A i \in Items : live'[i] = live[i] \/ live'[i] = "none"
  BY <1>1, <1>2 DEF DataTypes, Contents
<1>5. DataTypes'
  BY <1>1, <1>2, <1>4 DEF DataTypes
<1>6. AsideIsMoved' /\ PlacesAreFree' /\ DiscardIsLast'
  BY <1>1 DEF AsideIsMoved, PlacesAreFree, DiscardIsLast, Holds
<1>7. InstalledIsNew'
  <2>1. \A n \in 1..Len(installed') : installed'[n] \in Items
    BY <1>1, <1>2, ElementOfSeq
  <2> QED
    BY <1>1, <1>2, <1>4, <2>1 DEF InstalledIsNew
<1>9. RestsAreOld' /\ Last(installed) \notin Rests
  BY <1>1, <1>2 DEF RestsAreOld
<1>8. OldIsKept'
  <2>1. \A r \in Rests : live'[r] = live[r]
    BY <1>1, <1>9, RestsHere DEF DataTypes
  <2> QED
    BY <1>1, <1>2, <1>3, <2>1, SamePlaces DEF DataTypes, Holds
<1> QED
  BY <1>5, <1>6, <1>7, <1>8, <1>9

(* A path is put back, or its rollback path stays.                         *)
LEMMA PutBackInv == Inv /\ PutBack => Inv'
<1> SUFFICES ASSUME Inv, PutBack PROVE Inv'
  OBVIOUS
<1> USE DEF Inv
<1> DEFINE i == Last(moved)
<1>1. /\ pc = "putback" /\ moved # <<>> /\ moved' = Front(moved)
      /\ \/ /\ ~Holds(live, i)
            /\ aside' = [aside EXCEPT ![i] = "none"] /\ live' = [live EXCEPT ![i] = aside[i]]
         \/ UNCHANGED <<live, aside>>
      /\ UNCHANGED <<archive, origin, staged, installed, pc, stage, left, swapped>>
  BY DEF PutBack, At, fixed
<1>2. i \in Items /\ Front(moved) \in Seq(Items)
  BY <1>1, Shorter DEF DataTypes
<1> HIDE DEF i
<1>3. DataTypes'
  BY <1>1, <1>2 DEF DataTypes, Contents
<1>4. AsideIsMoved' /\ RestsAreOld'
  BY <1>1, SameRests DEF AsideIsMoved
<1>5. InstalledIsNew' /\ PlacesAreFree' /\ DiscardIsLast'
  BY <1>1, EmptySeq DEF InstalledIsNew, PlacesAreFree, DiscardIsLast
<1>6. OldIsKept'
  <2>1. \A j \in Items : Holds(live, j) \/ Holds(aside, j) => Holds(live', j) \/ Holds(aside', j)
    BY <1>1, <1>2 DEF DataTypes, Holds
  <2>2. \A j \in Items : "old" \in {live[j], aside[j]} => "old" \in {live'[j], aside'[j]}
    BY <1>1, <1>2 DEF DataTypes, Holds
  <2> QED
    BY <1>1, <2>1, <2>2, RestsHere, SamePlaces
<1> QED
  BY <1>3, <1>4, <1>5, <1>6

(* What the end of an attempt does to the entries: only rests appear, one  *)
(* in every root in which something is on a rollback path.                 *)
LEMMA EndKeeps ==
    ASSUME Inv, Undone \/ UndoFails \/ Crash
    PROVE  \E rests \in SUBSET Rests :
             /\ live' = Littered(live, rests) /\ Strewn(aside) \subseteq rests
             /\ live' \in [Items -> Contents]
             /\ Undone /\ faults \in Nat => rests = Strewn(aside) \/ faults' = faults + 1
<1>1. PICK torn \in SUBSET Rests :
        /\ live' = Littered(live, Strewn(aside) \cup torn)
        /\ Undone /\ faults \in Nat => torn = {} \/ faults' = faults + 1
  <2>1. CASE Crash
    <3>1. PICK torn \in SUBSET Strewn(IF At("extract") THEN Packed ELSE staged) :
            Ended("crashed", torn)
      BY <2>1 DEF Crash
    <3>2. ~Undone
      BY <3>1 DEF Ended, Undone, End
    <3> QED
      BY <3>1, <3>2 DEF Ended, Strewn
  <2>2. CASE Undone
    <3>1. PICK torn \in SUBSET Strewn(staged) :
            /\ faults' = faults + 0 + IF torn = {} THEN 0 ELSE 1
            /\ Ended("failed", torn)
      BY <2>2 DEF Undone, End
    <3>2. faults \in Nat => torn = {} \/ faults' = faults + 1
      BY <3>1
    <3> QED
      BY <3>1, <3>2 DEF Ended, Strewn
  <2>3. CASE UndoFails
    <3>1. PICK torn \in SUBSET Strewn(staged) : Ended("aborted", torn)
      BY <2>3 DEF UndoFails, End
    <3>2. ~Undone
      BY <3>1 DEF Ended, Undone, End
    <3> QED
      BY <3>1, <3>2 DEF Ended, Strewn
  <2> QED
    BY <2>1, <2>2, <2>3
<1>2. Strewn(aside) \cup torn \in SUBSET Rests
  BY DEF Strewn
<1>3. live' \in [Items -> Contents]
  BY <1>1, <1>2, LitteredKeeps DEF Inv, DataTypes
<1>4. Undone /\ faults \in Nat =>
        Strewn(aside) \cup torn = Strewn(aside) \/ faults' = faults + 1
  BY <1>1
<1> QED
  BY <1>1, <1>2, <1>3, <1>4

(* An attempt ends: what was still aside is recorded as left behind, and   *)
(* the rest of its root holds it.                                          *)
LEMMA EndInv == Inv /\ (Undone \/ UndoFails \/ Crash) => Inv'
<1> SUFFICES ASSUME Inv, Undone \/ UndoFails \/ Crash PROVE Inv'
  OBVIOUS
<1> USE DEF Inv
<1>1. /\ pc' = "stopped" /\ stage' = 1 /\ aside' = Nothing /\ staged' = Nothing
      /\ moved' = <<>> /\ installed' = <<>> /\ left' = left \cup {i \in Items : aside[i] = "old"}
      /\ UNCHANGED <<archive, origin, swapped>>
  BY DEF Undone, UndoFails, Crash, End, Ended, fixed
<1>2. PICK rests \in SUBSET Rests :
        /\ live' = Littered(live, rests) /\ Strewn(aside) \subseteq rests
        /\ live' \in [Items -> Contents]
  BY EndKeeps
<1>3. DataTypes' /\ AsideIsMoved'
  BY <1>1, <1>2, NothingType, EmptySeq DEF DataTypes, Steps, AsideIsMoved
<1>4. InstalledIsNew' /\ PlacesAreFree' /\ DiscardIsLast'
  BY <1>1, EmptySeq DEF InstalledIsNew, PlacesAreFree, DiscardIsLast
<1>5. RestsAreOld'
  BY <1>1, RestsHere, EmptySeq DEF RestsAreOld, Nothing
<1>6. OldIsKept'
  <2>1. \A i \in Items : i \notin rests => live'[i] = live[i]
    BY <1>2, LitteredKeeps DEF DataTypes
  <2>2. \A r \in rests : Holds(live', r)
    BY <1>2, LitteredKeeps DEF DataTypes, Holds
  <2>3. \A i \in Items, r \in Rests : i \in Root[r] /\ Holds(aside, i) => Holds(live', r)
    BY <1>2, <2>2 DEF Strewn
  <2>4. \A r \in Rests : Holds(live, r) \/ Holds(aside, r) => Holds(live', r)
    BY <1>2, <2>3, RestsHere, LitteredKeeps DEF DataTypes
  <2>5. ASSUME NEW i \in Items \ Sidecars, ~swapped, Holds(origin, i)
        PROVE  "old" \in {live'[i], aside'[i]} \/ IsLeft(i)'
    <3>1. CASE aside[i] = "old"
      BY <1>1, <2>3, <3>1 DEF IsLeft, Holds
    <3>2. CASE live[i] = "old" /\ i \notin rests
      BY <2>1, <3>2
    <3>3. CASE IsLeft(i)
      BY <1>1, <2>4, <3>3 DEF IsLeft
    <3>4. i \notin rests
      BY <2>5 DEF RestsAreOld, Holds
    <3> QED
      BY <2>5, <3>1, <3>2, <3>3, <3>4 DEF OldIsKept
  <2> QED
    BY <1>1, <2>5 DEF OldIsKept, Holds
<1> QED
  BY <1>3, <1>4, <1>5, <1>6

(* The controller keeps what it finds outside the WAL.                     *)
LEMMA ControllerInv == Inv /\ ControllerRuns => Inv'
<1> SUFFICES ASSUME Inv, ControllerRuns PROVE Inv'
  OBVIOUS
<1> USE DEF Inv
<1> DEFINE opened == IF Holds(live, "db") THEN live["db"] ELSE "empty"
<1>1. PICK wal \in {"none", opened} :
        live' = [Ensured(live) EXCEPT !["db"] = opened, !["wal"] = wal, !["shm"] = wal]
  BY DEF ControllerRuns
<1>2. /\ pc = "stopped" /\ aside = Nothing
      /\ UNCHANGED <<archive, origin, aside, staged, moved, installed, pc, stage, left, swapped>>
  BY DEF ControllerRuns, At, fixed, AsideIsMoved
<1>3. opened \in Contents /\ (live["db"] # "none" => opened = live["db"])
  BY DEF DataTypes, Contents, Holds, Items
<1>4. /\ live' \in [Items -> Contents]
      /\ \A i \in Items \ Sidecars : live[i] # "none" => live'[i] = live[i]
  <2> DEFINE e == Ensured(live)
  <2>1. e \in [Items -> Contents] /\ \A i \in Items : live[i] # "none" => e[i] = live[i]
    BY EnsuredKeeps DEF DataTypes
  <2>2. wal \in Contents
    BY <1>3 DEF Contents
  <2> HIDE DEF e, opened
  <2>3. live' = [e EXCEPT !["db"] = opened, !["wal"] = wal, !["shm"] = wal]
    BY <1>1 DEF e, opened
  <2>4. live' \in [Items -> Contents]
    BY <1>3, <2>1, <2>2, <2>3
  <2>5. \A i \in Items \ Sidecars : live'[i] = IF i = "db" THEN opened ELSE e[i]
    BY <2>1, <2>3 DEF Sidecars
  <2> QED
    BY <1>3, <2>1, <2>4, <2>5
<1>5. installed = <<>>
  BY <1>2 DEF InstalledIsNew
<1>6. DataTypes' /\ AsideIsMoved'
  BY <1>2, <1>4 DEF DataTypes, AsideIsMoved
<1>7. InstalledIsNew' /\ PlacesAreFree' /\ DiscardIsLast' /\ RestsAreOld'
  BY <1>2, <1>5, EmptySeq, SameRests DEF InstalledIsNew, PlacesAreFree, DiscardIsLast
<1>8. OldIsKept'
  BY <1>2, <1>4, RestsHere, SamePlaces DEF Holds
<1> QED
  BY <1>6, <1>7, <1>8

(* The invariant is inductive.                                             *)
LEMMA NextInv == Inv /\ [Next]_restoreVars => Inv'
<1> SUFFICES ASSUME Inv, [Next]_restoreVars PROVE Inv'
  OBVIOUS
<1>1. CASE Forward
  <2>1. ASSUME NEW i \in Items, Move(i) \/ Install(i) PROVE Inv'
    BY <2>1, MoveInv, InstallInv
  <2>2. ASSUME NEW removed \in BOOLEAN, Discard(removed) PROVE Inv'
    BY <2>2, DiscardInv
  <2> QED
    BY <1>1, <2>1, <2>2, BeginInv, ExtractInv, TurnInv, SucceedInv DEF Forward
<1>2. CASE Undo
  BY <1>2, HandlerInv, UninstallInv, PutBackInv, EndInv DEF Undo
<1>3. CASE Crash \/ ControllerRuns
  BY <1>3, EndInv, ControllerInv
<1>4. CASE UNCHANGED restoreVars
  <2>1. UNCHANGED <<archive, origin, live, aside, staged, moved, installed, pc, stage, outcome,
                    left, swapped>>
    BY <1>4 DEF restoreVars
  <2>2. RestsAreOld' /\ OldIsKept'
    BY <2>1, SameRests, SamePlaces DEF Inv, Holds
  <2> QED
    BY <2>1, <2>2 DEF Inv, DataTypes, AsideIsMoved, InstalledIsNew, PlacesAreFree,
                      DiscardIsLast, Holds, In
<1> QED
  BY <1>1, <1>2, <1>3, <1>4 DEF Next

(* Until an attempt has installed everything, nothing that was there       *)
(* before the first one is lost: it is in its place, on a rollback path of *)
(* the attempt, or left on a rollback path by an earlier one               *)
(* (archives.py:449-515), for any entries and any number of faults,        *)
(* crashes and attempts.                                                   *)
THEOREM OldSurvives == Spec => []OldIsKept
<1>1. Init => Inv
  BY InitInv
<1>2. Inv /\ [Next]_restoreVars => Inv'
  BY NextInv
<1>3. Inv => OldIsKept
  BY DEF Inv
<1> QED
  BY <1>1, <1>2, <1>3, PTL DEF Spec

----------------------------------------------------------------------------
(* What an attempt leaves: the inductive invariant                         *)

(* What the archive has for an entry of the scope.                         *)
Unpacked(i) == IF i \in archive.entries \cap Scope THEN "new" ELSE "none"

(* What a restore is to leave at an entry.                                 *)
Wanted(i) == IF i \notin Scope THEN base[i]
             ELSE IF i \in archive.entries THEN "new" ELSE "none"

IsInstalled(i) == \E n \in 1..Len(installed) : installed[n] = i

(* The three places an entry can be in while an attempt moves forward.     *)
Untouched(i) == /\ live[i] = base[i] /\ aside[i] = "none" /\ staged[i] = Unpacked(i)
                /\ ~IsInstalled(i)
SetAside(i) == live[i] = "none" /\ aside[i] = base[i] /\ staged[i] = Unpacked(i)
Replaced(i) == /\ live[i] = Unpacked(i) /\ aside[i] = base[i] /\ staged[i] = "none"
               /\ live[i] = "new" => IsInstalled(i)

(* An entry can be undone: its old content is in its place, or aside with  *)
(* the place empty or taken by what the undo will remove.                  *)
Undoable(i) == \/ live[i] = base[i] /\ aside[i] = "none" /\ ~IsInstalled(i)
               \/ live[i] = "none" /\ aside[i] = base[i]
               \/ live[i] = "new" /\ aside[i] = base[i] /\ IsInstalled(i)

(* Each entry is as far as its stage.                                      *)
StageByStage ==
    /\ pc \in {"stopped", "extract"} => stage = 1
    /\ pc = "extract" => live = base /\ installed = <<>>
    /\ pc \in {"move", "install"} =>
         /\ InScope(Stages[stage])
         /\ \A n \in 1..5 : \A i \in Members[Stages[n]] :
              /\ ~InScope(Stages[n]) \/ n > stage => Untouched(i)
              /\ InScope(Stages[n]) /\ n < stage => Replaced(i)
              /\ n = stage /\ pc = "move" => Untouched(i) \/ SetAside(i)
              /\ n = stage /\ pc = "install" => SetAside(i) \/ Replaced(i)

(* What is aside is on the list of what is still put back.                 *)
Returnable(i) == Holds(aside, i) => \E n \in 1..Len(moved) : moved[n] = i

(* The undo of the first failure can return everything.                    *)
UndoReaches ==
    pc \in {"uninstall", "putback"} =>
        faults >= 1 /\ (faults < 2 => \A i \in Items : Undoable(i) /\ Returnable(i))

(* An outcome belongs to an attempt that has ended.                        *)
OutcomeIsLast == pc # "stopped" => outcome = "none"

(* Everything is installed, and only entries of the scope are aside.       *)
AllWanted == pc = "discard" =>
    \A i \in Items : live[i] = Wanted(i) /\ (i \notin Scope => aside[i] = "none")

AttemptInv == /\ base \in [Items -> Contents] /\ faults \in Nat
          /\ StageByStage /\ UndoReaches /\ OutcomeIsLast /\ AllWanted
          /\ FailedIsUndone /\ DoneIsArchive
----------------------------------------------------------------------------
(* Lemmas about the stages and the scope                                   *)

(* An entry is in the scope when its stage is.                             *)
LEMMA ScopeByStage ==
    /\ \A n \in 1..5 : \A i \in Members[Stages[n]] : i \in Scope <=> InScope(Stages[n])
    /\ \A i \in Items : \E n \in 1..5 : i \in Members[Stages[n]]
<1>1. /\ Members[Stages[1]] = Sidecars /\ Members[Stages[2]] = {"db"}
      /\ Members[Stages[3]] = {"secrets"}
      /\ Members[Stages[4]] = AssetChildren \cup {"assets_rest"}
      /\ Members[Stages[5]] = RunChildren \cup {"runs_rest"}
  BY DEF Members, Stages
<1>2. \A s : s \in DOMAIN Members <=> \E n \in 1..5 : s = Stages[n]
  <2>1. DOMAIN Members = {"sidecars", "db", "secrets", "assets", "runs"}
    BY DEF Members
  <2>2. /\ Stages[1] = "sidecars" /\ Stages[2] = "db" /\ Stages[3] = "secrets"
        /\ Stages[4] = "assets" /\ Stages[5] = "runs"
    BY DEF Stages
  <2>3. \A n \in 1..5 : n = 1 \/ n = 2 \/ n = 3 \/ n = 4 \/ n = 5
    OBVIOUS
  <2> QED
    BY <2>1, <2>2, <2>3
<1>3. \A i \in Items : \E n \in 1..5 : i \in Members[Stages[n]]
  BY <1>1 DEF Items, Rests
<1>4. ASSUME NEW n \in 1..5, NEW i \in Members[Stages[n]]
      PROVE  i \in Scope <=> InScope(Stages[n])
  <2>1. ASSUME InScope(Stages[n]) PROVE i \in Scope
    BY <1>2, <2>1 DEF Scope
  <2>2. ASSUME i \in Scope PROVE InScope(Stages[n])
    <3>1. PICK s \in DOMAIN Members : InScope(s) /\ i \in Members[s]
      BY <2>2 DEF Scope
    <3>2. PICK m \in 1..5 : s = Stages[m]
      BY <1>2, <3>1
    <3>3. m = n
      BY <1>4, <3>1, <3>2, StagesAreApart
    <3> QED
      BY <3>1, <3>2, <3>3
  <2> QED
    BY <2>1, <2>2
<1> QED
  BY <1>3, <1>4

(* Between a stage and the next one there is nothing in the scope.         *)
LEMMA NextIsNearest ==
    ASSUME stage \in 1..5, Later # {},
           NEW next, next = CHOOSE n \in Later : \A m \in Later : n <= m
    PROVE  /\ next \in stage+1..5 /\ InScope(Stages[next])
           /\ \A n \in 1..5 : stage < n /\ n < next => ~InScope(Stages[n])
<1>1. next \in stage+1..5
  BY NextStage
<1>2. Later = {n \in stage+1..5 : InScope(Stages[n])}
  BY StagesAreApart DEF Later
<1>3. next \in Later /\ \A m \in Later : next <= m
  <2>1. \E n \in Later : \A m \in Later : n <= m
    <3>1. CASE 2 \in Later
      BY <1>2, <3>1
    <3>2. CASE 2 \notin Later /\ 3 \in Later
      BY <1>2, <3>2
    <3>3. CASE 2 \notin Later /\ 3 \notin Later /\ 4 \in Later
      BY <1>2, <3>3
    <3>4. CASE 2 \notin Later /\ 3 \notin Later /\ 4 \notin Later
      <4>1. \A m \in Later : m = 5
        BY <1>2, <3>4
      <4> QED
        BY <4>1
    <3> QED
      BY <3>1, <3>2, <3>3, <3>4
  <2> QED
    BY <2>1
<1>4. InScope(Stages[next])
  BY <1>2, <1>3
<1>5. ASSUME NEW n \in 1..5, stage < n, n < next PROVE ~InScope(Stages[n])
  <2>1. n \in stage+1..5
    BY <1>5
  <2>2. n \in Later => next <= n
    BY <1>3
  <2>3. n \notin Later
    BY <1>1, <1>5, <2>2
  <2> QED
    BY <1>2, <2>1, <2>3
<1> QED
  BY <1>1, <1>4, <1>5

(* A list that grows keeps what was installed.                             *)
LEMMA InstallLists ==
    ASSUME NEW i \in Items, installed \in Seq(Items), installed' = Append(installed, i)
    PROVE  IsInstalled(i)' /\ \A j \in Items : j # i => (IsInstalled(j)' <=> IsInstalled(j))
<1>1. /\ Len(installed) \in Nat /\ Len(installed') = Len(installed) + 1
      /\ installed'[Len(installed')] = i
      /\ \A n \in 1..Len(installed) : installed'[n] = installed[n]
  BY AppendProperties, LenProperties
<1>2. \A n \in 1..Len(installed) : n \in 1..Len(installed')
  BY <1>1
<1>3. Len(installed') \in 1..Len(installed')
  BY <1>1
<1>4. \A n \in 1..Len(installed') : n \in 1..Len(installed) \/ n = Len(installed')
  BY <1>1
<1>5. ASSUME NEW j \in Items, j # i PROVE IsInstalled(j)' <=> IsInstalled(j)
  BY <1>1, <1>2, <1>4, <1>5 DEF IsInstalled
<1> QED
  BY <1>1, <1>3, <1>5 DEF IsInstalled

(* Nothing about an entry changes when the four contents do not.           *)
LEMMA SameEntry ==
    ASSUME NEW i \in Items, UNCHANGED archive, base'[i] = base[i], live'[i] = live[i],
           aside'[i] = aside[i], staged'[i] = staged[i],
           IsInstalled(i)' <=> IsInstalled(i)
    PROVE  /\ Untouched(i) => Untouched(i)'
           /\ SetAside(i) => SetAside(i)'
           /\ Replaced(i) => Replaced(i)'
           /\ Undoable(i) => Undoable(i)'
<1>1. Unpacked(i)' = Unpacked(i)
  BY DEF Unpacked, Scope, InScope
<1> QED
  BY <1>1 DEF Untouched, SetAside, Replaced, Undoable

(* Every entry of an attempt that moves forward can be undone.             *)
LEMMA ForwardIsUndoable ==
    Inv /\ StageByStage /\ pc \in {"extract", "move", "install"} => \A i \in Items : Undoable(i)
<1> SUFFICES ASSUME Inv, StageByStage, pc \in {"extract", "move", "install"}, NEW i \in Items
             PROVE  Undoable(i)
  OBVIOUS
<1> USE DEF Inv
<1>1. CASE pc = "extract"
  BY <1>1, EmptySeq DEF StageByStage, AsideIsMoved, Nothing, Undoable, IsInstalled
<1>2. CASE pc \in {"move", "install"}
  <2>1. PICK n \in 1..5 : i \in Members[Stages[n]]
    BY ScopeByStage
  <2>2. Untouched(i) \/ SetAside(i) \/ Replaced(i)
    <3>1. stage \in 1..5
      BY DEF DataTypes
    <3>2. n < stage \/ n = stage \/ n > stage
      BY <3>1
    <3> QED
      BY <1>2, <2>1, <3>2 DEF StageByStage
  <2>3. Unpacked(i) \in {"none", "new"}
    BY DEF Unpacked
  <2> QED
    BY <2>2, <2>3 DEF Untouched, SetAside, Replaced, Undoable
<1> QED
  BY <1>1, <1>2

----------------------------------------------------------------------------
(* One lemma for each group of actions                                     *)

(* Before the first attempt.                                               *)
LEMMA InitAttempt == Init => AttemptInv
<1> SUFFICES ASSUME Init PROVE AttemptInv
  OBVIOUS
<1>1. /\ pc = "stopped" /\ stage = 1 /\ outcome = "none" /\ base = live /\ faults = 0
  BY DEF Init
<1>2. base \in [Items -> Contents]
  BY <1>1, InitInv DEF Inv, DataTypes
<1> QED
  BY <1>1, <1>2 DEF AttemptInv, StageByStage, UndoReaches, OutcomeIsLast, AllWanted,
                    FailedIsUndone, DoneIsArchive

(* Between two attempts nothing is aside and the base is what is live.     *)
LEMMA StoppedAttempt == Inv /\ AttemptInv /\ (Begin \/ Refuse \/ ControllerRuns) => AttemptInv'
<1> SUFFICES ASSUME Inv, AttemptInv, Begin \/ Refuse \/ ControllerRuns PROVE AttemptInv'
  OBVIOUS
<1> USE DEF AttemptInv
<1>1. Inv'
  BY BeginInv, ControllerInv
<1>2. /\ pc = "stopped" /\ base' = live' /\ UNCHANGED <<stage, faults>>
      /\ \/ pc' = "extract" /\ outcome' = "none"
         \/ pc' = "stopped" /\ outcome' \in {"refused", "ran"}
  BY DEF Begin, Refuse, ControllerRuns, At
<1>6. installed' = <<>>
  BY DEF Begin, Refuse, ControllerRuns, At, Inv, InstalledIsNew
<1>3. base' \in [Items -> Contents] /\ faults' \in Nat
  BY <1>1, <1>2 DEF Inv, DataTypes
<1>4. StageByStage' /\ UndoReaches' /\ OutcomeIsLast'
  BY <1>2, <1>6 DEF StageByStage, UndoReaches, OutcomeIsLast
<1>5. AllWanted' /\ FailedIsUndone' /\ DoneIsArchive'
  BY <1>2 DEF AllWanted, FailedIsUndone, DoneIsArchive
<1> QED
  BY <1>3, <1>4, <1>5

(* What is unpacked is what the archive has in its scope.                  *)
LEMMA ExtractAttempt == Inv /\ AttemptInv /\ Extract => AttemptInv'
<1> SUFFICES ASSUME Inv, AttemptInv, Extract PROVE AttemptInv'
  OBVIOUS
<1> USE DEF AttemptInv, Inv
<1>1. /\ pc = "extract" /\ pc' = "move" /\ stage = 1 /\ stage' = 1 /\ live = base
      /\ installed = <<>> /\ aside = Nothing /\ outcome = "none"
      /\ staged' = [i \in Items |-> IF i \in archive.entries \cap Scope THEN "new" ELSE "none"]
      /\ UNCHANGED <<archive, base, live, aside, installed, outcome, faults>>
  BY DEF Extract, Packed, At, fixed, StageByStage, AsideIsMoved, OutcomeIsLast
<1>2. ASSUME NEW i \in Items PROVE Untouched(i)'
  <2>1. Unpacked(i)' = Unpacked(i)
    BY <1>1 DEF Unpacked, Scope, InScope
  <2>2. live[i] = base[i] /\ aside[i] = "none" /\ staged'[i] = Unpacked(i)
    BY <1>1 DEF Unpacked, Nothing
  <2>3. ~IsInstalled(i)'
    BY <1>1, EmptySeq DEF IsInstalled
  <2> QED
    BY <1>1, <2>1, <2>2, <2>3 DEF Untouched
<1>3. InScope(Stages[1])
  BY DEF InScope, Stages
<1>4. StageByStage'
  <2>1. InScope(Stages[1])'
    BY DEF InScope, Stages
  <2>2. \A n \in 1..5 : Members[Stages[n]] \subseteq Items
    BY StagesAreApart
  <2>3. \A n \in 1..5 : \A i \in Members[Stages[n]] : Untouched(i)'
    BY <1>2, <2>2
  <2>4. \A n \in 1..5 : ~(n < 1)
    OBVIOUS
  <2> QED
    BY <1>1, <2>1, <2>3, <2>4 DEF StageByStage
<1>5. UndoReaches' /\ OutcomeIsLast' /\ AllWanted' /\ FailedIsUndone' /\ DoneIsArchive'
  BY <1>1 DEF UndoReaches, OutcomeIsLast, AllWanted, FailedIsUndone, DoneIsArchive
<1> QED
  BY <1>1, <1>4, <1>5

(* While an attempt runs, only what it does to the entries matters.        *)
LEMMA ForwardFrame ==
    ASSUME Inv, AttemptInv, pc \in {"move", "install"}, pc' \in {"move", "install"},
           UNCHANGED <<archive, base, outcome, faults>>, StageByStage'
    PROVE  AttemptInv'
BY DEF AttemptInv, UndoReaches, OutcomeIsLast, AllWanted, FailedIsUndone, DoneIsArchive

(* An entry is moved aside, or an unpacked one is put in its place: the    *)
(* entries of the other stages stay as they are.                           *)
LEMMA OneEntry ==
    ASSUME Inv, AttemptInv, pc \in {"move", "install"}, NEW i \in Items, i \in In,
           UNCHANGED <<archive, base, pc, stage, outcome, faults>>,
           \A j \in Items : j # i => /\ live'[j] = live[j] /\ aside'[j] = aside[j]
                                     /\ staged'[j] = staged[j],
           \A j \in Items : j # i => (IsInstalled(j)' <=> IsInstalled(j)),
           pc = "move" => Untouched(i)' \/ SetAside(i)',
           pc = "install" => SetAside(i)' \/ Replaced(i)'
    PROVE  AttemptInv'
<1> USE DEF AttemptInv
<1>1. stage \in 1..5
  BY DEF Inv, DataTypes
<1>2. \A n \in 1..5 : n # stage => i \notin Members[Stages[n]]
  BY <1>1, StagesAreApart DEF In
<1>3. \A n \in 1..5 : Members[Stages[n]] \subseteq Items
  BY StagesAreApart
<1>4. \A n \in 1..5 : InScope(Stages[n])' <=> InScope(Stages[n])
  BY DEF InScope
<1>5. ASSUME NEW n \in 1..5, NEW j \in Members[Stages[n]], j # i
      PROVE  /\ Untouched(j) => Untouched(j)'
             /\ SetAside(j) => SetAside(j)'
             /\ Replaced(j) => Replaced(j)'
  <2>1. j \in Items
    BY <1>3
  <2> QED
    BY <1>5, <2>1, SameEntry
<1>6. ASSUME NEW n \in 1..5, NEW j \in Members[Stages[n]]
      PROVE  /\ ~InScope(Stages[n]) \/ n > stage => Untouched(j)'
             /\ InScope(Stages[n]) /\ n < stage => Replaced(j)'
             /\ n = stage /\ pc = "move" => Untouched(j)' \/ SetAside(j)'
             /\ n = stage /\ pc = "install" => SetAside(j)' \/ Replaced(j)'
  <2>1. InScope(Stages[stage])
    BY DEF StageByStage
  <2>2. CASE j = i
    <3>1. n = stage
      BY <1>2, <2>2
    <3>2. ~(n > stage) /\ ~(n < stage)
      BY <1>1, <3>1
    <3> QED
      BY <2>1, <2>2, <3>1, <3>2
  <2>3. CASE j # i
    BY <1>5, <2>3 DEF StageByStage
  <2> QED
    BY <2>2, <2>3
<1>7. StageByStage'
  <2>1. InScope(Stages[stage])'
    BY <1>1, <1>4 DEF StageByStage
  <2>2. pc' = pc /\ stage' = stage
    OBVIOUS
  <2> QED
    BY <1>1, <1>4, <1>6, <2>1, <2>2 DEF StageByStage
<1> QED
  BY <1>7, ForwardFrame

(* What is moved keeps its content on the rollback path.                   *)
LEMMA MoveAttempt == ASSUME NEW i \in Items, Inv, AttemptInv, Move(i) PROVE AttemptInv'
<1>1. /\ pc = "move" /\ i \in In /\ Holds(live, i)
      /\ aside' = [aside EXCEPT ![i] = live[i]] /\ live' = [live EXCEPT ![i] = "none"]
      /\ UNCHANGED <<archive, base, staged, installed, pc, stage, outcome, faults>>
  BY DEF Move, At, ToMove, fixed
<1>2. live \in [Items -> Contents] /\ aside \in [Items -> Contents] /\ stage \in 1..5
  BY DEF Inv, DataTypes
<1>3. Untouched(i)
  <2>1. Untouched(i) \/ SetAside(i)
    BY <1>1, <1>2 DEF AttemptInv, StageByStage, In
  <2> QED
    BY <1>1, <2>1 DEF SetAside, Holds
<1>4. SetAside(i)'
  <2>1. Unpacked(i)' = Unpacked(i)
    BY <1>1 DEF Unpacked, Scope, InScope
  <2>2. live'[i] = "none" /\ aside'[i] = live[i]
    BY <1>1, <1>2
  <2> QED
    BY <1>1, <1>3, <2>1, <2>2 DEF Untouched, SetAside
<1>5. \A j \in Items : j # i => live'[j] = live[j] /\ aside'[j] = aside[j] /\ staged'[j] = staged[j]
  BY <1>1, <1>2
<1>6. \A j \in Items : IsInstalled(j)' <=> IsInstalled(j)
  BY <1>1 DEF IsInstalled
<1> QED
  BY <1>1, <1>4, <1>5, <1>6, OneEntry

(* What is installed is on the list of what the undo removes.              *)
LEMMA InstallAttempt == ASSUME NEW i \in Items, Inv, AttemptInv, Install(i) PROVE AttemptInv'
<1>1. /\ pc = "install" /\ i \in In /\ staged[i] # "none"
      /\ live' = [live EXCEPT ![i] = staged[i]] /\ staged' = [staged EXCEPT ![i] = "none"]
      /\ installed' = Append(installed, i)
      /\ UNCHANGED <<archive, base, aside, pc, stage, outcome, faults>>
  BY DEF Install, At, ToInstall, Holds, fixed
<1>2. /\ live \in [Items -> Contents] /\ staged \in [Items -> {"none", "new"}]
      /\ stage \in 1..5 /\ installed \in Seq(Items)
  BY DEF Inv, DataTypes
<1>3. IsInstalled(i)' /\ \A j \in Items : j # i => (IsInstalled(j)' <=> IsInstalled(j))
  BY <1>1, <1>2, InstallLists
<1>4. SetAside(i)
  <2>1. SetAside(i) \/ Replaced(i)
    BY <1>1, <1>2 DEF AttemptInv, StageByStage, In
  <2> QED
    BY <1>1, <2>1 DEF Replaced
<1>5. Replaced(i)'
  <2>1. Unpacked(i)' = Unpacked(i)
    BY <1>1 DEF Unpacked, Scope, InScope
  <2>2. live'[i] = staged[i] /\ staged'[i] = "none"
    BY <1>1, <1>2
  <2> QED
    BY <1>1, <1>3, <1>4, <2>1, <2>2 DEF SetAside, Replaced
<1>6. \A j \in Items : j # i => live'[j] = live[j] /\ aside'[j] = aside[j] /\ staged'[j] = staged[j]
  BY <1>1, <1>2
<1> QED
  BY <1>1, <1>3, <1>5, <1>6, OneEntry
(* From moving to installing: a place that is empty holds nothing to move. *)
LEMMA AllMovedAttempt == Inv /\ AttemptInv /\ AllMoved => AttemptInv'
<1> SUFFICES ASSUME Inv, AttemptInv, AllMoved PROVE AttemptInv'
  OBVIOUS
<1>1. /\ pc = "move" /\ pc' = "install" /\ \A i \in In : live[i] = "none"
      /\ UNCHANGED <<archive, base, live, aside, staged, installed, stage, outcome, faults>>
  BY DEF AllMoved, At, ToMove, Holds, fixed, data
<1>2. stage \in 1..5 /\ \A n \in 1..5 : Members[Stages[n]] \subseteq Items
  BY StagesAreApart DEF Inv, DataTypes
<1>3. \A n \in 1..5 : InScope(Stages[n])' <=> InScope(Stages[n])
  BY <1>1 DEF InScope
<1>4. ASSUME NEW n \in 1..5, NEW j \in Members[Stages[n]]
      PROVE  /\ Untouched(j) => Untouched(j)'
             /\ SetAside(j) => SetAside(j)'
             /\ Replaced(j) => Replaced(j)'
  <2>1. IsInstalled(j)' <=> IsInstalled(j)
    BY <1>1 DEF IsInstalled
  <2>2. j \in Items
    BY <1>2
  <2> QED
    BY <1>1, <2>1, <2>2, SameEntry
<1>5. \A j \in In : SetAside(j)
  <2> SUFFICES ASSUME NEW j \in In PROVE SetAside(j)
    OBVIOUS
  <2>1. Untouched(j) \/ SetAside(j)
    BY <1>1, <1>2 DEF AttemptInv, StageByStage, In
  <2> QED
    BY <1>1, <2>1 DEF Untouched, SetAside
<1>6. StageByStage'
  <2>1. InScope(Stages[stage])'
    BY <1>1, <1>2, <1>3 DEF AttemptInv, StageByStage
  <2>2. ASSUME NEW n \in 1..5, NEW j \in Members[Stages[n]]
        PROVE  /\ ~InScope(Stages[n]) \/ n > stage => Untouched(j)'
               /\ InScope(Stages[n]) /\ n < stage => Replaced(j)'
               /\ n = stage => SetAside(j)'
    BY <1>1, <1>4, <1>5 DEF AttemptInv, StageByStage, In
  <2> QED
    BY <1>1, <1>3, <2>1, <2>2 DEF StageByStage
<1> QED
  BY <1>1, <1>6, ForwardFrame

(* From a stage to the next one, or to the end: the stage is as the        *)
(* archive has it, and those in between are out of the scope.              *)
LEMMA AllInstalledAttempt == Inv /\ AttemptInv /\ AllInstalled => AttemptInv'
<1> SUFFICES ASSUME Inv, AttemptInv, AllInstalled PROVE AttemptInv'
  OBVIOUS
<1>1. /\ pc = "install" /\ \A i \in In : staged[i] = "none"
      /\ \/ Later = {} /\ pc' = "discard" /\ UNCHANGED stage
         \/ Later # {} /\ pc' = "move" /\ stage' = CHOOSE n \in Later : \A m \in Later : n <= m
      /\ UNCHANGED <<archive, base, live, aside, staged, installed, outcome, faults>>
  BY DEF AllInstalled, At, ToInstall, Holds, fixed, data
<1>2. stage \in 1..5 /\ \A n \in 1..5 : Members[Stages[n]] \subseteq Items
  BY StagesAreApart DEF Inv, DataTypes
<1>3. \A n \in 1..5 : InScope(Stages[n])' <=> InScope(Stages[n])
  BY <1>1 DEF InScope
<1>4. ASSUME NEW n \in 1..5, NEW j \in Members[Stages[n]]
      PROVE  /\ Untouched(j) => Untouched(j)'
             /\ SetAside(j) => SetAside(j)'
             /\ Replaced(j) => Replaced(j)'
  <2>1. IsInstalled(j)' <=> IsInstalled(j)
    BY <1>1 DEF IsInstalled
  <2>2. j \in Items
    BY <1>2
  <2> QED
    BY <1>1, <2>1, <2>2, SameEntry
<1>5. ASSUME NEW j \in In PROVE Replaced(j)
  <2>1. SetAside(j) \/ Replaced(j)
    BY <1>1, <1>2 DEF AttemptInv, StageByStage, In
  <2> QED
    BY <1>1, <1>5, <2>1 DEF SetAside, Replaced
<1>6. ASSUME NEW n \in 1..5, NEW j \in Members[Stages[n]]
      PROVE  /\ ~InScope(Stages[n]) \/ n > stage => Untouched(j)
             /\ InScope(Stages[n]) /\ n <= stage => Replaced(j)
  <2>1. n <= stage => n < stage \/ n = stage
    BY <1>2
  <2> QED
    BY <1>1, <1>5, <2>1 DEF AttemptInv, StageByStage, In
<1>7. CASE pc' = "move"
  <2>1. stage' = CHOOSE n \in Later : \A m \in Later : n <= m
    BY <1>1, <1>7
  <2>2. Later # {}
    BY <1>1, <1>7
  <2>3. /\ stage' \in stage+1..5 /\ InScope(Stages[stage'])
        /\ \A n \in 1..5 : stage < n /\ n < stage' => ~InScope(Stages[n])
    BY <1>2, <2>1, <2>2, NextIsNearest
  <2>4. stage' \in 1..5 /\ stage < stage'
    BY <1>2, <2>3
  <2>5. ASSUME NEW n \in 1..5, NEW j \in Members[Stages[n]]
        PROVE  /\ ~InScope(Stages[n]) \/ n > stage' => Untouched(j)'
               /\ InScope(Stages[n]) /\ n < stage' => Replaced(j)'
               /\ n = stage' => Untouched(j)'
    <3>1. n > stage' => n > stage
      BY <1>2, <2>4
    <3>2. n < stage' /\ InScope(Stages[n]) => n <= stage
      BY <1>2, <2>3
    <3>3. n = stage' => n > stage
      BY <1>2, <2>4
    <3> QED
      BY <1>4, <1>6, <3>1, <3>2, <3>3
  <2>6. StageByStage'
    <3>1. \A n \in 1..5 : n = stage' => InScope(Stages[n])'
      BY <1>3, <2>3
    <3>2. InScope(Stages[stage])'
      BY <2>4, <3>1
    <3> QED
      BY <1>3, <1>7, <2>4, <2>5, <3>2 DEF StageByStage
  <2> QED
    BY <1>1, <1>7, <2>6, ForwardFrame
<1>8. CASE pc' = "discard"
  <2>1. Later = {}
    BY <1>1, <1>8
  <2>2. ASSUME NEW i \in Items
        PROVE  live[i] = Wanted(i) /\ (i \notin Scope => aside[i] = "none")
    <3>1. PICK n \in 1..5 : i \in Members[Stages[n]]
      BY ScopeByStage
    <3>2. i \in Scope <=> InScope(Stages[n])
      BY <3>1, ScopeByStage
    <3>3. CASE i \notin Scope
      BY <1>6, <3>1, <3>2, <3>3 DEF Untouched, Wanted
    <3>4. CASE i \in Scope
      <4>1. ~(n \in stage+1..5)
        BY <2>1, <3>2, <3>4, StagesAreApart DEF Later
      <4>2. n <= stage
        BY <1>2, <4>1
      <4>3. Replaced(i)
        BY <1>6, <3>1, <3>2, <3>4, <4>2
      <4> QED
        BY <3>4, <4>3 DEF Replaced, Unpacked, Wanted
    <3> QED
      BY <3>3, <3>4
  <2>3. Scope' = Scope /\ \A i \in Items : Wanted(i)' = Wanted(i)
    BY <1>1 DEF Wanted, Scope, InScope
  <2>4. AllWanted'
    BY <1>1, <2>2, <2>3 DEF AllWanted
  <2>5. base' \in [Items -> Contents] /\ faults' \in Nat
    BY <1>1 DEF AttemptInv
  <2>6. outcome = "none"
    BY <1>1 DEF AttemptInv, OutcomeIsLast
  <2>7. StageByStage' /\ UndoReaches' /\ OutcomeIsLast' /\ FailedIsUndone' /\ DoneIsArchive'
    BY <1>1, <1>8, <2>6
       DEF StageByStage, UndoReaches, OutcomeIsLast, FailedIsUndone, DoneIsArchive
  <2> QED
    BY <2>4, <2>5, <2>7 DEF AttemptInv
<1> QED
  BY <1>1, <1>7, <1>8

(* Rollback paths are removed: what is live stays.                         *)
LEMMA DiscardAttempt ==
    ASSUME NEW removed \in BOOLEAN, Inv, AttemptInv, Discard(removed) PROVE AttemptInv'
<1>1. /\ pc = "discard" /\ pc' = pc /\ outcome = "none"
      /\ UNCHANGED <<archive, base, live, stage, outcome>>
      /\ aside' = aside \/ aside' = [aside EXCEPT ![Head(moved)] = "none"]
      /\ faults' = faults \/ faults' = faults + 1
  BY DEF Discard, At, fixed, AttemptInv, OutcomeIsLast
<1>2. base' \in [Items -> Contents] /\ faults' \in Nat
  BY <1>1 DEF AttemptInv
<1>3. Scope' = Scope /\ \A i \in Items : Wanted(i)' = Wanted(i)
  BY <1>1 DEF Wanted, Scope, InScope
<1>6. \A i \in Items : aside[i] = "none" => aside'[i] = "none"
  BY <1>1 DEF Inv, DataTypes
<1>4. AllWanted'
  BY <1>1, <1>3, <1>6 DEF AttemptInv, AllWanted
<1>5. StageByStage' /\ UndoReaches' /\ OutcomeIsLast' /\ FailedIsUndone' /\ DoneIsArchive'
  BY <1>1 DEF StageByStage, UndoReaches, OutcomeIsLast, FailedIsUndone, DoneIsArchive
<1> QED
  BY <1>2, <1>4, <1>5 DEF AttemptInv

(* The attempt that succeeds: what is still aside is in the scope, so only *)
(* roots of the scope get a rest.                                          *)
LEMMA SucceedAttempt == Inv /\ AttemptInv /\ Succeed => AttemptInv'
<1> SUFFICES ASSUME Inv, AttemptInv, Succeed PROVE AttemptInv'
  OBVIOUS
<1>1. /\ pc = "discard" /\ pc' = "stopped" /\ outcome' = "done" /\ stage' = 1
      /\ UNCHANGED <<archive, base, faults>>
  BY DEF Succeed, At, fixed
<1>2. Scope' = Scope /\ \A i \in Items : Wanted(i)' = Wanted(i)
  BY <1>1 DEF Wanted, Scope, InScope
<1>3. /\ live' = Littered(live, Strewn(aside')) /\ Strewn(aside') \in SUBSET Rests
      /\ \A i \in Items : aside'[i] = aside[i] \/ aside'[i] = "none"
  <2>1. \A i \in Items : aside'[i] = aside[i] \/ aside'[i] = "none"
    BY DEF Succeed
  <2> QED
    BY <2>1, SucceedKeeps
<1>4. ASSUME NEW i \in Items
      PROVE  \/ live'[i] = Wanted(i)
             \/ i \in Scope \cap Rests /\ \E j \in Root[i] : Holds(aside', j)
  <2>1. CASE i \in Strewn(aside')
    <3>1. i \in Rests
      BY <2>1 DEF Strewn
    <3>2. PICK j \in Root[i] : Holds(aside', j)
      BY <2>1 DEF Strewn
    <3>3. j \in Items /\ i \in Root[i]
      BY <3>1, RestsHere
    <3>4. j \in Scope
      BY <1>1, <1>3, <3>2, <3>3 DEF AttemptInv, AllWanted, Holds
    <3>5. PICK n \in 1..5 : Root[i] = Members[Stages[n]]
      BY <3>1, RootScope
    <3>6. i \in Scope
      BY <3>3, <3>4, <3>5, ScopeByStage
    <3> QED
      BY <3>1, <3>2, <3>6
  <2>2. CASE i \notin Strewn(aside')
    <3>1. live'[i] = live[i]
      BY <1>3, <2>2, LitteredKeeps DEF Inv, DataTypes
    <3> QED
      BY <1>1, <3>1 DEF AttemptInv, AllWanted
  <2> QED
    BY <2>1, <2>2
<1>5. DoneIsArchive'
  BY <1>1, <1>2, <1>4 DEF DoneIsArchive, Wanted, Holds
<1>6. StageByStage' /\ UndoReaches' /\ OutcomeIsLast' /\ AllWanted' /\ FailedIsUndone'
  BY <1>1 DEF StageByStage, UndoReaches, OutcomeIsLast, AllWanted, FailedIsUndone
<1> QED
  BY <1>1, <1>5, <1>6 DEF AttemptInv

(* While the undo runs, only what can still be undone matters.             *)
LEMMA UndoFrame ==
    ASSUME AttemptInv, pc # "stopped", pc' \in {"uninstall", "putback"},
           UNCHANGED <<base, outcome>>, faults' \in Nat, faults' >= 1,
           faults' < 2 => \A i \in Items : Undoable(i)' /\ Returnable(i)'
    PROVE  AttemptInv'
BY DEF AttemptInv, StageByStage, UndoReaches, OutcomeIsLast, AllWanted, FailedIsUndone,
       DoneIsArchive

(* The handler starts with everything that was done, and goes on to put    *)
(* back once it has removed what was installed.                            *)
LEMMA HandlerAttempt == Inv /\ AttemptInv /\ (Fail \/ AllRemoved) => AttemptInv'
<1> SUFFICES ASSUME Inv, AttemptInv, Fail \/ AllRemoved PROVE AttemptInv'
  OBVIOUS
<1>1. UNCHANGED <<archive, base, live, aside, staged, moved, installed, outcome>>
  BY DEF Fail, AllRemoved, fixed, data
<1>2. \A i \in Items : (Undoable(i) => Undoable(i)') /\ (Returnable(i) => Returnable(i)')
  BY <1>1 DEF Undoable, Returnable, IsInstalled, Holds
<1>3. faults \in Nat
  BY DEF AttemptInv
<1>4. CASE Fail
  <2>1. /\ pc \in {"extract", "move", "install"} /\ pc' = "uninstall" /\ faults' = faults + 1
    BY <1>4 DEF Fail, Raise
  <2>2. \A i \in Items : Undoable(i) /\ Returnable(i)
    BY <2>1, ForwardIsUndoable DEF AttemptInv, Inv, AsideIsMoved, Returnable
  <2> QED
    BY <1>1, <1>2, <1>3, <2>1, <2>2, UndoFrame
<1>5. CASE AllRemoved
  <2>1. pc = "uninstall" /\ pc' = "putback" /\ faults' = faults
    BY <1>5 DEF AllRemoved, At
  <2>2. faults >= 1 /\ (faults < 2 => \A i \in Items : Undoable(i) /\ Returnable(i))
    BY <2>1 DEF AttemptInv, UndoReaches
  <2> QED
    BY <1>1, <1>2, <1>3, <2>1, <2>2, UndoFrame
<1> QED
  BY <1>4, <1>5

(* What is removed leaves its place to what is aside.                      *)
LEMMA UninstallAttempt == Inv /\ AttemptInv /\ (Uninstall \/ UninstallPasses) => AttemptInv'
<1> SUFFICES ASSUME Inv, AttemptInv, Uninstall \/ UninstallPasses PROVE AttemptInv'
  OBVIOUS
<1>1. /\ pc = "uninstall" /\ pc' = pc /\ installed # <<>> /\ installed' = Front(installed)
      /\ UNCHANGED <<archive, base, aside, moved, outcome>>
  BY DEF Uninstall, UninstallPasses, At, fixed, data
<1>2. /\ faults \in Nat /\ faults >= 1
      /\ faults < 2 => \A i \in Items : Undoable(i) /\ Returnable(i)
      /\ installed \in Seq(Items) /\ live \in [Items -> Contents]
  BY <1>1 DEF AttemptInv, UndoReaches, Inv, DataTypes
<1>3. CASE UninstallPasses
  <2>1. faults' = faults + 1
    BY <1>3 DEF UninstallPasses
  <2>2. faults' \in Nat /\ faults' >= 1 /\ ~(faults' < 2)
    BY <1>2, <2>1
  <2> QED
    BY <1>1, <2>2, UndoFrame
<1>4. CASE Uninstall
  <2>1. live' = [live EXCEPT ![Last(installed)] = "none"] /\ faults' = faults
    BY <1>4 DEF Uninstall
  <2>2. /\ Last(installed) \in Items
        /\ \A i \in Items : i # Last(installed) /\ (\E n \in 1..Len(installed) : installed[n] = i)
             => \E n \in 1..Len(Front(installed)) : Front(installed)[n] = i
        /\ \A n \in 1..Len(Front(installed)) :
              Front(installed)[n] = installed[n] /\ n \in 1..Len(installed)
        /\ \E n \in 1..Len(installed) : Last(installed) = installed[n]
    BY <1>1, <1>2, Shorter
  <2>4. faults < 2 => \A i \in Items : Returnable(i)'
    BY <1>1, <1>2 DEF Returnable, Holds
  <2>3. ASSUME faults < 2, NEW i \in Items PROVE Undoable(i)'
    <3>1. Undoable(i)
      BY <1>2, <2>3
    <3>2. CASE i # Last(installed)
      <4>1. live'[i] = live[i]
        BY <1>2, <2>1, <2>2, <3>2
      <4>2. IsInstalled(i)' <=> IsInstalled(i)
        BY <1>1, <2>2, <3>2 DEF IsInstalled
      <4> QED
        BY <1>1, <3>1, <4>1, <4>2 DEF Undoable
    <3>3. CASE i = Last(installed)
      <4>1. live'[i] = "none"
        BY <1>2, <2>1, <3>3
      <4>2. IsInstalled(i)
        BY <2>2, <3>3 DEF IsInstalled
      <4>3. aside[i] = base[i]
        BY <3>1, <4>2 DEF Undoable
      <4> QED
        BY <1>1, <4>1, <4>3 DEF Undoable
    <3> QED
      BY <3>2, <3>3
  <2> QED
    BY <1>1, <1>2, <2>1, <2>3, <2>4, UndoFrame
<1> QED
  BY <1>3, <1>4
(* A path is put back where its place is free.                             *)
LEMMA PutBackAttempt == Inv /\ AttemptInv /\ PutBack => AttemptInv'
<1> SUFFICES ASSUME Inv, AttemptInv, PutBack PROVE AttemptInv'
  OBVIOUS
<1> DEFINE i == Last(moved)
<1>1. /\ pc = "putback" /\ pc' = pc /\ moved # <<>> /\ installed = <<>>
      /\ moved' = Front(moved)
      /\ IF Holds(aside, i) /\ ~Holds(live, i)
         THEN aside' = [aside EXCEPT ![i] = "none"] /\ live' = [live EXCEPT ![i] = aside[i]]
         ELSE aside' = aside /\ live' = live
      /\ UNCHANGED <<archive, base, installed, outcome, faults>>
  BY DEF PutBack, At, fixed, Inv, InstalledIsNew
<1>2. /\ faults \in Nat /\ faults >= 1
      /\ faults < 2 => \A j \in Items : Undoable(j) /\ Returnable(j)
      /\ live \in [Items -> Contents] /\ aside \in [Items -> Contents]
      /\ moved \in Seq(Items)
  BY <1>1 DEF AttemptInv, UndoReaches, Inv, DataTypes
<1>3. /\ i \in Items
      /\ \A j \in Items : j # i /\ (\E n \in 1..Len(moved) : moved[n] = j)
                           => \E n \in 1..Len(moved') : moved'[n] = j
  <2>1. moved \in Seq(Items) /\ moved # <<>> /\ moved' = Front(moved)
    BY <1>1, <1>2
  <2>2. /\ i \in Items
        /\ \A j \in Items : j # i /\ (\E n \in 1..Len(moved) : moved[n] = j)
             => \E n \in 1..Len(Front(moved)) : Front(moved)[n] = j
    BY <2>1, Shorter
  <2> QED
    BY <2>1, <2>2
<1> HIDE DEF i
<1>4. \A j \in Items : ~IsInstalled(j) /\ ~IsInstalled(j)'
  BY <1>1, EmptySeq DEF IsInstalled
<1>5. ASSUME faults < 2, NEW j \in Items PROVE Undoable(j)' /\ Returnable(j)'
  <2>1. \/ live[j] = base[j] /\ aside[j] = "none"
        \/ live[j] = "none" /\ aside[j] = base[j]
    BY <1>2, <1>4, <1>5 DEF Undoable
  <2>2. CASE j # i
    <3>1. live'[j] = live[j] /\ aside'[j] = aside[j]
      BY <1>1, <1>2, <1>3, <2>2
    <3>2. Undoable(j)'
      BY <1>1, <1>4, <2>1, <3>1 DEF Undoable
    <3>3. Returnable(j)'
      BY <1>2, <1>3, <1>5, <2>2, <3>1 DEF Returnable, Holds
    <3> QED
      BY <3>2, <3>3
  <2>3. CASE j = i
    <3>1. aside'[j] = "none" /\ live'[j] = base[j]
      BY <1>1, <1>2, <2>1, <2>3 DEF Holds
    <3> QED
      BY <1>1, <1>4, <3>1 DEF Undoable, Returnable, Holds
  <2> QED
    BY <2>2, <2>3
<1> QED
  BY <1>1, <1>2, <1>5, UndoFrame

(* An attempt ends. When it was undone, and no removal of a stage failed,  *)
(* nothing is aside any more, so what can be undone was undone.            *)
LEMMA EndAttempt == Inv /\ AttemptInv /\ (Undone \/ UndoFails \/ Crash) => AttemptInv'
<1> SUFFICES ASSUME Inv, AttemptInv, Undone \/ UndoFails \/ Crash PROVE AttemptInv'
  OBVIOUS
<1>1. /\ pc' = "stopped" /\ stage' = 1 /\ UNCHANGED base
      /\ outcome' \in {"failed", "aborted", "crashed"}
  BY DEF Undone, UndoFails, Crash, End, Ended
<1>2. base' \in [Items -> Contents] /\ faults' \in Nat
  <2>1. faults' \in {faults, faults + 1, faults + 2}
    <3>1. CASE Undone \/ UndoFails
      <4>1. PICK failures \in {0, 1} :
              \/ faults' = faults + failures + 0
              \/ faults' = faults + failures + 1
        BY <3>1 DEF Undone, UndoFails, End
      <4>2. faults \in Nat
        BY DEF AttemptInv
      <4> QED
        BY <4>1, <4>2
    <3>2. CASE Crash
      BY <3>2 DEF Crash
    <3> QED
      BY <3>1, <3>2
  <2> QED
    BY <1>1, <2>1 DEF AttemptInv
<1>3. FailedIsUndone'
  <2>1. CASE Undone
    <3>1. pc = "putback" /\ moved = <<>> /\ installed = <<>>
      BY <2>1 DEF Undone, At, Inv, InstalledIsNew
    <3>2. PICK rests \in SUBSET Rests :
            /\ live' = Littered(live, rests)
            /\ rests = Strewn(aside) \/ faults' = faults + 1
      BY <2>1, EndKeeps DEF AttemptInv
    <3>3. ASSUME faults' < 2 PROVE live' = base
      <4>1. faults \in Nat /\ faults >= 1
        BY <3>1 DEF AttemptInv, UndoReaches
      <4>2. faults < 2 /\ faults' # faults + 1
        <5>1. faults' = faults \/ faults' = faults + 1
          BY <2>1, <4>1 DEF Undone, End
        <5> QED
          BY <3>3, <4>1, <5>1
      <4>3. \A i \in Items : Undoable(i) /\ Returnable(i)
        BY <3>1, <4>2 DEF AttemptInv, UndoReaches
      <4>4. \A i \in Items : aside[i] = "none" /\ ~IsInstalled(i)
        BY <3>1, <4>3, EmptySeq DEF Returnable, Holds, IsInstalled
      <4>5. \A i \in Items : live[i] = base[i]
        BY <4>3, <4>4 DEF Undoable
      <4>6. rests = {}
        BY <3>2, <4>2, <4>4, RestsHere DEF Strewn, Holds
      <4>7. live \in [Items -> Contents] /\ base \in [Items -> Contents]
        BY DEF AttemptInv, Inv, DataTypes
      <4>8. live' \in [Items -> Contents] /\ \A i \in Items : live'[i] = live[i]
        BY <3>2, <4>6, <4>7, LitteredKeeps
      <4> QED
        BY <4>5, <4>7, <4>8
    <3> QED
      BY <1>1, <3>3 DEF FailedIsUndone
  <2>2. CASE UndoFails \/ Crash
    BY <2>2 DEF UndoFails, Crash, End, Ended, FailedIsUndone
  <2> QED
    BY <2>1, <2>2
<1>4. StageByStage' /\ UndoReaches' /\ OutcomeIsLast' /\ AllWanted' /\ DoneIsArchive'
  BY <1>1 DEF StageByStage, UndoReaches, OutcomeIsLast, AllWanted, DoneIsArchive
<1> QED
  BY <1>2, <1>3, <1>4 DEF AttemptInv

(* The two invariants together are inductive.                              *)
LEMMA NextAttempt == Inv /\ AttemptInv /\ [Next]_restoreVars => AttemptInv'
<1> SUFFICES ASSUME Inv, AttemptInv, [Next]_restoreVars PROVE AttemptInv'
  OBVIOUS
<1>1. CASE Forward
  <2>1. ASSUME NEW i \in Items, Move(i) \/ Install(i) PROVE AttemptInv'
    BY <2>1, MoveAttempt, InstallAttempt
  <2>2. ASSUME NEW removed \in BOOLEAN, Discard(removed) PROVE AttemptInv'
    BY <2>2, DiscardAttempt
  <2> QED
    BY <1>1, <2>1, <2>2, StoppedAttempt, ExtractAttempt, AllMovedAttempt, AllInstalledAttempt,
       SucceedAttempt DEF Forward
<1>2. CASE Undo
  BY <1>2, HandlerAttempt, UninstallAttempt, PutBackAttempt, EndAttempt DEF Undo
<1>3. CASE Crash \/ ControllerRuns
  BY <1>3, EndAttempt, StoppedAttempt
<1>4. CASE UNCHANGED restoreVars
  <2>1. UNCHANGED <<archive, live, base, aside, staged, moved, installed, pc, stage, outcome,
                    faults>>
    BY <1>4 DEF restoreVars
  <2>2. \A i : /\ Untouched(i)' <=> Untouched(i)
               /\ SetAside(i)' <=> SetAside(i)
               /\ Replaced(i)' <=> Replaced(i)
               /\ Undoable(i)' <=> Undoable(i)
               /\ Returnable(i)' <=> Returnable(i)
               /\ Wanted(i)' = Wanted(i)
    BY <2>1 DEF Untouched, SetAside, Replaced, Undoable, Returnable, Wanted, Unpacked,
                IsInstalled, Scope, InScope, Holds
  <2>3. Scope' = Scope /\ \A s : InScope(s)' <=> InScope(s)
    BY <2>1 DEF Scope, InScope
  <2>4. StageByStage'
    BY <2>1, <2>2, <2>3 DEF AttemptInv, StageByStage
  <2>5. DoneIsArchive'
    BY <2>1, <2>3 DEF AttemptInv, DoneIsArchive, Holds
  <2> QED
    BY <2>1, <2>2, <2>3, <2>4, <2>5 DEF AttemptInv, UndoReaches, OutcomeIsLast, AllWanted,
                                        FailedIsUndone
<1> QED
  BY <1>1, <1>2, <1>3, <1>4 DEF Next

(* All three properties of an attempt that ended follow from it.           *)
LEMMA AttemptHolds == Spec => [](Inv /\ AttemptInv)
<1>1. Init => Inv /\ AttemptInv
  BY InitInv, InitAttempt
<1>2. Inv /\ AttemptInv /\ [Next]_restoreVars => (Inv /\ AttemptInv)'
  BY NextInv, NextAttempt
<1> QED
  BY <1>1, <1>2, PTL DEF Spec

(* A restore that failed once and could undo its steps changed nothing:    *)
(* the handler removes what was installed and puts back what was moved     *)
(* (archives.py:499-509), whichever step failed, for any entries and       *)
(* archive and after any earlier crashes.                                  *)
THEOREM FailedLeavesBase == Spec => []FailedIsUndone
<1>1. AttemptInv => FailedIsUndone
  BY DEF AttemptInv
<1> QED
  BY <1>1, AttemptHolds, PTL

(* A restore that succeeds leaves exactly the archive in its scope and     *)
(* what was there outside it, whatever earlier attempts left: the sweep of *)
(* a root takes their leftovers too (archives.py:596-601), and one is left *)
(* only where a removal failed and was ignored (archives.py:484-493).      *)
THEOREM DoneLeavesArchive == Spec => []DoneIsArchive
<1>1. AttemptInv => DoneIsArchive
  BY DEF AttemptInv
<1> QED
  BY <1>1, AttemptHolds, PTL

----------------------------------------------------------------------------
(* The WAL files and the database they belong to                          *)

Has(s, i) == \E n \in 1..Len(s) : s[n] = i
NoWal == \A s \in Sidecars : live[s] = "none"

(* The archive has no WAL, and after the first stage there is none.        *)
WalIsGone ==
    /\ \A s \in Sidecars : staged[s] = "none"
    /\ (pc = "move" /\ stage # 1) \/ pc \in {"install", "discard"} => NoWal

(* The attempt does not install a database before it moved one, and the    *)
(* undo finds the place of the old one empty when it puts it back.         *)
DbIsSwapped ==
    /\ Has(moved, "db") => /\ NoWal /\ aside["db"] # "none"
                           /\ live["db"] # "none" => Has(installed, "db")
    /\ Has(installed, "db") => Has(moved, "db")
    /\ pc \in {"extract", "move", "install"} => Has(moved, "db") \/ live["db"] # "none"

(* The database is moved once, after the WAL, and so is put back before it.*)
DbIsLast(s) ==
    \A m, n \in 1..Len(s) : s[m] = "db" /\ s[n] \in Sidecars \cup {"db"} => n <= m

(* A WAL that was moved aside belongs to the database that was there.      *)
AsideFits == \A s \in Sidecars :
    aside[s] # "none" => aside[s] = IF Has(moved, "db") THEN aside["db"] ELSE live["db"]

(* The rollback paths are of no use any more.                              *)
Over == pc = "discard" \/ (pc = "stopped" /\ outcome = "done")

WalInv ==
    /\ WalFitsDatabase /\ WalIsGone
    /\ ~Over => DbIsSwapped /\ DbIsLast(moved) /\ AsideFits
    /\ pc = "stopped" => moved = <<>>
    /\ pc \in {"stopped", "extract"} => stage = 1

NoWalPacked == archive.entries \cap Sidecars = {}

----------------------------------------------------------------------------
(* Lemmas about the lists                                                  *)

(* The empty list.                                                         *)
LEMMA EmptyHas == DbIsLast(<<>>) /\ \A i : ~Has(<<>>, i)
BY EmptySeq DEF DbIsLast, Has

(* A list to which an entry is added.                                      *)
LEMMA AppendHas ==
    ASSUME NEW s \in Seq(Items), NEW i \in Items
    PROVE  /\ \A j : Has(Append(s, i), j) <=> Has(s, j) \/ j = i
           /\ DbIsLast(s) /\ (i \in Sidecars \cup {"db"} => ~Has(s, "db"))
                => DbIsLast(Append(s, i))
<1>1. /\ Append(s, i) \in Seq(Items) /\ Len(Append(s, i)) = Len(s) + 1 /\ Len(s) \in Nat
      /\ \A n \in 1..Len(s) : Append(s, i)[n] = s[n]
      /\ Append(s, i)[Len(s) + 1] = i
  BY AppendProperties, LenProperties
<1>2. ASSUME NEW j PROVE Has(Append(s, i), j) <=> Has(s, j) \/ j = i
  <2>1. ASSUME Has(s, j) \/ j = i PROVE Has(Append(s, i), j)
    BY <1>1, <2>1 DEF Has
  <2>2. ASSUME NEW n \in 1..Len(s) + 1, Append(s, i)[n] = j PROVE Has(s, j) \/ j = i
    BY <1>1, <2>2 DEF Has
  <2> QED
    BY <1>1, <2>1, <2>2 DEF Has
<1>3. ASSUME DbIsLast(s), i \in Sidecars \cup {"db"} => ~Has(s, "db"),
             NEW m \in 1..Len(s) + 1, NEW n \in 1..Len(s) + 1,
             Append(s, i)[m] = "db", Append(s, i)[n] \in Sidecars \cup {"db"}
      PROVE  n <= m
  <2>1. CASE m = Len(s) + 1
    BY <1>1, <2>1
  <2>2. CASE m # Len(s) + 1 /\ n = Len(s) + 1
    BY <1>1, <1>3, <2>2 DEF Has
  <2>3. CASE m # Len(s) + 1 /\ n # Len(s) + 1
    BY <1>1, <1>3, <2>3 DEF DbIsLast
  <2> QED
    BY <2>1, <2>2, <2>3
<1> QED
  BY <1>1, <1>2, <1>3 DEF DbIsLast

(* A list without its last entry: the database is put back first.          *)
LEMMA FrontHas ==
    ASSUME NEW s \in Seq(Items), s # <<>>
    PROVE  /\ Last(s) \in Items
           /\ \A j \in Items : j # Last(s) => (Has(Front(s), j) <=> Has(s, j))
           /\ Has(Front(s), "db") => Has(s, "db")
           /\ DbIsLast(s) => /\ DbIsLast(Front(s))
                             /\ Last(s) = "db" => ~Has(Front(s), "db")
                             /\ Last(s) \in Sidecars => ~Has(s, "db")
<1>1. /\ Last(s) \in Items /\ Len(s) \in Nat \ {0} /\ Last(s) = s[Len(s)]
      /\ \A n \in 1..Len(Front(s)) : Front(s)[n] = s[n] /\ n \in 1..Len(s)
      /\ \A j \in Items : j # Last(s) /\ Has(s, j) => Has(Front(s), j)
  BY Shorter, EmptySeq DEF Has, Last
<1>2. \A j : Has(Front(s), j) => Has(s, j)
  BY <1>1 DEF Has
<1>3. DbIsLast(s) => DbIsLast(Front(s))
  BY <1>1 DEF DbIsLast
<1>4. ASSUME DbIsLast(s), Last(s) \in Sidecars PROVE ~Has(s, "db")
  <2>1. ASSUME NEW m \in 1..Len(s), s[m] = "db" PROVE FALSE
    <3>1. Len(s) <= m
      BY <1>1, <1>4, <2>1 DEF DbIsLast
    <3> QED
      BY <1>1, <1>4, <2>1, <3>1 DEF Sidecars
  <2> QED
    BY <2>1 DEF Has
<1>5. ASSUME DbIsLast(s), Last(s) = "db" PROVE ~Has(Front(s), "db")
  <2>1. ASSUME NEW m \in 1..Len(Front(s)), Front(s)[m] = "db" PROVE FALSE
    <3>0. m \in 1..Len(s) /\ s[m] = "db" /\ Len(s) \in 1..Len(s) /\ s[Len(s)] = "db"
      BY <1>1, <1>5, <2>1
    <3>1. m \in 1..Len(s) /\ Len(s) <= m
      BY <1>5, <3>0 DEF DbIsLast
    <3>2. Len(Front(s)) = Len(s) - 1
      BY Shorter
    <3> QED
      BY <1>1, <2>1, <3>1, <3>2
  <2> QED
    BY <2>1 DEF Has
<1> QED
  BY <1>1, <1>2, <1>3, <1>4, <1>5

----------------------------------------------------------------------------
(* One lemma for each group of actions                                     *)

(* What the lemmas need of the entries.                                    *)
LEMMA ItemsHere ==
    /\ "db" \in Items /\ Sidecars \subseteq Items /\ "db" \notin Sidecars
    /\ Members[Stages[1]] = Sidecars /\ "db" \in Members[Stages[2]]
BY DEF Items, Sidecars, Members, Stages

(* Before the first attempt, the WAL belongs to the database.              *)
LEMMA InitWal == Init => WalInv
<1> SUFFICES ASSUME Init PROVE WalInv
  OBVIOUS
<1>1. PICK present \in SUBSET (Items \ Rests) :
        /\ {"db", "secrets"} \subseteq present
        /\ live = [i \in Items |-> IF i \in present THEN "old" ELSE "none"]
  BY DEF Init
<1>2. /\ aside = Nothing /\ staged = Nothing /\ moved = <<>> /\ installed = <<>>
      /\ pc = "stopped" /\ stage = 1
  BY DEF Init
<1>3. WalFitsDatabase
  BY <1>1, ItemsHere DEF WalFitsDatabase, Holds
<1>4. WalIsGone /\ AsideFits
  BY <1>2, ItemsHere DEF WalIsGone, AsideFits, Nothing
<1>5. DbIsSwapped /\ DbIsLast(moved)
  BY <1>2, EmptyHas DEF DbIsSwapped
<1> QED
  BY <1>2, <1>3, <1>4, <1>5 DEF WalInv

(* An attempt begins with the lists empty, and only if there is a database.*)
LEMMA BeginWal == Inv /\ WalInv /\ (Begin \/ Refuse) => WalInv'
<1> SUFFICES ASSUME Inv, WalInv, Begin \/ Refuse PROVE WalInv'
  OBVIOUS
<1> USE DEF WalInv, Over
<1>1. /\ pc = "stopped" /\ outcome # "done"
      /\ pc' = "stopped" \/ (pc' = "extract" /\ live["db"] # "none")
      /\ live' = Ensured(live)
      /\ UNCHANGED <<aside, staged, moved, installed, stage>>
  BY DEF Begin, Refuse, At, SafetyBackup, Holds
<1>2. \A i \in Sidecars \cup {"db"} : live'[i] = live[i]
  BY <1>1 DEF Ensured, Inv, DataTypes, Sidecars, Items
<1>3. moved = <<>> /\ installed = <<>>
  BY <1>1 DEF Inv, InstalledIsNew
<1>4. WalFitsDatabase' /\ WalIsGone' /\ AsideFits'
  BY <1>1, <1>2 DEF WalFitsDatabase, WalIsGone, AsideFits, NoWal, Holds
<1>5. DbIsSwapped' /\ DbIsLast(moved')
  BY <1>1, <1>2, <1>3, EmptyHas DEF DbIsSwapped
<1> QED
  BY <1>1, <1>3, <1>4, <1>5

(* No WAL is unpacked.                                                     *)
LEMMA ExtractWal == Inv /\ WalInv /\ NoWalPacked /\ Extract => WalInv'
<1> SUFFICES ASSUME Inv, WalInv, NoWalPacked, Extract PROVE WalInv'
  OBVIOUS
<1> USE DEF WalInv, Over
<1>1. /\ pc = "extract" /\ pc' = "move"
      /\ staged' = [i \in Items |-> IF i \in archive.entries \cap Scope THEN "new" ELSE "none"]
      /\ UNCHANGED <<live, aside, moved, installed, stage>>
  BY DEF Extract, Packed, At
<1>2. \A s \in Sidecars : staged'[s] = "none"
  BY <1>1, ItemsHere DEF NoWalPacked
<1>3. stage = 1
  BY <1>1
<1>4. WalFitsDatabase' /\ WalIsGone' /\ AsideFits'
  BY <1>1, <1>2, <1>3 DEF WalFitsDatabase, WalIsGone, AsideFits, NoWal, Holds
<1>5. DbIsSwapped' /\ DbIsLast(moved')
  BY <1>1 DEF DbIsSwapped, NoWal
<1> QED
  BY <1>1, <1>4, <1>5

(* The WAL leaves before its database does.                                *)
LEMMA MoveWal == ASSUME NEW i \in Items, Inv, WalInv, Move(i) PROVE WalInv'
<1> USE DEF WalInv, Over
<1>1. /\ pc = "move" /\ i \in In /\ live[i] # "none"
      /\ live' = [live EXCEPT ![i] = "none"] /\ aside' = [aside EXCEPT ![i] = live[i]]
      /\ moved' = Append(moved, i)
      /\ UNCHANGED <<staged, installed, pc, stage>>
  BY DEF Move, At, ToMove, Holds
<1>2. /\ moved \in Seq(Items)
      /\ live \in [Items -> Contents] /\ aside \in [Items -> Contents] /\ stage \in 1..5
  BY DEF Inv, DataTypes
<1>3. /\ \A j : Has(moved', j) <=> Has(moved, j) \/ j = i
      /\ (i \in Sidecars \cup {"db"} => ~Has(moved, "db")) => DbIsLast(moved')
  BY <1>1, <1>2, AppendHas
<1>4. CASE i \in Sidecars
  <2>1. ~Has(moved, "db") /\ i # "db"
    BY <1>1, <1>4, ItemsHere DEF DbIsSwapped, NoWal
  <2>2. live[i] = live["db"]
    BY <1>1, <1>4 DEF WalFitsDatabase, Holds
  <2>3. WalFitsDatabase' /\ WalIsGone'
    BY <1>1, <1>2, <1>4, <2>1, ItemsHere DEF WalFitsDatabase, WalIsGone, NoWal, Holds
  <2>4. AsideFits'
    BY <1>1, <1>2, <1>3, <1>4, <2>1, <2>2, ItemsHere DEF AsideFits
  <2>5. DbIsSwapped'
    BY <1>1, <1>2, <1>3, <1>4, <2>1, ItemsHere DEF DbIsSwapped, NoWal
  <2> QED
    BY <1>1, <1>3, <2>1, <2>3, <2>4, <2>5
<1>5. CASE i = "db"
  <2>1. stage = 2
    BY <1>1, <1>2, <1>5, ItemsHere, StagesAreApart DEF In
  <2>2. NoWal
    BY <1>1, <2>1 DEF WalIsGone
  <2>3. ~Has(moved, "db")
    <3>1. aside["db"] = "none"
      BY <1>1, <1>5 DEF Inv, PlacesAreFree, Holds
    <3> QED
      BY <1>1, <3>1 DEF DbIsSwapped
  <2>4. NoWal'
    BY <1>1, <1>2, <2>2, ItemsHere DEF NoWal
  <2>5. WalFitsDatabase' /\ WalIsGone'
    BY <1>1, <2>4 DEF WalFitsDatabase, WalIsGone, NoWal, Holds
  <2>6. AsideFits'
    BY <1>1, <1>2, <1>3, <1>5, <2>3, ItemsHere DEF AsideFits
  <2>7. DbIsSwapped'
    BY <1>1, <1>2, <1>3, <1>5, <2>4, ItemsHere DEF DbIsSwapped
  <2> QED
    BY <1>1, <1>3, <2>3, <2>5, <2>6, <2>7
<1>6. CASE i \notin Sidecars \cup {"db"}
  <2>1. /\ \A j \in Sidecars \cup {"db"} : live'[j] = live[j] /\ aside'[j] = aside[j]
        /\ Has(moved', "db") <=> Has(moved, "db")
    BY <1>1, <1>2, <1>3, <1>6, ItemsHere
  <2> QED
    BY <1>1, <1>3, <1>6, <2>1
       DEF WalFitsDatabase, WalIsGone, NoWal, AsideFits, DbIsSwapped, Holds
<1> QED
  BY <1>4, <1>5, <1>6

(* After the first stage the WAL is gone.                                  *)
LEMMA TurnWal == Inv /\ WalInv /\ (AllMoved \/ AllInstalled) => WalInv'
<1> SUFFICES ASSUME Inv, WalInv, AllMoved \/ AllInstalled PROVE WalInv'
  OBVIOUS
<1> USE DEF WalInv, Over
<1>1. UNCHANGED <<live, aside, staged, moved, installed>>
  BY DEF AllMoved, AllInstalled, data
<1>2. pc \in {"move", "install"} /\ pc' \in {"install", "move", "discard"}
  BY DEF AllMoved, AllInstalled, At
<1>3. NoWal
  <2>1. CASE AllMoved /\ stage = 1
    BY <2>1, ItemsHere DEF AllMoved, ToMove, In, NoWal, Holds
  <2>2. CASE AllMoved /\ stage # 1
    BY <2>2 DEF AllMoved, At, WalIsGone
  <2>3. CASE AllInstalled
    BY <2>3 DEF AllInstalled, At, WalIsGone
  <2> QED
    BY <2>1, <2>2, <2>3
<1>4. WalFitsDatabase' /\ WalIsGone' /\ AsideFits'
  BY <1>1, <1>2, <1>3 DEF WalFitsDatabase, WalIsGone, AsideFits, NoWal, Holds
<1>5. DbIsSwapped' /\ DbIsLast(moved')
  BY <1>1, <1>2, <1>3 DEF DbIsSwapped, NoWal
<1> QED
  BY <1>2, <1>4, <1>5

(* A database is installed where one was moved away, with no WAL around.   *)
LEMMA InstallWal == ASSUME NEW i \in Items, Inv, WalInv, Install(i) PROVE WalInv'
<1> USE DEF WalInv, Over
<1>1. /\ pc = "install" /\ i \in In /\ staged[i] # "none" /\ live[i] = "none"
      /\ live' = [live EXCEPT ![i] = staged[i]] /\ staged' = [staged EXCEPT ![i] = "none"]
      /\ installed' = Append(installed, i)
      /\ UNCHANGED <<aside, moved, pc, stage>>
  BY DEF Install, At, ToInstall, Holds, Inv, PlacesAreFree
<1>2. /\ installed \in Seq(Items) /\ live \in [Items -> Contents]
      /\ staged \in [Items -> {"none", "new"}]
  BY DEF Inv, DataTypes
<1>3. \A j : Has(installed', j) <=> Has(installed, j) \/ j = i
  BY <1>1, <1>2, AppendHas
<1>4. i \notin Sidecars /\ NoWal
  BY <1>1 DEF WalIsGone
<1>5. i = "db" => Has(moved, "db")
  BY <1>1 DEF DbIsSwapped
<1>6. NoWal'
  BY <1>1, <1>2, <1>4, ItemsHere DEF NoWal
<1>7. \A s \in Sidecars : staged'[s] = "none"
  BY <1>1, <1>2, <1>4, ItemsHere DEF WalIsGone
<1>8. i # "db" => live'["db"] = live["db"]
  BY <1>1, <1>2, ItemsHere
<1>9. WalFitsDatabase' /\ WalIsGone'
  BY <1>6, <1>7 DEF WalFitsDatabase, WalIsGone, NoWal, Holds
<1>10. AsideFits'
  BY <1>1, <1>5, <1>8 DEF AsideFits
<1>11. DbIsSwapped'
  <2>1. live["db"] = "none" /\ i # "db" => live'["db"] = "none"
    BY <1>8
  <2>2. Has(installed', "db") => Has(moved', "db")
    BY <1>1, <1>3, <1>5 DEF DbIsSwapped
  <2>3. Has(moved', "db") \/ live'["db"] # "none"
    BY <1>1, <1>5, <1>8 DEF DbIsSwapped
  <2>4. Has(moved', "db") => /\ aside'["db"] # "none"
                             /\ live'["db"] # "none" => Has(installed', "db")
    BY <1>1, <1>3, <1>8 DEF DbIsSwapped
  <2> QED
    BY <1>1, <1>6, <2>2, <2>3, <2>4 DEF DbIsSwapped
<1> QED
  BY <1>1, <1>9, <1>10, <1>11

(* There is no WAL while the rollback paths are discarded.                 *)
LEMMA DiscardWal == Inv /\ WalInv /\ (Succeed \/ \E r \in BOOLEAN : Discard(r)) => WalInv'
<1> SUFFICES ASSUME Inv, WalInv, Succeed \/ \E r \in BOOLEAN : Discard(r) PROVE WalInv'
  OBVIOUS
<1> USE DEF WalInv, Over
<1>1. pc = "discard" /\ UNCHANGED staged /\ NoWal
  BY DEF Succeed, Discard, At, WalIsGone
<1>2. NoWal'
  <2>1. CASE Succeed
    <3>1. \A s \in Sidecars : live'[s] = live[s]
      BY <2>1, SucceedKeeps, LitteredKeeps, RestsHere, ItemsHere DEF Inv, DataTypes
    <3> QED
      BY <1>1, <3>1 DEF NoWal
  <2>2. CASE \E r \in BOOLEAN : Discard(r)
    BY <1>1, <2>2 DEF Discard, NoWal
  <2> QED
    BY <2>1, <2>2
<1>3. WalFitsDatabase' /\ WalIsGone'
  BY <1>1, <1>2 DEF WalFitsDatabase, WalIsGone, NoWal, Holds
<1>4. CASE Succeed
  <2>1. pc' = "stopped" /\ stage' = 1 /\ outcome' = "done" /\ moved' = <<>>
    BY <1>4 DEF Succeed
  <2> QED
    BY <1>3, <2>1
<1>5. CASE \E r \in BOOLEAN : Discard(r)
  BY <1>1, <1>3, <1>5 DEF Discard
<1> QED
  BY <1>4, <1>5

(* The steps of the undo that move nothing.                                *)
LEMMA HandlerWal == Inv /\ WalInv /\ (Fail \/ AllRemoved) => WalInv'
<1> SUFFICES ASSUME Inv, WalInv, Fail \/ AllRemoved PROVE WalInv'
  OBVIOUS
<1>1. /\ UNCHANGED <<live, aside, staged, moved, installed>>
      /\ pc \notin {"discard", "stopped"} /\ pc' \in {"uninstall", "putback"}
  BY DEF Fail, AllRemoved, Raise, At, data
<1> QED
  BY <1>1 DEF WalInv, Over, WalFitsDatabase, WalIsGone, AsideFits, DbIsSwapped, NoWal, Holds

(* The database of the archive is removed: there is no WAL beside it.      *)
LEMMA UninstallWal == Inv /\ WalInv /\ (Uninstall \/ UninstallPasses) => WalInv'
<1> SUFFICES ASSUME Inv, WalInv, Uninstall \/ UninstallPasses PROVE WalInv'
  OBVIOUS
<1> USE DEF WalInv, Over
<1> DEFINE i == Last(installed)
<1>1. /\ pc = "uninstall" /\ installed # <<>> /\ installed' = Front(installed)
      /\ live' = [live EXCEPT ![i] = "none"] \/ (live' = live /\ i # "db")
      /\ UNCHANGED <<aside, staged, moved, pc, stage>>
  BY DEF Uninstall, UninstallPasses, At, data
<1>2. /\ live \in [Items -> Contents] /\ installed \in Seq(Items)
  BY DEF Inv, DataTypes
<1>3. /\ i \in Items
      /\ i # "db" => (Has(installed', "db") <=> Has(installed, "db"))
      /\ Has(installed', "db") => Has(installed, "db")
      /\ i = "db" => Has(installed, "db")
  <2>1. i = "db" => Has(installed, "db")
    BY <1>1, <1>2, Shorter DEF Has
  <2> QED
    BY <1>1, <1>2, <2>1, FrontHas, ItemsHere
<1> HIDE DEF i
<1>4. \A s \in Sidecars : live'[s] = live[s] \/ live'[s] = "none"
  BY <1>1, <1>2, <1>3, ItemsHere
<1>5. CASE i = "db"
  <2>1. Has(moved, "db") /\ NoWal /\ live'["db"] = "none"
    BY <1>1, <1>2, <1>3, <1>5 DEF DbIsSwapped
  <2>2. NoWal'
    BY <1>4, <2>1 DEF NoWal
  <2>3. WalFitsDatabase' /\ WalIsGone'
    BY <1>1, <2>2 DEF WalFitsDatabase, WalIsGone, NoWal, Holds
  <2>4. DbIsSwapped' /\ AsideFits'
    BY <1>1, <2>1, <2>2 DEF DbIsSwapped, AsideFits
  <2> QED
    BY <1>1, <2>3, <2>4
<1>6. CASE i # "db"
  <2>1. live'["db"] = live["db"]
    BY <1>1, <1>2, <1>6, ItemsHere
  <2>2. NoWal => NoWal'
    BY <1>4 DEF NoWal
  <2>3. WalFitsDatabase' /\ WalIsGone'
    BY <1>1, <1>4, <2>1 DEF WalFitsDatabase, WalIsGone, Holds
  <2>4. DbIsSwapped' /\ AsideFits'
    BY <1>1, <1>3, <1>6, <2>1, <2>2 DEF DbIsSwapped, AsideFits
  <2> QED
    BY <1>1, <2>3, <2>4
<1> QED
  BY <1>5, <1>6

(* The old database comes back first, then the WAL that belongs to it.     *)
LEMMA PutBackWal == Inv /\ WalInv /\ PutBack => WalInv'
<1> SUFFICES ASSUME Inv, WalInv, PutBack PROVE WalInv'
  OBVIOUS
<1> USE DEF WalInv, Over
<1> DEFINE i == Last(moved)
<1>1. /\ pc = "putback" /\ moved # <<>> /\ moved' = Front(moved)
      /\ IF Holds(aside, i) /\ ~Holds(live, i)
         THEN aside' = [aside EXCEPT ![i] = "none"] /\ live' = [live EXCEPT ![i] = aside[i]]
         ELSE aside' = aside /\ live' = live
      /\ UNCHANGED <<staged, installed, pc, stage>>
  BY DEF PutBack, At
<1>2. /\ live \in [Items -> Contents] /\ aside \in [Items -> Contents]
      /\ moved \in Seq(Items) /\ installed = <<>>
  BY <1>1 DEF Inv, DataTypes, InstalledIsNew
<1>3. /\ i \in Items /\ DbIsLast(moved')
      /\ i # "db" => (Has(moved', "db") <=> Has(moved, "db"))
      /\ i = "db" => ~Has(moved', "db") /\ Has(moved, "db")
      /\ i \in Sidecars => ~Has(moved, "db")
  <2>1. i = "db" => Has(moved, "db")
    BY <1>1, <1>2, Shorter DEF Has
  <2> QED
    BY <1>1, <1>2, <2>1, FrontHas, ItemsHere
<1>4. \A j : ~Has(installed, j) /\ ~Has(installed', j)
  BY <1>1, <1>2, EmptyHas
<1> HIDE DEF i
<1>5. CASE i = "db"
  <2>1. NoWal /\ aside["db"] # "none" /\ live["db"] = "none"
    BY <1>1, <1>3, <1>4, <1>5 DEF DbIsSwapped
  <2>2. live'["db"] = aside["db"] /\ NoWal' /\ \A s \in Sidecars : aside'[s] = aside[s]
    BY <1>1, <1>2, <1>5, <2>1, ItemsHere DEF NoWal, Holds
  <2>3. WalFitsDatabase' /\ WalIsGone'
    BY <1>1, <2>2 DEF WalFitsDatabase, WalIsGone, NoWal, Holds
  <2>4. AsideFits'
    BY <1>1, <1>3, <1>5, <2>2 DEF AsideFits
  <2>5. DbIsSwapped'
    BY <1>1, <1>3, <1>4, <1>5 DEF DbIsSwapped
  <2> QED
    BY <1>1, <1>3, <2>3, <2>4, <2>5
<1>6. CASE i \in Sidecars
  <2>1. ~Has(moved, "db") /\ ~Has(moved', "db") /\ i # "db"
    BY <1>3, <1>6, ItemsHere
  <2>2. live'["db"] = live["db"]
    BY <1>1, <1>2, <2>1, ItemsHere
  <2>3. /\ \A s \in Sidecars : live'[s] = live[s] \/ live'[s] = aside[s]
        /\ \A s \in Sidecars : aside'[s] = aside[s] \/ aside'[s] = "none"
    BY <1>1, <1>2, <1>3, <1>6, ItemsHere
  <2>4. WalFitsDatabase' /\ WalIsGone'
    BY <1>1, <2>1, <2>2, <2>3 DEF WalFitsDatabase, WalIsGone, AsideFits, Holds
  <2>5. DbIsSwapped' /\ AsideFits'
    BY <1>1, <1>4, <2>1, <2>2, <2>3 DEF DbIsSwapped, AsideFits
  <2> QED
    BY <1>1, <1>3, <2>4, <2>5
<1>7. CASE i \notin Sidecars \cup {"db"}
  <2>1. \A j \in Sidecars \cup {"db"} : live'[j] = live[j] /\ aside'[j] = aside[j]
    BY <1>1, <1>2, <1>3, <1>7, ItemsHere
  <2> QED
    BY <1>1, <1>3, <1>4, <1>7, <2>1
       DEF WalFitsDatabase, WalIsGone, NoWal, AsideFits, DbIsSwapped, Holds
<1> QED
  BY <1>5, <1>6, <1>7

(* However an attempt ends, nothing of it is left in its variables.        *)
LEMMA EndWal == Inv /\ WalInv /\ (Undone \/ UndoFails \/ Crash) => WalInv'
<1> SUFFICES ASSUME Inv, WalInv, Undone \/ UndoFails \/ Crash PROVE WalInv'
  OBVIOUS
<1> USE DEF WalInv, Over
<1>1. /\ pc' = "stopped" /\ stage' = 1 /\ aside' = Nothing /\ staged' = Nothing
      /\ moved' = <<>> /\ installed' = <<>>
  BY DEF Undone, UndoFails, Crash, End, Ended
<1>5. \A i \in Sidecars \cup {"db"} : live'[i] = live[i]
  BY EndKeeps, LitteredKeeps, RestsHere, ItemsHere DEF Inv, DataTypes
<1>2. WalFitsDatabase'
  BY <1>5 DEF WalFitsDatabase, Holds
<1>3. WalIsGone' /\ AsideFits'
  BY <1>1, ItemsHere DEF WalIsGone, AsideFits, Nothing
<1>4. DbIsSwapped' /\ DbIsLast(moved')
  BY <1>1, EmptyHas DEF DbIsSwapped
<1> QED
  BY <1>1, <1>2, <1>3, <1>4

(* The WAL that the controller leaves is one of the database it opened.    *)
LEMMA ControllerWal == Inv /\ WalInv /\ ControllerRuns => WalInv'
<1> SUFFICES ASSUME Inv, WalInv, ControllerRuns PROVE WalInv'
  OBVIOUS
<1> USE DEF WalInv, Over
<1> DEFINE opened == IF Holds(live, "db") THEN live["db"] ELSE "empty"
<1>1. PICK wal \in {"none", opened} :
        live' = [Ensured(live) EXCEPT !["db"] = opened, !["wal"] = wal, !["shm"] = wal]
  BY DEF ControllerRuns
<1>2. /\ pc = "stopped" /\ outcome # "done"
      /\ UNCHANGED <<aside, staged, moved, installed, pc, stage>>
  BY DEF ControllerRuns, At
<1>3. moved = <<>> /\ installed = <<>> /\ aside = Nothing
  BY <1>2 DEF Inv, InstalledIsNew, AsideIsMoved
<1>4. Ensured(live) \in [Items -> Contents]
  BY EnsuredKeeps DEF Inv, DataTypes
<1> HIDE DEF opened
<1>5. live'["db"] = opened /\ \A s \in Sidecars : live'[s] = wal
  BY <1>1, <1>4 DEF Items, Sidecars
<1>6. WalFitsDatabase'
  BY <1>5 DEF WalFitsDatabase, Holds
<1>7. WalIsGone' /\ AsideFits'
  BY <1>2, <1>3, ItemsHere DEF WalIsGone, AsideFits, Nothing
<1>8. DbIsSwapped' /\ DbIsLast(moved')
  BY <1>2, <1>3, EmptyHas DEF DbIsSwapped
<1> QED
  BY <1>2, <1>3, <1>6, <1>7, <1>8

(* The two invariants together are inductive.                              *)
LEMMA NextWal == Inv /\ WalInv /\ NoWalPacked /\ [Next]_restoreVars => WalInv'
<1> SUFFICES ASSUME Inv, WalInv, NoWalPacked, [Next]_restoreVars PROVE WalInv'
  OBVIOUS
<1>1. CASE Forward
  <2>1. ASSUME NEW i \in Items, Move(i) \/ Install(i) PROVE WalInv'
    BY <2>1, MoveWal, InstallWal
  <2> QED
    BY <1>1, <2>1, BeginWal, ExtractWal, TurnWal, DiscardWal DEF Forward
<1>2. CASE Undo
  BY <1>2, HandlerWal, UninstallWal, PutBackWal, EndWal DEF Undo
<1>3. CASE Crash \/ ControllerRuns
  BY <1>3, EndWal, ControllerWal
<1>4. CASE UNCHANGED restoreVars
  BY <1>4 DEF restoreVars, WalInv, Over, WalFitsDatabase, WalIsGone, NoWal, DbIsSwapped,
              AsideFits, Holds
<1> QED
  BY <1>1, <1>2, <1>3, <1>4 DEF Next

(* The archive does not change.                                            *)
LEMMA SameArchive == [Next]_restoreVars => archive' = archive
BY DEF Next, Forward, Undo, Begin, Refuse, Extract, Move, AllMoved, Install, AllInstalled,
       Discard, Succeed, Fail, Uninstall, UninstallPasses, AllRemoved, PutBack, Undone,
       UndoFails, Crash, ControllerRuns, fixed, restoreVars

(* A WAL is never beside a database it was not written for, at any moment  *)
(* of a restore, of its undo and after a crash (archives.py:449-515), for  *)
(* any entries and any number of faults, crashes and attempts.             *)
THEOREM WalStaysWithDatabase == Spec => []WalFitsDatabase
<1>1. Init => Inv /\ WalInv /\ NoWalPacked
  BY InitInv, InitWal DEF Init, Archives, NoWalPacked
<1>2. (Inv /\ WalInv /\ NoWalPacked) /\ [Next]_restoreVars => (Inv /\ WalInv /\ NoWalPacked)'
  BY NextInv, NextWal, SameArchive DEF NoWalPacked
<1>3. Inv /\ WalInv => WalFitsDatabase
  BY DEF WalInv
<1> QED
  BY <1>1, <1>2, <1>3, PTL DEF Spec

=============================================================================
