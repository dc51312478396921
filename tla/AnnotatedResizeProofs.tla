------------------------ MODULE AnnotatedResizeProofs ------------------------
(***************************************************************************)
(* What PlacementResize promises a patient user of the OnDelete strategy,  *)
(* for any groups, sizes and numbers of failures and aborted passes: a set *)
(* is resized only while it has the in-progress annotation, and has it     *)
(* until it and its instances have the size asked for.  The operator reads *)
(* annotations from caches and counts in a placement from before its own   *)
(* replace; the invariant says what a note that is late belongs to.        *)
(***************************************************************************)
EXTENDS PatientResizeProofs

(***************************************************************************)
(* The in-progress annotation, as the set or a copy of it shows it.        *)
(***************************************************************************)
Noted(g) == \/ sets[g].inProgress \/ cache.sets[g].inProgress
            \/ Fetched /\ pass.sets[g].inProgress

(***************************************************************************)
(* The update strategy never changes.                                      *)
(***************************************************************************)
FlagInv ==
  \A g \in Groups :
    /\ cache.sets[g].onDelete = sets[g].onDelete
    /\ Fetched => pass.sets[g].onDelete = sets[g].onDelete

(***************************************************************************)
(* Who sees an annotation has seen the edit that came with it.             *)
(***************************************************************************)
NotedInv ==
  \A g \in Groups : Noted(g) =>
    /\ cache.cluster.desired = cluster.desired
    /\ ~At("idle") => pass.cluster.desired = cluster.desired

(***************************************************************************)
(* An annotation that only a copy still shows is of a set that has its     *)
(* size, and no instance too few.                                          *)
(***************************************************************************)
Done(g) ==
  /\ sets[g].replicas = cluster.desired[g] /\ cache.sets[g].replicas = cluster.desired[g]
  /\ Fetched => pass.sets[g].replicas = cluster.desired[g]
  /\ Cardinality(Staying(g)) >= cluster.desired[g]

DoneInv == \A g \in Groups : Noted(g) => sets[g].inProgress \/ Done(g)

(***************************************************************************)
(* Annotations are removed from sets that have their size, and so have     *)
(* their instances.                                                        *)
(***************************************************************************)
FinishInv ==
  pass.pc \in {"finish", "cleanup"} =>
    \A g \in Groups : pass.sets[g].inProgress =>
      Done(g) /\ Cardinality(Staying(g)) = cluster.desired[g]

(***************************************************************************)
(* Instances are added for an annotated set.                               *)
(***************************************************************************)
AddNotedInv ==
  At("add") => \A id \in pass.adding : sets[GroupOf(id)].onDelete => sets[GroupOf(id)].inProgress

NoteInv == FlagInv /\ NotedInv /\ DoneInv /\ FinishInv /\ AddNotedInv

-----------------------------------------------------------------------------
(***************************************************************************)
(* Steps that write no annotation, and in which copies catch up.           *)
(***************************************************************************)
NotesMove ==
  \A g \in Groups :
    /\ sets'[g].onDelete = sets[g].onDelete /\ sets'[g].inProgress = sets[g].inProgress
    /\ cache'.sets[g] \in {cache.sets[g], sets[g]}
    /\ Fetched' =>
         \/ Fetched /\ pass'.sets[g] = pass.sets[g]
         \/ pass'.sets[g] = cache.sets[g] /\ cache'.sets[g] = cache.sets[g]

(***************************************************************************)
(* In such a step nobody sees an annotation that nobody saw before.        *)
(***************************************************************************)
LEMMA NotedBefore ==
  ASSUME NotesMove, NEW g \in Groups, Noted(g)'
  PROVE  Noted(g)
BY ZenonT(60) DEF Noted, NotesMove

(***************************************************************************)
(* Where none appears, who sees one has still seen the edit.               *)
(***************************************************************************)
LEMMA KeepNoted ==
  ASSUME NotedInv, \A g \in Groups : Noted(g)' => Noted(g),
         cluster'.desired = cluster.desired, ViewsMove
  PROVE  NotedInv'
<1> SUFFICES ASSUME NEW g \in Groups, Noted(g)'
             PROVE  /\ cache'.cluster.desired = cluster'.desired
                    /\ ~At("idle")' => pass'.cluster.desired = cluster'.desired
  BY DEF NotedInv
<1>1. /\ cache.cluster.desired = cluster.desired
      /\ ~At("idle") => pass.cluster.desired = cluster.desired
  BY DEF NotedInv
<1> QED
  BY ZenonT(60), <1>1 DEF ViewsMove

(***************************************************************************)
(* The steps leave enough instances where there are.                       *)
(***************************************************************************)
CountsStay ==
  \A g \in Groups : Noted(g) /\ Done(g) => Cardinality(Staying(g)') >= cluster.desired[g]

(***************************************************************************)
(* A set that is done stays so.                                            *)
(***************************************************************************)
LEMMA KeepDone ==
  ASSUME NEW g \in Groups, Noted(g), Done(g), NotesMove, SizesStay, CountsStay
  PROVE  Done(g)'
<1>1. /\ cluster'.desired = cluster.desired
      /\ sets'[g].replicas = sets[g].replicas
      /\ cache'.sets[g] \in {cache.sets[g], sets[g]}
      /\ Fetched' =>
           \/ Fetched /\ pass'.sets[g] = pass.sets[g]
           \/ pass'.sets[g] = cache.sets[g]
  BY ZenonT(60) DEF NotesMove, SizesStay
<1>2. Cardinality(Staying(g)') >= cluster.desired[g]
  BY DEF CountsStay
<1>3. /\ sets[g].replicas = cluster.desired[g] /\ cache.sets[g].replicas = cluster.desired[g]
      /\ Fetched => pass.sets[g].replicas = cluster.desired[g]
  BY DEF Done
<1> QED
  BY ZenonT(60), <1>1, <1>2, <1>3 DEF Done

(***************************************************************************)
(* The end of a pass goes on as it was.                                    *)
(***************************************************************************)
FinishGoesOn ==
  pass'.pc \in {"finish", "cleanup"} =>
    /\ pass.pc \in {"finish", "cleanup"} /\ pass'.sets = pass.sets
    /\ \A g \in Groups : Staying(g)' = Staying(g)

AddGoesOn == At("add")' => At("add") /\ pass'.adding = pass.adding

(***************************************************************************)
(* What steps that write no annotation keep.                               *)
(***************************************************************************)
LEMMA KeepNotes ==
  ASSUME TypeOK, NoteInv, NotesMove, SizesStay, ViewsMove, CountsStay,
         FinishInv' \/ FinishGoesOn, AddNotedInv' \/ AddGoesOn
  PROVE  NoteInv'
<1>1. FlagInv'
  <2> SUFFICES ASSUME NEW g \in Groups
               PROVE  /\ cache'.sets[g].onDelete = sets'[g].onDelete
                      /\ Fetched' => pass'.sets[g].onDelete = sets'[g].onDelete
    BY DEF FlagInv
  <2> QED
    BY ZenonT(60) DEF NoteInv, FlagInv, NotesMove
<1>2. NotedInv'
  BY ZenonT(60), NotedBefore, KeepNoted DEF NoteInv, SizesStay
<1>3. DoneInv'
  <2> SUFFICES ASSUME NEW g \in Groups, Noted(g)' PROVE sets'[g].inProgress \/ Done(g)'
    BY DEF DoneInv
  <2>1. Noted(g)
    BY NotedBefore
  <2>2. sets[g].inProgress \/ Done(g)
    BY <2>1 DEF NoteInv, DoneInv
  <2>3. sets'[g].inProgress = sets[g].inProgress
    BY DEF NotesMove
  <2> QED
    BY ZenonT(60), <2>1, <2>2, <2>3, KeepDone
<1>4. ASSUME FinishGoesOn, pass'.pc \in {"finish", "cleanup"} PROVE FinishInv'
  <2>1. /\ pass.pc \in {"finish", "cleanup"} /\ pass'.sets = pass.sets
        /\ \A g \in Groups : Staying(g)' = Staying(g)
    BY ZenonT(60), <1>4 DEF FinishGoesOn
  <2>2. Fetched
    BY <2>1 DEF Fetched
  <2>3. ASSUME NEW g \in Groups, pass'.sets[g].inProgress
        PROVE  Done(g)' /\ Cardinality(Staying(g)') = cluster'.desired[g]
    <3>1. pass.sets[g].inProgress /\ Noted(g)
      BY ZenonT(60), <2>1, <2>2, <2>3 DEF Noted
    <3>2. Done(g) /\ Cardinality(Staying(g)) = cluster.desired[g]
      BY ZenonT(60), <2>1, <3>1 DEF NoteInv, FinishInv
    <3>3. Done(g)'
      BY ZenonT(60), <3>1, <3>2, KeepDone
    <3> QED
      BY ZenonT(60), <2>1, <3>2, <3>3 DEF SizesStay
  <2> QED
    BY ZenonT(60), <2>3 DEF FinishInv
<1>5. FinishInv'
  BY ZenonT(60), <1>4 DEF FinishInv
<1>6. ASSUME AddGoesOn PROVE AddNotedInv'
  <2>1. ASSUME NEW id \in pass.adding PROVE GroupOf(id) \in Groups
    BY ZenonT(60), <2>1, IdParts DEF TypeOK, Passes
  <2> QED
    BY ZenonT(60), <1>6, <2>1 DEF NoteInv, AddNotedInv, AddGoesOn, NotesMove
<1> QED
  BY ZenonT(60), <1>1, <1>2, <1>3, <1>5, <1>6 DEF NoteInv

(***************************************************************************)
(* A step of a pass that goes on with its copies, or ends.                 *)
(***************************************************************************)
LEMMA PassNotes ==
  ASSUME TypeOK, NoteInv, UNCHANGED <<sets, pods>>, OnlyConditions, PassGoesOn, CountsStay,
         FinishInv' \/ FinishGoesOn, AddNotedInv' \/ AddGoesOn
  PROVE  NoteInv'
<1>1. SizesStay /\ ViewsMove
  BY PassMoves
<1>2. pass'.pc = "idle" => ~Fetched'
  BY DEF Fetched
<1>3. NotesMove
  BY ZenonT(60), <1>2 DEF OnlyConditions, PassGoesOn, NotesMove
<1> QED
  BY ZenonT(60), <1>1, <1>3, KeepNotes

(***************************************************************************)
(* Where no instance changes there are as many.                            *)
(***************************************************************************)
LEMMA SameCounts ==
  ASSUME \A g \in Groups : Staying(g)' = Staying(g)
  PROVE  CountsStay
BY DEF CountsStay, Done

(***************************************************************************)
(* Where they are only added there are no fewer.                           *)
(***************************************************************************)
LEMMA MoreCounts ==
  ASSUME TypeOK, \A g \in Groups : Staying(g) \subseteq Staying(g)'
  PROVE  CountsStay
<1>1. ASSUME NEW g \in Groups, Done(g) PROVE Cardinality(Staying(g)') >= cluster.desired[g]
  <2>1. cluster.desired[g] \in Nat
    BY ZenonT(60), SizeTypes, CountsAreNumbers
  <2> QED
    BY ZenonT(60), <1>1, <2>1, MoreStay DEF Done
<1> QED
  BY <1>1 DEF CountsStay

(***************************************************************************)
(* Neither a step that starts or adds nor one that finishes.               *)
(***************************************************************************)
LEMMA Elsewhere ==
  ASSUME pass'.pc \notin {"finish", "cleanup", "add"}
  PROVE  FinishGoesOn /\ AddGoesOn
BY DEF FinishGoesOn, AddGoesOn, At

(***************************************************************************)
(* The start of a pass, and what it fetches.                               *)
(***************************************************************************)
LEMMA StartNotes ==
  ASSUME TypeOK, NoteInv, StartPass \/ FetchPlacement
  PROVE  NoteInv'
<1>1. UNCHANGED <<cluster, sets, pods, cache, placement>>
  BY FetchParts DEF StartPass, kube, coordinator
<1>2. /\ pass'.pc \in {"idle", "fetch", "init", "resize", "replace"}
      /\ pass'.pc \in {"resize", "replace"} => pass'.sets = cache.sets
      /\ \/ pass'.pc = "idle" \/ pass'.cluster = cache.cluster
         \/ pass.pc = "fetch" /\ pass'.cluster = pass.cluster
  <2>1. CASE StartPass
    BY <2>1 DEF StartPass, NoPass
  <2>2. CASE FetchPlacement
    BY ZenonT(60), <2>2, FetchParts
  <2> QED
    BY ZenonT(60), <2>1, <2>2
<1>3. Fetched' => pass'.sets = cache.sets
  BY ZenonT(60), <1>2 DEF Fetched
<1>4. NotesMove
  BY ZenonT(60), <1>1, <1>3 DEF NotesMove
<1>5. SizesStay /\ ViewsMove
  BY ZenonT(60), <1>1, <1>2 DEF SizesStay, ViewsMove, At
<1>6. FinishGoesOn /\ AddGoesOn
  BY ZenonT(60), <1>2, Elsewhere
<1>7. CountsStay
  BY ZenonT(60), <1>1, SamePlacement, SameCounts
<1> QED
  BY ZenonT(60), <1>4, <1>5, <1>6, <1>7, KeepNotes

(***************************************************************************)
(* The creation of the placement and the write of its condition, the       *)
(* status write before a replace, and the replace itself.                  *)
(***************************************************************************)
LEMMA CreateNotes ==
  ASSUME TypeOK, ResizeInv, NoteInv, InitPlacement
  PROVE  NoteInv'
<1>1. UNCHANGED <<cluster, sets, pods, cache>> /\ pass.pc = "init"
  BY ZenonT(60) DEF InitPlacement, kube, At
<1>2. \/ pass'.pc = "idle"
      \/ pass'.pc = "created" /\ pass'.sets = pass.sets /\ pass'.cluster = pass.cluster
  BY DEF InitPlacement, Goto, Return, NoPass, TypeOK, Passes
<1>3. OnlyConditions /\ PassGoesOn
  BY ZenonT(60), <1>1, <1>2 DEF OnlyConditions, PassGoesOn, Fetched
<1>4. ASSUME UNCHANGED coordinator PROVE CountsStay
  BY ZenonT(60), <1>4, SamePlacement, SameCounts DEF coordinator
<1>5. ASSUME ~placementExists PROVE CountsStay
  <2>1. \A g \in Groups : Staying(g) = {}
    BY ZenonT(60), <1>5, NothingStays DEF ResizeInv, NewInv
  <2> QED
    BY ZenonT(60), <2>1, MoreCounts
<1>6. CountsStay
  BY ZenonT(60), <1>4, <1>5 DEF InitPlacement
<1>7. FinishGoesOn /\ AddGoesOn
  BY ZenonT(60), <1>2, Elsewhere
<1> QED
  BY ZenonT(60), <1>1, <1>3, <1>6, <1>7, PassNotes

(***************************************************************************)
(* setStatusPlacementCreated and the status write before a replace.        *)
(***************************************************************************)
LEMMA StatusNotes ==
  ASSUME TypeOK, NoteInv, SetStatusPlacementCreated \/ ReplacePodStatus
  PROVE  NoteInv'
<1>1. UNCHANGED <<sets, pods, placement>>
  BY DEF SetStatusPlacementCreated, ReplacePodStatus, coordinator
<1>2. /\ OnlyConditions
      /\ \/ pass'.pc = "idle"
         \/ /\ pass.pc = "created" /\ pass'.pc = "fetch"
            /\ pass'.sets = pass.sets /\ pass'.cluster.desired = pass.cluster.desired
         \/ /\ pass.pc = "replace" /\ pass'.pc = "replaceCall"
            /\ pass'.sets = pass.sets /\ pass'.cluster.desired = pass.cluster.desired
  <2>1. CASE SetStatusPlacementCreated
    <3> DEFINE copy == [pass.cluster EXCEPT !.placementInitialized = TRUE]
    <3>1. OnlyConditions /\ pass.pc = "created"
      BY ZenonT(60), <2>1, StatusWrites DEF SetStatusPlacementCreated, At
    <3>2. copy.desired = pass.cluster.desired
      BY DEF TypeOK, Passes, Clusters
    <3>3. CASE Return
      BY ZenonT(60), <3>1, <3>3 DEF Return, NoPass
    <3>4. CASE pass' = [pass EXCEPT !.cluster = copy, !.pc = "fetch"]
      <4>1. pass'.pc = "fetch" /\ pass'.sets = pass.sets /\ pass'.cluster = copy
        BY ZenonT(60), <3>4 DEF TypeOK, Passes
      <4> QED
        BY ZenonT(60), <3>1, <3>2, <4>1
    <3> QED
      BY ZenonT(60), <2>1, <3>3, <3>4 DEF SetStatusPlacementCreated
  <2>2. CASE ReplacePodStatus
    <3>1. pass.pc = "replace" /\ SetStatusPodsBootstrapping("replaceCall", {})
      BY <2>2 DEF ReplacePodStatus, At
    <3> QED
      BY ZenonT(60), <3>1, BootstrappingParts
  <2> QED
    BY ZenonT(60), <2>1, <2>2
<1>3. PassGoesOn
  BY ZenonT(60), <1>2 DEF PassGoesOn, Fetched
<1>4. FinishGoesOn /\ AddGoesOn
  BY ZenonT(60), <1>2, Elsewhere
<1>5. CountsStay
  BY ZenonT(60), <1>1, SamePlacement, SameCounts
<1> QED
  BY ZenonT(60), <1>1, <1>2, <1>3, <1>4, <1>5, PassNotes

(***************************************************************************)
(* A replace leaves as many instances as there were.                       *)
(***************************************************************************)
LEMMA ReplaceNotes ==
  ASSUME TypeOK, SeenIsCurrent, NoteInv, ReplacePodInPlacement
  PROVE  NoteInv'
<1>1. /\ pass.pc = "replaceCall" /\ UNCHANGED <<sets, pods>>
      /\ OnlyConditions
  BY ZenonT(60), NoConditions DEF ReplacePodInPlacement, At, kube
<1>2. PassGoesOn /\ pass'.pc \in {"idle", "resize"}
  BY ZenonT(60), ReplaceGoesOn
<1>3. ASSUME UNCHANGED placement PROVE CountsStay
  BY ZenonT(60), <1>3, SamePlacement, SameCounts
<1>4. ASSUME NEW p \in pass.replacing, placement[p[2]] = "Absent",
             placement' = [placement EXCEPT ![p[1]] = "Leaving", ![p[2]] = "Initializing"]
      PROVE  CountsStay
  <2>1. ASSUME NEW g \in Groups PROVE Cardinality(Staying(g)') = Cardinality(Staying(g))
    <3>1. /\ GroupOf(p[1]) # g => Staying(g)' = Staying(g)
          /\ GroupOf(p[1]) = g => /\ p[1] \in Staying(g) /\ p[2] \notin Staying(g)
                                  /\ Staying(g)' = (Staying(g) \ {p[1]}) \cup {p[2]}
      BY ZenonT(60), <1>1, <1>4, ReplaceStaying
    <3> QED
      BY ZenonT(60), <3>1, SwappedCount
  <2> QED
    BY ZenonT(60), <2>1 DEF CountsStay, Done
<1>5. CountsStay
  BY ZenonT(60), <1>3, <1>4 DEF ReplacePodInPlacement
<1>6. FinishGoesOn /\ AddGoesOn
  BY ZenonT(60), <1>2, Elsewhere
<1> QED
  BY ZenonT(60), <1>1, <1>2, <1>5, <1>6, PassNotes

(***************************************************************************)
(* A set that a pass resizes under OnDelete, while it is not annotated any *)
(* more, is done, and the pass knows what it was to become.                *)
(***************************************************************************)
LEMMA LastNote ==
  ASSUME TypeOK, NoteInv, pass.pc = "resize", NEW g \in Groups,
         sets[g].onDelete, ~sets[g].inProgress, ~Skipped(g)
  PROVE  /\ Noted(g) /\ Done(g)
         /\ Desired(g) = cluster.desired[g] /\ Current(g) = cluster.desired[g]
<1>1. Fetched /\ ~At("idle")
  BY DEF Fetched, At
<1>2. pass.sets[g].inProgress
  BY ZenonT(60), <1>1 DEF NoteInv, FlagInv, Skipped
<1>3. Noted(g)
  BY ZenonT(60), <1>1, <1>2 DEF Noted
<1>4. Done(g)
  BY ZenonT(60), <1>3 DEF NoteInv, DoneInv
<1>5. pass.cluster.desired = cluster.desired
  BY ZenonT(60), <1>1, <1>3 DEF NoteInv, NotedInv
<1> QED
  BY ZenonT(60), <1>1, <1>3, <1>4, <1>5 DEF Done, Desired, Current

(***************************************************************************)
(* So it has no instances to add: its counts are those of the placement.   *)
(***************************************************************************)
LEMMA ExpandNoted ==
  ASSUME TypeOK, SeenIsCurrent, PairInv, NoteInv, NEW g \in Groups, ExpandPlacementForSet(g),
         sets[g].onDelete
  PROVE  sets[g].inProgress
<1>1. pass.pc = "resize" /\ ~Skipped(g) /\ ToExpand(g)
  BY ZenonT(60), ExpandParts
<1>2. ASSUME ~sets[g].inProgress PROVE FALSE
  <2>1. Done(g) /\ Current(g) = cluster.desired[g]
    BY ZenonT(60), <1>1, <1>2, LastNote
  <2>2. Cardinality(Staying(g)) >= cluster.desired[g]
    BY ZenonT(60), <2>1 DEF Done
  <2>3. Cardinality(Staying(g)) = InPlacement(g)
    BY ZenonT(60), <1>1, SeenCount
  <2>4. InPlacement(g) < cluster.desired[g]
    BY ZenonT(60), <1>1, <2>1 DEF ToExpand
  <2>5. InPlacement(g) \in Nat /\ cluster.desired[g] \in Nat
    BY ZenonT(60), <1>1, PlacedCount, SizeTypes, CountsAreNumbers
  <2> QED
    BY ZenonT(60), <2>2, <2>3, <2>4, <2>5, Comparisons
<1> QED
  BY ZenonT(60), <1>2 DEF TypeOK, Sets

(***************************************************************************)
(* Instances are added for an annotated set.                               *)
(***************************************************************************)
LEMMA ExpandNotes ==
  ASSUME TypeOK, SeenIsCurrent, PairInv, NoteInv, NEW g \in Groups, ExpandPlacementForSet(g)
  PROVE  NoteInv'
<1>1. /\ pass.pc = "resize"
      /\ UNCHANGED <<sets, pods, placement>> /\ OnlyConditions
      /\ \/ pass'.pc = "idle"
         \/ /\ pass'.pc = "add" /\ pass'.adding = PodsToAdd(g)
            /\ pass'.sets = pass.sets /\ pass'.cluster.desired = pass.cluster.desired
  BY ZenonT(60), ExpandParts
<1>2. PassGoesOn
  BY ZenonT(60), <1>1 DEF PassGoesOn, Fetched
<1>3. CountsStay
  BY ZenonT(60), <1>1, SamePlacement, SameCounts
<1>4. \A id \in PodsToAdd(g) : GroupOf(id) = g
  BY ZenonT(60), ListedIdentity DEF PodsToAdd
<1>5. sets[g].onDelete => sets[g].inProgress
  BY ZenonT(60), ExpandNoted
<1>6. AddNotedInv'
  BY ZenonT(60), <1>1, <1>4, <1>5 DEF AddNotedInv, At
<1>7. FinishGoesOn
  BY ZenonT(60), <1>1 DEF FinishGoesOn
<1> QED
  BY ZenonT(60), <1>1, <1>2, <1>3, <1>6, <1>7, PassNotes

(***************************************************************************)
(* The call that adds them.                                                *)
(***************************************************************************)
LEMMA AddNotes ==
  ASSUME TypeOK, NoteInv, AddPodsToPlacement
  PROVE  NoteInv'
<1>1. /\ pass'.pc = "idle" /\ UNCHANGED <<cluster, sets, pods, cache>>
      /\ \/ UNCHANGED placement
         \/ \A g : Staying(g)' = Staying(g) \cup {id \in pass.adding : GroupOf(id) = g}
  BY ZenonT(60), AddParts
<1>2. OnlyConditions /\ PassGoesOn /\ FinishGoesOn /\ AddGoesOn
  BY ZenonT(60), <1>1, NoConditions, Elsewhere DEF PassGoesOn
<1>3. ASSUME NEW g \in Groups PROVE Staying(g) \subseteq Staying(g)'
  BY ZenonT(60), <1>1, SamePlacement
<1>4. CountsStay
  BY ZenonT(60), <1>3, MoreCounts
<1> QED
  BY ZenonT(60), <1>1, <1>2, <1>4, PassNotes

(***************************************************************************)
(* At the end of the loop the annotated sets have their sizes.             *)
(***************************************************************************)
LEMMA FinishNotes ==
  ASSUME TypeOK, SeenIsCurrent, PairInv, ResizeInv, NoteInv, AllAtSize
  PROVE  NoteInv'
<1>1. /\ pass.pc = "resize" /\ UNCHANGED <<cluster, sets, pods, cache, placement>>
      /\ pass'.pc = "finish" /\ pass'.sets = pass.sets /\ pass'.cluster = pass.cluster
  BY DEF AllAtSize, At, Goto, kube, coordinator, TypeOK, Passes
<1>2. OnlyConditions /\ PassGoesOn /\ AddGoesOn
  BY ZenonT(60), <1>1, NoConditions DEF PassGoesOn, AddGoesOn, At, Fetched
<1>3. CountsStay /\ \A g \in Groups : Staying(g)' = Staying(g)
  BY ZenonT(60), <1>1, SamePlacement, SameCounts
<1>4. Fetched /\ ~At("idle")
  BY <1>1 DEF Fetched, At
<1>5. ASSUME NEW g \in Groups, pass.sets[g].inProgress
      PROVE  /\ Noted(g) /\ Done(g) /\ Cardinality(Staying(g)) = cluster.desired[g]
  <2>1. Noted(g)
    BY ZenonT(60), <1>4, <1>5 DEF Noted
  <2>2. pass.cluster.desired = cluster.desired
    BY ZenonT(60), <1>4, <2>1 DEF NoteInv, NotedInv
  <2>3. AtSize(g)
    BY <1>5 DEF AllAtSize, Skipped
  <2>4. PICK n : n = cluster.desired[g]
    OBVIOUS
  <2>5. pass.sets[g].replicas = n /\ InPlacement(g) = n
    BY ZenonT(60), <2>2, <2>3, <2>4 DEF AtSize, Desired, Current
  <2>6. Cardinality(Staying(g)) = n
    BY ZenonT(60), <1>1, <2>5, SeenCount
  <2>7. n \in Nat
    BY ZenonT(60), <2>4, SizeTypes, CountsAreNumbers
  <2>8. Toward(n, n) = n /\ n >= n
    BY <2>7 DEF Toward
  <2>9. sets[g].replicas \in {n, Toward(n, n)} /\ cache.sets[g].replicas \in {n, sets[g].replicas}
    BY ZenonT(60), <1>4, <2>4, <2>5 DEF ResizeInv, SizeInv
  <2> QED
    BY ZenonT(60), <2>1, <2>4, <2>5, <2>6, <2>8, <2>9 DEF Done
<1>6. ASSUME NEW g \in Groups, pass'.sets[g].inProgress
      PROVE  Done(g)' /\ Cardinality(Staying(g)') = cluster'.desired[g]
  <2>1. pass.sets[g].inProgress
    BY ZenonT(60), <1>1, <1>6
  <2>2. Noted(g) /\ Done(g) /\ Cardinality(Staying(g)) = cluster.desired[g]
    BY ZenonT(60), <1>5, <2>1
  <2>3. Done(g)'
    BY ZenonT(60), <1>1, <1>3, <1>4, <2>2 DEF Done
  <2> QED
    BY ZenonT(60), <1>1, <1>3, <2>2, <2>3
<1>7. FinishInv'
  BY ZenonT(60), <1>6 DEF FinishInv
<1> QED
  BY ZenonT(60), <1>1, <1>2, <1>3, <1>7, PassNotes

(***************************************************************************)
(* They keep them while the condition is written.                          *)
(***************************************************************************)
LEMMA ReconcileNotes ==
  ASSUME TypeOK, NoteInv, ReconcileBootstrappingStatus
  PROVE  NoteInv'
<1>1. /\ pass.pc = "finish" /\ UNCHANGED <<sets, pods, placement>>
      /\ OnlyConditions
      /\ \/ pass'.pc = "idle"
         \/ pass'.pc = "cleanup" /\ pass'.sets = pass.sets /\ pass'.cluster = pass.cluster
  BY ZenonT(60), ReconcileParts
<1>2. PassGoesOn /\ AddGoesOn
  BY ZenonT(60), <1>1 DEF PassGoesOn, AddGoesOn, At, Fetched
<1>3. CountsStay /\ \A g \in Groups : Staying(g)' = Staying(g)
  BY ZenonT(60), <1>1, SamePlacement, SameCounts
<1>4. FinishGoesOn
  BY ZenonT(60), <1>1, <1>3 DEF FinishGoesOn
<1> QED
  BY ZenonT(60), <1>1, <1>2, <1>3, <1>4, PassNotes

(***************************************************************************)
(* A removal leaves as many instances as are asked for.                    *)
(***************************************************************************)
LEMMA ShrinkNotes ==
  ASSUME TypeOK, ResizeInv, NoteInv, NEW g \in Groups, ShrinkPlacementForSet(g)
  PROVE  NoteInv'
<1>1. /\ pass.pc = "resize" /\ pass'.pc = "idle"
      /\ UNCHANGED <<cluster, sets, pods, cache>>
  BY ZenonT(60), ShrinkParts
<1>2. PICK S : Removable(g, S) /\ \A h : Staying(h)' = Staying(h) \ S
  BY ZenonT(60), ShrinkParts
<1>3. OnlyConditions /\ PassGoesOn /\ FinishGoesOn /\ AddGoesOn
  BY ZenonT(60), <1>1, NoConditions, Elsewhere DEF PassGoesOn
<1>4. ASSUME NEW h \in Groups, Noted(h), Done(h), h # g
      PROVE  Cardinality(Staying(h)') >= cluster.desired[h]
  <2>1. \A id \in Staying(h) : id \notin S
    BY ZenonT(60), <1>2, <1>4, WhoStays DEF Removable
  <2>2. Staying(h)' = Staying(h)
    BY ZenonT(60), <1>2, <2>1
  <2> QED
    BY ZenonT(60), <1>4, <2>2 DEF Done
<1>5. ASSUME Noted(g), Done(g)
      PROVE  Cardinality(Staying(g)') >= cluster.desired[g]
  <2>1. Desired(g) = cluster.desired[g] /\ Desired(g) \in Counts
    BY ZenonT(60), <1>1, <1>5, SizeTypes DEF NoteInv, NotedInv, At, Desired
  <2>2. CASE Full(g, cluster.desired[g])
    <3>1. Below(cluster.desired[g]) \subseteq StayingOrdinals(g)'
      BY ZenonT(60), <1>2, <2>1, <2>2, FullAfterRemoval
    <3> QED
      BY ZenonT(60), <2>1, <3>1, OrdinalsCount
  <2>3. CASE Growing(g)
    <3>1. sets[g].replicas \in Counts /\ sets[g].replicas <= Desired(g)
      BY ZenonT(60), <2>1, <2>3, SizeTypes DEF Growing
    <3>2. Listed(cache.pods, g) \subseteq Below(sets[g].replicas)
      BY ZenonT(60), <2>3 DEF Growing, Clean
    <3>3. S = {}
      BY ZenonT(60), <1>2, <3>1, <3>2, NothingRemovable
    <3>4. Staying(g)' = Staying(g)
      BY ZenonT(60), <1>2, <3>3
    <3> QED
      BY ZenonT(60), <1>5, <3>4 DEF Done
  <2> QED
    BY ZenonT(60), <2>2, <2>3 DEF ResizeInv, ShapeInv
<1>6. CountsStay
  BY ZenonT(60), <1>4, <1>5 DEF CountsStay
<1> QED
  BY ZenonT(60), <1>1, <1>3, <1>6, PassNotes

(***************************************************************************)
(* A patch is of a set that is not done.                                   *)
(***************************************************************************)
LEMMA PatchNotes ==
  ASSUME TypeOK, NoteInv, NEW g \in Groups, PatchStatefulSet(g)
  PROVE  NoteInv'
<1>1. /\ pass.pc = "resize" /\ ToPatch(g) /\ pass'.pc = "idle"
      /\ UNCHANGED <<cluster, pods, cache, placement>>
      /\ \A h \in Groups \ {g} : sets'[h] = sets[h]
      /\ sets'[g].onDelete = sets[g].onDelete /\ sets'[g].inProgress = sets[g].inProgress
  BY ZenonT(60), PatchParts
<1>2. Fetched /\ ~Fetched' /\ ~At("idle") /\ At("idle")'
  BY ZenonT(60), <1>1 DEF Fetched, At
<1>3. FinishInv' /\ AddNotedInv'
  BY <1>1 DEF FinishInv, AddNotedInv, At
<1>4. ASSUME NEW h \in Groups
      PROVE  sets'[h].onDelete = sets[h].onDelete /\ sets'[h].inProgress = sets[h].inProgress
  BY ZenonT(60), <1>1
<1>5. FlagInv'
  BY ZenonT(60), <1>1, <1>2, <1>4 DEF NoteInv, FlagInv
<1>6. ASSUME NEW h \in Groups, Noted(h)' PROVE Noted(h)
  BY ZenonT(60), <1>1, <1>2, <1>4, <1>6 DEF Noted
<1>7. ViewsMove
  BY ZenonT(60), <1>1, <1>2 DEF ViewsMove
<1>8. NotedInv'
  BY ZenonT(60), <1>1, <1>6, <1>7, KeepNoted DEF NoteInv
<1>9. DoneInv'
  <2> SUFFICES ASSUME NEW h \in Groups, Noted(h)', ~sets'[h].inProgress PROVE Done(h)'
    BY DEF DoneInv
  <2>1. Noted(h) /\ Done(h)
    BY ZenonT(60), <1>4, <1>6 DEF NoteInv, DoneInv
  <2>2. h # g
    <3>1. ASSUME h = g PROVE FALSE
      <4>1. pass.cluster.desired = cluster.desired
        BY ZenonT(60), <1>2, <2>1 DEF NoteInv, NotedInv
      <4>2. pass.sets[g].replicas = cluster.desired[g]
        BY ZenonT(60), <1>2, <2>1, <3>1 DEF Done
      <4> QED
        BY ZenonT(60), <1>1, <4>1, <4>2 DEF ToPatch, Desired, Current
    <3> QED
      BY ZenonT(60), <3>1
  <2>3. Staying(h)' = Staying(h)
    BY ZenonT(60), <1>1, SamePlacement
  <2> QED
    BY ZenonT(60), <1>1, <1>2, <2>1, <2>2, <2>3 DEF Done
<1> QED
  BY ZenonT(60), <1>3, <1>5, <1>8, <1>9 DEF NoteInv

(***************************************************************************)
(* An annotation goes from a set that is done.                             *)
(***************************************************************************)
LEMMA CleanupNotes ==
  ASSUME TypeOK, NoteInv, CleanupAnnotations
  PROVE  NoteInv'
<1>1. pass.pc = "cleanup" /\ UNCHANGED <<cluster, pods, cache, placement>>
  BY ZenonT(60), CleanupParts
<1>2. PICK g \in Groups :
        /\ pass.sets[g].inProgress
        /\ sets' = [sets EXCEPT ![g].inProgress = FALSE]
        /\ \/ pass'.pc = "idle"
           \/ /\ pass'.pc = "cleanup" /\ pass'.cluster = pass.cluster
              /\ pass'.sets = [pass.sets EXCEPT ![g].inProgress = FALSE]
  BY ZenonT(60), CleanupParts
<1>3. \A s \in Sets, h \in Groups :
        LET t == [s EXCEPT ![g].inProgress = FALSE]
        IN  /\ t[h].replicas = s[h].replicas /\ t[h].onDelete = s[h].onDelete
            /\ t[h].inProgress => s[h].inProgress
            /\ h # g => t[h].inProgress = s[h].inProgress
  BY ZenonT(60) DEF Sets
<1>4. sets \in Sets /\ pass.sets \in Sets
  BY DEF TypeOK, Passes
<1>5. ASSUME NEW h \in Groups
      PROVE  /\ sets'[h].replicas = sets[h].replicas /\ sets'[h].onDelete = sets[h].onDelete
             /\ sets'[h].inProgress => sets[h].inProgress
             /\ h # g => sets'[h].inProgress = sets[h].inProgress
  BY ZenonT(60), <1>2, <1>3, <1>4
<1>6. ASSUME NEW h \in Groups, pass'.pc # "idle"
      PROVE  /\ pass'.sets[h].replicas = pass.sets[h].replicas
             /\ pass'.sets[h].onDelete = pass.sets[h].onDelete
             /\ pass'.sets[h].inProgress => pass.sets[h].inProgress
  <2>1. pass'.sets = [pass.sets EXCEPT ![g].inProgress = FALSE]
    BY ZenonT(60), <1>2, <1>6
  <2> QED
    BY SMTT(60), <1>4, <2>1 DEF Sets
<1>7. /\ Fetched /\ ~At("idle") /\ ~At("add")'
      /\ Fetched' => pass'.pc # "idle"
      /\ ~At("idle")' => pass'.cluster = pass.cluster
  BY ZenonT(60), <1>1, <1>2 DEF Fetched, At
<1>8. FlagInv'
  <2> SUFFICES ASSUME NEW h \in Groups
               PROVE  /\ cache'.sets[h].onDelete = sets'[h].onDelete
                      /\ Fetched' => pass'.sets[h].onDelete = sets'[h].onDelete
    BY DEF FlagInv
  <2> QED
    BY ZenonT(60), <1>1, <1>5, <1>6, <1>7 DEF NoteInv, FlagInv
<1>9. ASSUME NEW h \in Groups, Noted(h)' PROVE Noted(h)
  BY ZenonT(60), <1>1, <1>5, <1>6, <1>7, <1>9 DEF Noted
<1>10. NotedInv'
  <2>1. ViewsMove
    BY ZenonT(60), <1>1, <1>7 DEF ViewsMove
  <2> QED
    BY ZenonT(60), <1>1, <1>9, <2>1, KeepNoted DEF NoteInv
<1>11. ASSUME NEW h \in Groups, Done(h) PROVE Done(h)'
  <2>1. Staying(h)' = Staying(h)
    BY ZenonT(60), <1>1, SamePlacement
  <2> QED
    BY ZenonT(60), <1>1, <1>5, <1>6, <1>7, <1>11, <2>1 DEF Done
<1>12. ASSUME NEW h \in Groups, pass.sets[h].inProgress
       PROVE  Done(h) /\ Cardinality(Staying(h)) = cluster.desired[h]
  BY ZenonT(60), <1>1, <1>12 DEF NoteInv, FinishInv
<1>13. DoneInv'
  <2> SUFFICES ASSUME NEW h \in Groups, Noted(h)', ~sets'[h].inProgress PROVE Done(h)'
    BY DEF DoneInv
  <2>1. CASE h = g
    BY ZenonT(60), <1>2, <1>11, <1>12, <2>1
  <2>2. CASE h # g
    <3>1. ~sets[h].inProgress
      BY ZenonT(60), <1>5, <2>2
    <3> QED
      BY ZenonT(60), <1>9, <1>11, <3>1 DEF NoteInv, DoneInv
  <2> QED
    BY ZenonT(60), <2>1, <2>2
<1>14. FinishInv'
  <2>1. ASSUME NEW h \in Groups, pass'.pc # "idle", pass'.sets[h].inProgress
        PROVE  Done(h)' /\ Cardinality(Staying(h)') = cluster'.desired[h]
    <3>1. pass.sets[h].inProgress
      BY ZenonT(60), <1>6, <2>1
    <3>2. Staying(h)' = Staying(h)
      BY <1>1, SamePlacement
    <3> QED
      BY ZenonT(60), <1>1, <1>11, <1>12, <3>1, <3>2
  <2>2. pass'.pc \in {"finish", "cleanup"} => pass'.pc # "idle"
    OBVIOUS
  <2> QED
    BY ZenonT(60), <2>1, <2>2 DEF FinishInv
<1>15. AddNotedInv'
  BY <1>7 DEF AddNotedInv
<1> QED
  BY ZenonT(60), <1>8, <1>10, <1>13, <1>14, <1>15 DEF NoteInv

(***************************************************************************)
(* The steps of everybody else, where they write no annotation.            *)
(***************************************************************************)
LEMMA OtherNotes ==
  ASSUME TypeOK, NoteInv, UNCHANGED cluster, CopiesTaken, UNCHANGED pass \/ pass'.pc = "idle",
         \A g \in Groups : /\ sets'[g].replicas = sets[g].replicas
                           /\ sets'[g].onDelete = sets[g].onDelete
                           /\ sets'[g].inProgress = sets[g].inProgress,
         \A g \in Groups : Staying(g)' = Staying(g)
  PROVE  NoteInv'
<1>1. /\ Fetched' => Fetched /\ pass'.sets = pass.sets
      /\ ~At("idle")' => ~At("idle") /\ pass'.cluster = pass.cluster
  BY DEF Fetched, At
<1>2. NotesMove
  BY ZenonT(60), <1>1 DEF NotesMove, CopiesTaken
<1>3. SizesStay
  BY DEF SizesStay
<1>4. ViewsMove
  BY ZenonT(60), <1>1 DEF ViewsMove, CopiesTaken
<1>5. CountsStay
  BY ZenonT(60), SameCounts
<1>6. FinishGoesOn /\ AddGoesOn
  BY DEF FinishGoesOn, AddGoesOn, At
<1> QED
  BY ZenonT(60), <1>2, <1>3, <1>4, <1>5, <1>6, KeepNotes

(***************************************************************************)
(* Watches, aborted passes, pods and their sets' status.                   *)
(***************************************************************************)
LEMMA EnvironmentNotes ==
  ASSUME TypeOK, NoteInv,
         \/ SyncCluster \/ SyncSets \/ SyncPods \/ PassAborts \/ StatefulSetController \/ Database
         \/ \E g \in Groups, o \in Ordinals : FailPod(g, o)
         \/ UNCHANGED vars
  PROVE  NoteInv'
<1>1. CASE SyncCluster \/ SyncSets \/ SyncPods \/ PassAborts
  <2>1. UNCHANGED <<cluster, sets, placement>> /\ (UNCHANGED pass \/ pass'.pc = "idle")
    BY <1>1 DEF SyncCluster, SyncSets, SyncPods, PassAborts, kube, coordinator, Return, NoPass
  <2>2. CopiesTaken
    <3>1. CASE SyncCluster \/ SyncSets \/ SyncPods
      BY ZenonT(60), <3>1 DEF SyncCluster, SyncSets, SyncPods, CopiesTaken, TypeOK, Caches
    <3>2. CASE PassAborts
      BY <3>2 DEF PassAborts, CopiesTaken
    <3> QED
      BY ZenonT(60), <1>1, <3>1, <3>2
  <2> QED
    BY ZenonT(60), <2>1, <2>2, SamePlacement, OtherNotes
<1>2. ASSUME NEW g \in Groups, UpdateSetStatus(g) PROVE NoteInv'
  <2>1. UNCHANGED <<cluster, placement, cache, pass>>
    BY ZenonT(60), <1>2 DEF UpdateSetStatus, coordinator
  <2>2. \A h \in Groups : /\ sets'[h].replicas = sets[h].replicas
                          /\ sets'[h].onDelete = sets[h].onDelete
                          /\ sets'[h].inProgress = sets[h].inProgress
    BY ZenonT(60), <1>2 DEF UpdateSetStatus, TypeOK, Sets
  <2>3. CopiesTaken
    BY ZenonT(60), <2>1 DEF CopiesTaken
  <2> QED
    BY ZenonT(60), <2>1, <2>2, <2>3, SamePlacement, OtherNotes
<1>3. ASSUME NEW g \in Groups, NEW o \in Ordinals,
             CreatePod(g, o) \/ DeletePod(g, o) \/ FailPod(g, o)
      PROVE  NoteInv'
  <2>1. UNCHANGED <<cluster, sets, placement, cache, pass>>
    BY ZenonT(60), <1>3 DEF CreatePod, DeletePod, FailPod, coordinator
  <2>2. CopiesTaken
    BY ZenonT(60), <2>1 DEF CopiesTaken
  <2> QED
    BY ZenonT(60), <2>1, <2>2, SamePlacement, OtherNotes
<1>4. ASSUME NEW i \in Ids, BecomeAvailable(i) \/ Leave(i) PROVE NoteInv'
  <2>1. UNCHANGED <<cluster, sets, cache, pass>>
    BY ZenonT(60), <1>4 DEF BecomeAvailable, Leave, kube
  <2>2. CopiesTaken
    BY ZenonT(60), <2>1 DEF CopiesTaken
  <2>3. \A g \in Groups : Staying(g)' = Staying(g)
    BY ZenonT(60), <1>4, DatabaseStaying
  <2> QED
    BY ZenonT(60), <2>1, <2>2, <2>3, OtherNotes
<1>5. CASE UNCHANGED vars
  <2>1. UNCHANGED <<cluster, sets, placement, cache, pass>>
    BY ZenonT(60), <1>5 DEF vars
  <2>2. CopiesTaken
    BY ZenonT(60), <2>1 DEF CopiesTaken
  <2> QED
    BY ZenonT(60), <2>1, <2>2, SamePlacement, OtherNotes
<1> QED
  BY ZenonT(60), <1>1, <1>2, <1>3, <1>4, <1>5 DEF StatefulSetController, Database

(***************************************************************************)
(* An annotation is put on by a pass that has seen the edit.               *)
(***************************************************************************)
LEMMA ApplyNotes ==
  ASSUME TypeOK, ResizeInv, NoteInv, PatientUser, NEW g \in Groups, ApplyStatefulSetUpdate(g)
  PROVE  NoteInv'
<1>1. /\ At("idle") /\ cache.fresh
      /\ UNCHANGED <<cluster, placement, cache, pass>>
      /\ sets' = [sets EXCEPT ![g].inProgress = TRUE, ![g].observed = FALSE]
  BY ZenonT(60) DEF ApplyStatefulSetUpdate, coordinator
<1>2. /\ \A h \in Groups : /\ sets'[h].replicas = sets[h].replicas
                           /\ sets'[h].onDelete = sets[h].onDelete
      /\ \A h \in Groups \ {g} : sets'[h].inProgress = sets[h].inProgress
      /\ sets'[g].inProgress
  BY ZenonT(60), <1>1 DEF TypeOK, Sets
<1>3. ~Fetched /\ ~Fetched' /\ At("idle")'
  BY ZenonT(60), <1>1 DEF Fetched, At
<1>4. FlagInv'
  BY ZenonT(60), <1>1, <1>2, <1>3 DEF NoteInv, FlagInv
<1>5. cache.cluster.desired = cluster.desired
  BY ZenonT(60), <1>1 DEF ResizeInv, SeenInv
<1>6. NotedInv'
  BY ZenonT(60), <1>1, <1>3, <1>5 DEF NotedInv
<1>7. DoneInv'
  <2> SUFFICES ASSUME NEW h \in Groups, Noted(h)', ~sets'[h].inProgress PROVE Done(h)'
    BY ZenonT(60) DEF DoneInv
  <2>1. h # g /\ ~sets[h].inProgress
    BY ZenonT(60), <1>2
  <2>2. Noted(h)
    BY ZenonT(60), <1>1, <1>2, <1>3, <2>1 DEF Noted
  <2>3. Done(h)
    BY ZenonT(60), <2>1, <2>2 DEF NoteInv, DoneInv
  <2>4. Staying(h)' = Staying(h)
    BY ZenonT(60), <1>1, SamePlacement
  <2> QED
    BY ZenonT(60), <1>1, <1>2, <1>3, <2>3, <2>4 DEF Done
<1>8. FinishInv' /\ AddNotedInv'
  BY ZenonT(60), <1>3 DEF FinishInv, AddNotedInv, At
<1> QED
  BY ZenonT(60), <1>4, <1>6, <1>7, <1>8 DEF NoteInv

(***************************************************************************)
(* An edit comes when nothing is annotated.                                *)
(***************************************************************************)
LEMMA EditNotes ==
  ASSUME TypeOK, NoteInv, PatientUser,
         NEW g \in Groups, NEW n \in Counts, NEW prevent, ChangeSpec(g, n, prevent)
  PROVE  NoteInv'
<1>1. /\ At("idle") /\ Converged /\ UNCHANGED sets
      /\ cache' = [cache EXCEPT !.fresh = FALSE] /\ pass' = [pass EXCEPT !.fresh = FALSE]
  BY ZenonT(60) DEF ChangeSpec
<1>2. cache'.sets = cache.sets /\ pass'.pc = pass.pc
  BY ZenonT(60), <1>1 DEF TypeOK, Caches, Passes
<1>3. ~Fetched' /\ ~Fetched /\ At("idle")'
  BY ZenonT(60), <1>1, <1>2 DEF Fetched, At
<1>4. ASSUME NEW h \in Groups PROVE ~Noted(h)'
  <2>1. ~sets[h].inProgress /\ cache.sets = sets
    BY ZenonT(60), <1>1 DEF Converged
  <2> QED
    BY ZenonT(60), <1>1, <1>2, <1>3, <2>1 DEF Noted
<1>5. FlagInv'
  BY ZenonT(60), <1>1, <1>2, <1>3 DEF NoteInv, FlagInv
<1>6. NotedInv' /\ DoneInv'
  BY ZenonT(60), <1>4 DEF NotedInv, DoneInv
<1>7. FinishInv' /\ AddNotedInv'
  BY <1>3 DEF FinishInv, AddNotedInv, At
<1> QED
  BY ZenonT(60), <1>5, <1>6, <1>7 DEF NoteInv

-----------------------------------------------------------------------------
(***************************************************************************)
(* No set is annotated when it is created.                                 *)
(***************************************************************************)
LEMMA InitNotes == Init => NoteInv
<1> SUFFICES ASSUME Init PROVE NoteInv
  OBVIOUS
<1>1. cache.sets = sets /\ pass.pc = "idle"
  BY DEF Init, NoPass
<1>2. ~Fetched
  BY <1>1 DEF Fetched
<1>3. \A g \in Groups : ~sets[g].inProgress
  <2>1. PICK onDelete \in Strategies :
          sets = [g \in Groups |-> [NoSet EXCEPT !.replicas = InitialInstances, !.onDelete = onDelete]]
    BY ZenonT(60) DEF Init
  <2> QED
    BY ZenonT(60), <2>1 DEF NoSet
<1>4. \A g \in Groups : ~Noted(g)
  BY ZenonT(60), <1>1, <1>2, <1>3 DEF Noted
<1>5. FlagInv /\ NotedInv /\ DoneInv
  BY ZenonT(60), <1>1, <1>2, <1>4 DEF FlagInv, NotedInv, DoneInv
<1>6. FinishInv /\ AddNotedInv
  BY ZenonT(60), <1>1 DEF FinishInv, AddNotedInv, At
<1> QED
  BY ZenonT(60), <1>5, <1>6 DEF NoteInv

(***************************************************************************)
(* Every step keeps what is known of annotations.                          *)
(***************************************************************************)
LEMMA StepNotes ==
  ASSUME PatientUser, TypeOK, SeenIsCurrent, PairInv, ResizeInv, NoteInv, [Next]_vars
  PROVE  NoteInv'
<1>1. CASE Pass
  <2>1. CASE \E g \in Groups :
               ExpandPlacementForSet(g) \/ ShrinkPlacementForSet(g) \/ PatchStatefulSet(g)
    BY ZenonT(60), <2>1, ExpandNotes, ShrinkNotes, PatchNotes
  <2>2. CASE StartPass \/ InitPlacement \/ SetStatusPlacementCreated \/ FetchPlacement
    BY ZenonT(60), <2>2, StartNotes, CreateNotes, StatusNotes
  <2>3. CASE ReplacePodStatus \/ ReplacePodInPlacement \/ AddPodsToPlacement
    BY ZenonT(60), <2>3, StatusNotes, ReplaceNotes, AddNotes
  <2>4. CASE AllAtSize \/ ReconcileBootstrappingStatus \/ CleanupAnnotations
    BY ZenonT(60), <2>4, FinishNotes, ReconcileNotes, CleanupNotes
  <2> QED
    BY ZenonT(60), <1>1, <2>1, <2>2, <2>3, <2>4 DEF Pass
<1>2. CASE Environment
  BY ZenonT(60), <1>2, EnvironmentNotes, ApplyNotes, EditNotes DEF Environment
<1>3. CASE UNCHANGED vars
  BY ZenonT(60), <1>3, EnvironmentNotes
<1> QED
  BY ZenonT(60), <1>1, <1>2, <1>3 DEF Next

(***************************************************************************)
(* With a patient user: an annotation that a cache or a pass still shows   *)
(* belongs to a set that has been resized.                                 *)
(***************************************************************************)
THEOREM PatientNotes ==
  ASSUME PatientUser
  PROVE  Spec => []NoteInv
<1>1. Init => NoteInv
  BY ZenonT(60), InitNotes
<1>2. TypeOK /\ SeenIsCurrent /\ PairInv /\ ResizeInv /\ NoteInv /\ [Next]_vars => NoteInv'
  BY ZenonT(60), StepNotes
<1> QED
  BY <1>1, <1>2, TypeCorrect, ViewCorrect, PairCorrect, PatientResizes, PTL DEF Spec

(***************************************************************************)
(* Patches, removals and additions under OnDelete.                         *)
(***************************************************************************)
LEMMA NotedResize ==
  ASSUME TypeOK, SeenIsCurrent, ResizeInv, NoteInv, NEW g \in Groups,
         sets[g].onDelete, ~sets[g].inProgress,
         \/ \E h \in Groups : ShrinkPlacementForSet(h) \/ PatchStatefulSet(h)
         \/ AddPodsToPlacement \/ ReplacePodInPlacement
  PROVE  /\ sets'[g].replicas = sets[g].replicas
         /\ StayingOrdinals(g)' = StayingOrdinals(g)
<1>1. ASSUME NEW h \in Groups, PatchStatefulSet(h)
      PROVE  /\ sets'[g].replicas = sets[g].replicas
             /\ StayingOrdinals(g)' = StayingOrdinals(g)
  <2>1. /\ pass.pc = "resize" /\ ~Skipped(h) /\ ToPatch(h) /\ UNCHANGED placement
        /\ \A i \in Groups \ {h} : sets'[i] = sets[i]
    BY ZenonT(60), <1>1, PatchParts
  <2>2. h # g
    <3>1. ASSUME h = g PROVE FALSE
      <4>1. Desired(g) = Current(g)
        BY ZenonT(60), <2>1, <3>1, LastNote
      <4> QED
        BY ZenonT(60), <2>1, <3>1, <4>1 DEF ToPatch
    <3> QED
      BY ZenonT(60), <3>1
  <2> QED
    BY ZenonT(60), <2>1, <2>2, SamePlacement
<1>2. ASSUME NEW h \in Groups, ShrinkPlacementForSet(h)
      PROVE  /\ sets'[g].replicas = sets[g].replicas
             /\ StayingOrdinals(g)' = StayingOrdinals(g)
  <2>1. pass.pc = "resize" /\ ~Skipped(h) /\ UNCHANGED sets
    BY ZenonT(60), <1>2, ShrinkParts
  <2>2. PICK S : Removable(h, S) /\ \A i : Staying(i)' = Staying(i) \ S
    BY ZenonT(60), <1>2, ShrinkParts
  <2>3. ASSUME NEW id \in Staying(g), id \in S PROVE FALSE
    <3>1. GroupOf(id) = g /\ GroupOf(id) = h /\ OrdinalOf(id) >= Desired(h) /\ id \in Ids
      BY ZenonT(60), <2>2, <2>3, WhoStays DEF Removable
    <3>2. Done(g) /\ Desired(g) = cluster.desired[g]
      BY ZenonT(60), <2>1, <3>1, LastNote
    <3>3. OrdinalOf(id) < sets[g].replicas /\ sets[g].replicas = Desired(g)
      BY ZenonT(60), <2>3, <3>2 DEF ResizeInv, PlacedPodsKept, Done
    <3>4. Desired(g) \in Nat /\ OrdinalOf(id) \in Nat
      BY ZenonT(60), <3>1, IdParts, SizeTypes, CountsAreNumbers DEF Desired
    <3> QED
      BY ZenonT(60), <3>1, <3>3, <3>4, Comparisons
  <2>4. Staying(g)' = Staying(g)
    BY ZenonT(60), <2>2, <2>3
  <2> QED
    BY ZenonT(60), <2>1, <2>4 DEF StayingOrdinals
<1>3. ASSUME AddPodsToPlacement
      PROVE  /\ sets'[g].replicas = sets[g].replicas
             /\ StayingOrdinals(g)' = StayingOrdinals(g)
  <2>1. /\ pass.pc = "add" /\ UNCHANGED sets
        /\ \/ UNCHANGED placement
           \/ \A i : Staying(i)' = Staying(i) \cup {id \in pass.adding : GroupOf(id) = i}
    BY ZenonT(60), <1>3, AddParts
  <2>2. \A id \in pass.adding : GroupOf(id) # g
    BY ZenonT(60), <2>1 DEF NoteInv, AddNotedInv, At
  <2>3. Staying(g)' = Staying(g)
    BY ZenonT(60), <2>1, <2>2, SamePlacement
  <2> QED
    BY ZenonT(60), <2>1, <2>3 DEF StayingOrdinals
<1>4. ASSUME ReplacePodInPlacement
      PROVE  /\ sets'[g].replicas = sets[g].replicas
             /\ StayingOrdinals(g)' = StayingOrdinals(g)
  BY ZenonT(60), <1>4, ReplaceResize
<1> QED
  BY ZenonT(60), <1>1, <1>2, <1>3, <1>4

(***************************************************************************)
(* With a patient user, a set under OnDelete is resized, in its size and   *)
(* in the pods that are in the placement, only while it has the            *)
(* in-progress annotation, though a pass reads the annotation from a cache *)
(* (handleClusterUpdate, the loop over the sets).                          *)
(***************************************************************************)
THEOREM ResizesComeAnnotated ==
  ASSUME PatientUser
  PROVE  Spec => ResizesAreAnnotated
<1> DEFINE A == \A g \in Groups :
                  sets[g].onDelete /\ ~sets[g].inProgress =>
                    /\ sets'[g].replicas = sets[g].replicas
                    /\ placementExists => StayingOrdinals(g)' = StayingOrdinals(g)
<1>1. TypeOK /\ SeenIsCurrent /\ ResizeInv /\ NoteInv /\ [Next]_vars => A
  <2> SUFFICES ASSUME TypeOK, SeenIsCurrent, ResizeInv, NoteInv, [Next]_vars,
                      NEW g \in Groups, sets[g].onDelete, ~sets[g].inProgress
               PROVE  /\ sets'[g].replicas = sets[g].replicas
                      /\ placementExists => StayingOrdinals(g)' = StayingOrdinals(g)
    BY ZenonT(60)
  <2> QED
    BY ZenonT(60), NotedResize, OtherResize
<1> HIDE DEF A
<1>2. [][A]_vars => ResizesAreAnnotated
  BY DEF A, ResizesAreAnnotated
<1> QED
  BY <1>1, <1>2, TypeCorrect, ViewCorrect, PatientResizes, PatientNotes, PTL DEF Spec

(***************************************************************************)
(* Only the end of a pass removes an annotation.                           *)
(***************************************************************************)
LEMMA OnlyCleanup ==
  ASSUME TypeOK, [Next]_vars, ~CleanupAnnotations, NEW g \in Groups, sets[g].inProgress
  PROVE  sets'[g].inProgress
<1>1. CASE UNCHANGED sets
  BY ZenonT(60), <1>1
<1>2. ASSUME NEW h \in Groups, PatchStatefulSet(h) PROVE sets'[g].inProgress
  BY ZenonT(60), <1>2, PatchParts
<1>3. ASSUME NEW h \in Groups, UpdateSetStatus(h) PROVE sets'[g].inProgress
  BY ZenonT(60), <1>3 DEF UpdateSetStatus, TypeOK, Sets
<1>4. ASSUME NEW h \in Groups, ApplyStatefulSetUpdate(h) PROVE sets'[g].inProgress
  BY ZenonT(60), <1>4 DEF ApplyStatefulSetUpdate, TypeOK, Sets
<1>5. ASSUME Pass, ~\E h \in Groups : PatchStatefulSet(h) PROVE UNCHANGED sets
  BY ZenonT(60), <1>5
  DEF Pass, StartPass, InitPlacement, SetStatusPlacementCreated, FetchPlacement, ReplacePodStatus,
      ReplacePodInPlacement, ExpandPlacementForSet, ShrinkPlacementForSet, AddPodsToPlacement,
      AllAtSize, ReconcileBootstrappingStatus, kube
<1>6. ASSUME Environment, ~\E h \in Groups : UpdateSetStatus(h) \/ ApplyStatefulSetUpdate(h)
      PROVE  UNCHANGED sets
  BY ZenonT(60), <1>6
  DEF Environment, SyncCluster, SyncSets, SyncPods, PassAborts, StatefulSetController, CreatePod,
      DeletePod, FailPod, ChangeSpec, Database, BecomeAvailable, Leave, kube
<1>7. CASE UNCHANGED vars
  BY ZenonT(60), <1>1, <1>7 DEF vars
<1> QED
  BY ZenonT(60), <1>1, <1>2, <1>3, <1>4, <1>5, <1>6, <1>7 DEF Next

(***************************************************************************)
(* With a patient user, the in-progress annotation goes only when the set  *)
(* and its instances in the placement have the size that the cluster asks  *)
(* for (cleanupAnnotations).                                               *)
(***************************************************************************)
THEOREM AnnotationsLast ==
  ASSUME PatientUser
  PROVE  Spec => AnnotatedUntilResized
<1> DEFINE A == \A g \in Groups :
                  sets[g].inProgress /\ ~sets'[g].inProgress =>
                    /\ sets[g].replicas = cluster.desired[g]
                    /\ Cardinality(Staying(g)) = cluster.desired[g]
<1>1. TypeOK /\ NoteInv /\ [Next]_vars => A
  <2> SUFFICES ASSUME TypeOK, NoteInv, [Next]_vars,
                      NEW g \in Groups, sets[g].inProgress, ~sets'[g].inProgress
               PROVE  /\ sets[g].replicas = cluster.desired[g]
                      /\ Cardinality(Staying(g)) = cluster.desired[g]
    BY ZenonT(60)
  <2>1. CleanupAnnotations
    BY ZenonT(60), OnlyCleanup
  <2>2. pass.pc = "cleanup"
    BY ZenonT(60), <2>1, CleanupParts
  <2>3. PICK h \in Groups : pass.sets[h].inProgress /\ sets' = [sets EXCEPT ![h].inProgress = FALSE]
    BY ZenonT(60), <2>1, CleanupParts
  <2>4. h = g
    BY ZenonT(60), <2>3 DEF TypeOK, Sets
  <2>5. Done(g) /\ Cardinality(Staying(g)) = cluster.desired[g]
    BY ZenonT(60), <2>2, <2>3, <2>4 DEF NoteInv, FinishInv
  <2> QED
    BY ZenonT(60), <2>5 DEF Done
<1> HIDE DEF A
<1>2. [][A]_vars => AnnotatedUntilResized
  BY DEF A, AnnotatedUntilResized
<1> QED
  BY <1>1, <1>2, TypeCorrect, PatientNotes, PTL DEF Spec

=============================================================================
