------------------------ MODULE LocalDirectoryProofs ------------------------
(***************************************************************************)
(* Readers of a publication root see whole generations only, and every     *)
(* generation of the retained history is whole on disk, if the callers     *)
(* change the root one at a time: for every number of runs and retries,    *)
(* each dying between any two calls of the filesystem and cleaned up later.*)
(*                                                                         *)
(* The argument: one run is busy at a time (OneBusy), so what it has read  *)
(* is still so (Phases). A stage is written before its key is journalled   *)
(* and never after, and becomes a release after it (Books, Apart): a       *)
(* release that a sweep or a cleanup has begun to remove has no stage      *)
(* left, and no deployment activates it again. Nothing that is served or   *)
(* retained is ever removed (Whole).                                       *)
(***************************************************************************)
EXTENDS LocalDirectory, SequenceTheorems, WellFoundedInduction, TLAPS

Types ==
    /\ current \in Served
    /\ releases \in [Generations -> Contents]
    /\ stages \in [Tokens -> Contents]
    /\ history \in Seq(Generations) \cup {Torn}
    /\ journal \in Seq(Entries) \cup {Torn}
    /\ pc \in [Runs -> Idle \cup Busy]
    /\ artifact \in [Runs -> Artifacts]
    /\ DOMAIN copy = Runs /\ copy = [r \in Runs |-> copy[r]]
    /\ doomed \in [Runs -> SUBSET Generations]

OneBusy == \A q, r \in Runs : q = r \/ pc[q] \in Idle \/ pc[r] \in Idle

\* What is served is whole, and what may be rolled back to.
IsWhole(g) == releases[g] \in Artifacts
Members(s) == {s[i] : i \in DOMAIN s}
Whole ==
    /\ current # Nothing => IsWhole(current)
    /\ history # Torn => \A g \in Members(history) : IsWhole(g)

\* An attempt has its stage or its release.
Apart == \A q \in Runs : releases[GenerationOf[q]] # "absent" => stages[TokenOf[q]] = "absent"

\* A journal, in the file or about to be written there: the attempts that have a
\* release are in it, and the rollbacks that have not staged are not.
Unstaged == {"new", "copying", "staging"}
Books(entries, released, phase) ==
    \A q \in Runs :
        /\ released[GenerationOf[q]] # "absent" => Journalled(entries, q)
        /\ IsRollback(q) /\ phase[q] \in Unstaged => ~Journalled(entries, q)

\* A history about to be written.
Certifies(generations, r) ==
    /\ generations \in Seq(Generations) /\ generations # <<>>
    /\ generations[1] = GenerationOf[r]
    /\ \A g \in Members(generations) : IsWhole(g)

\* What a busy run relies on, phase by phase.
Phases(r) ==
    /\ pc[r] = "copying" => IsRollback(r) /\ history # Torn /\ TargetOf[r] \in Members(history)
    /\ pc[r] = "writing" => stages[TokenOf[r]] # "absent"
    /\ pc[r] \in {"journalling", "truncatingJournal", "writingJournal"} =>
           stages[TokenOf[r]] = artifact[r]
    /\ pc[r] \in {"writing", "journalling", "truncatingJournal"} =>
           journal # Torn /\ ~Journalled(journal, r)
    /\ pc[r] \in {"truncatingJournal", "writingJournal"} =>
           /\ copy[r] \in Seq(Entries) /\ Journalled(copy[r], r)
           /\ Books(copy[r], releases, pc)
    /\ pc[r] \in {"staged", "promoting"} =>
           /\ journal # Torn /\ Journalled(journal, r)
           /\ IsRollback(r) => stages[TokenOf[r]] = artifact[r]
    /\ pc[r] = "swapping" => IsWhole(GenerationOf[r])
    /\ pc[r] \in {"certifying", "truncatingHistory", "writingHistory", "listing"} =>
           current = GenerationOf[r]
    /\ pc[r] \in {"truncatingHistory", "writingHistory", "listing"} => Certifies(copy[r], r)
    /\ pc[r] = "listing" => history = copy[r]
    /\ pc[r] = "sweeping" =>
           /\ history # <<>> /\ history[1] = current
           /\ {g \in Generations : releases[g] # "absent"} = Members(history) \cup doomed[r]
    /\ pc[r] \in {"sweeping", "abandoning"} =>
           history # Torn /\ current \notin doomed[r] /\ doomed[r] \cap Members(history) = {}

IInv ==
    /\ Types /\ OneBusy /\ Whole /\ Apart
    /\ journal # Torn => Books(journal, releases, pc)
    /\ \A r \in Runs : Phases(r)

-----------------------------------------------------------------------------
(* One at a time.                                                          *)

OthersIdle(r) == \A q \in Runs \ {r} : pc[q] \in Idle
OnlyMoves(r) == \A q \in Runs \ {r} : pc'[q] = pc[q]

\* Whoever does more than inspect does so alone.
LEMMA WhoActsIsAlone ==
    ASSUME Exclusive, OneBusy, Types, NEW r \in Runs,
           pc[r] \in Busy \/ Alone(r)
    PROVE  OthersIdle(r)
  BY DEF OneBusy, OthersIdle, Alone, Idle, Busy

\* An idle run relies on nothing.
LEMMA IdleRelyOnNothing ==
    ASSUME NEW q \in Runs, pc[q] \in Idle
    PROVE  Phases(q)
  BY DEF Phases, Idle

LEMMA Together ==
    ASSUME NEW r \in Runs, OthersIdle(r), OnlyMoves(r),
           Types', Whole', Apart', journal' # Torn => Books(journal, releases, pc)',
           Phases(r)'
    PROVE  IInv'
  <1>1. \A q \in Runs \ {r} : pc'[q] \in Idle
    BY DEF OthersIdle, OnlyMoves
  <1>2. OneBusy'
    BY <1>1 DEF OneBusy
  <1>3. ASSUME NEW q \in Runs  PROVE Phases(q)'
    <2>1. CASE q = r
      BY <2>1
    <2>2. CASE q # r
      BY <2>2, <1>1 DEF Phases, Idle
    <2> QED  BY <2>1, <2>2
  <1> QED  BY <1>2, <1>3 DEF IInv

LEMMA GotoMoves ==
    ASSUME Types, NEW r \in Runs, NEW phase \in Idle \cup Busy, Goto(r, phase)
    PROVE  /\ pc'[r] = phase /\ OnlyMoves(r)
           /\ pc' \in [Runs -> Idle \cup Busy]
  BY DEF Types, Goto, OnlyMoves

\* A journal stays in order while attempts only lose releases and leave what precedes a stage.
LEMMA BooksKept ==
    ASSUME NEW entries, NEW released, NEW phase, NEW releasedNext, NEW phaseNext,
           Books(entries, released, phase),
           \A q \in Runs : releasedNext[GenerationOf[q]] # "absent" =>
               released[GenerationOf[q]] # "absent" \/ Journalled(entries, q),
           \A q \in Runs : IsRollback(q) /\ phaseNext[q] \in Unstaged => phase[q] \in Unstaged
    PROVE  Books(entries, releasedNext, phaseNext)
  BY DEF Books

-----------------------------------------------------------------------------
(* The steps.                                                              *)

LEMMA InitEstablishes ==
    ASSUME Init
    PROVE  IInv
  <1>1. Types
    BY LocalDirectoryAssumption, EmptySeq
    DEF Init, Types, Served, Contents, Tokens, Idle
  <1>2. \A q \in Runs : GenerationOf[q] \in Generations /\ TokenOf[q] \in Tokens
    BY LocalDirectoryAssumption DEF Tokens
  <1>3. OneBusy /\ \A r \in Runs : Phases(r)
    BY DEF Init, OneBusy, Idle, Phases
  <1>4. Whole /\ Apart
    BY <1>2 DEF Init, Whole, Apart, Members
  <1>5. Books(journal, releases, pc)
    BY <1>2 DEF Init, Books, Journalled
  <1> QED  BY <1>1, <1>3, <1>4, <1>5 DEF IInv

LEMMA InspectKeeps ==
    ASSUME IInv, NEW r \in Runs, Inspect(r)
    PROVE  IInv'
  <1>1. PICK phase \in {"failed", "staging"} : Goto(r, phase)
    BY DEF Inspect
  <1>2. pc'[r] = phase /\ OnlyMoves(r) /\ pc' \in [Runs -> Idle \cup Busy]
    BY <1>1, GotoMoves DEF IInv, Idle
  <1>3. UNCHANGED <<disk, artifact, copy, doomed>> /\ pc[r] = "new" /\ ~IsRollback(r)
    BY DEF Inspect
  <1>4. Types' /\ Whole' /\ Apart'
    BY <1>2, <1>3 DEF IInv, Types, Whole, Apart, IsWhole, disk
  <1>5. OneBusy'
    BY <1>2, <1>3 DEF IInv, OneBusy, OnlyMoves, Idle
  <1>6. \A entries : Books(entries, releases, pc) => Books(entries, releases, pc')
    BY <1>2, <1>3 DEF Books, OnlyMoves
  <1>7. ASSUME NEW q \in Runs  PROVE Phases(q)'
    <2>1. CASE q = r
      BY <2>1, <1>2 DEF Phases
    <2>2. CASE q # r
      <3>1. pc'[q] = pc[q] /\ Phases(q)
        BY <2>2, <1>2 DEF OnlyMoves, IInv
      <3> QED
        BY <3>1, <1>3, <1>6 DEF Phases, disk, IsWhole, Certifies, Journalled
    <2> QED  BY <2>1, <2>2
  <1> QED
    BY <1>3, <1>4, <1>5, <1>6, <1>7 DEF IInv, disk

\* A step that leaves the disk alone, and does not go back before the stage.
LEMMA QuietKeeps ==
    ASSUME IInv, NEW r \in Runs, OthersIdle(r), UNCHANGED disk,
           NEW phase \in Idle \cup Busy, Goto(r, phase),
           phase \in Unstaged => pc[r] \in Unstaged,
           artifact' \in [Runs -> Artifacts],
           copy' = [q \in Runs |-> copy'[q]],
           doomed' \in [Runs -> SUBSET Generations],
           Phases(r)'
    PROVE  IInv'
  <1>1. pc'[r] = phase /\ OnlyMoves(r) /\ pc' \in [Runs -> Idle \cup Busy]
    BY GotoMoves DEF IInv
  <1>2. Types' /\ Whole' /\ Apart'
    BY <1>1 DEF IInv, Types, Whole, Apart, IsWhole, disk
  <1>3. journal' # Torn => Books(journal, releases, pc)'
    BY <1>1 DEF IInv, Books, OnlyMoves, disk, Journalled
  <1> QED
    BY <1>1, <1>2, <1>3, Together

LEMMA StartRollbackKeeps ==
    ASSUME IInv, Exclusive, NEW r \in Runs, StartRollback(r)
    PROVE  IInv'
  <1>1. OthersIdle(r)
    BY WhoActsIsAlone DEF IInv, StartRollback
  <1>2. pc'[r] = "copying" /\ Goto(r, "copying") /\ UNCHANGED <<disk, local>> /\ pc[r] = "new"
    BY GotoMoves DEF IInv, StartRollback, Busy
  <1>3. TargetOf[r] \in Members(history) /\ history # Torn /\ IsRollback(r)
    BY DEF StartRollback, Contains, Members, IInv, Types
  <1>4. Phases(r)'
    BY <1>2, <1>3 DEF Phases, disk
  <1>5. UNCHANGED <<artifact, copy, doomed>>
    BY <1>2 DEF local
  <1> QED
    BY <1>1, <1>2, <1>4, <1>5, QuietKeeps DEF IInv, Types, Unstaged, Busy

LEMMA CopyTargetKeeps ==
    ASSUME IInv, Exclusive, NEW r \in Runs, CopyTarget(r)
    PROVE  IInv'
  <1>1. pc[r] = "copying" /\ UNCHANGED <<disk, copy, doomed>>
    BY DEF CopyTarget
  <1>2. OthersIdle(r)
    BY <1>1, WhoActsIsAlone DEF IInv, Busy
  <1>3. PICK phase \in {"failed", "staging"} : Goto(r, phase)
    BY DEF CopyTarget
  <1>4. pc'[r] = phase /\ phase \in Idle \cup Busy
    BY <1>3, GotoMoves DEF IInv, Idle
  <1>5. IsWhole(TargetOf[r])
    BY <1>1 DEF IInv, Phases, Whole
  <1>6. artifact' \in [Runs -> Artifacts]
    BY <1>5 DEF CopyTarget, Set, IsWhole, IInv, Types
  <1>7. Phases(r)'
    BY <1>4 DEF Phases
  <1> QED
    BY <1>1, <1>2, <1>3, <1>4, <1>6, <1>7, QuietKeeps DEF IInv, Types, Unstaged

LEMMA StageKeeps ==
    ASSUME IInv, Exclusive, RollbacksAreNotRetried, IdentitiesGoTogether,
           NEW r \in Runs, Stage(r)
    PROVE  IInv'
  <1>1. /\ pc[r] = "staging" /\ OthersIdle(r)
        /\ UNCHANGED <<current, releases, history, journal, artifact, copy, doomed>>
    BY WhoActsIsAlone DEF IInv, Stage
  <1>2. CASE /\ UNCHANGED stages
             /\ \/ Goto(r, "failed")
                \/ journal # Torn /\ Journalled(journal, r) /\ Goto(r, "staged")
    <2>1. PICK phase \in {"failed", "staged"} :
              /\ Goto(r, phase)
              /\ phase = "staged" => journal # Torn /\ Journalled(journal, r)
      BY <1>2
    <2>2. pc'[r] = phase /\ phase \in Idle \cup Busy
      BY <2>1, GotoMoves DEF IInv, Idle, Busy
    <2>3. phase = "staged" => ~IsRollback(r)
      BY <2>1, <1>1 DEF IInv, Books, Unstaged
    <2>4. Phases(r)'
      BY <2>1, <2>2, <2>3, <1>1 DEF Phases, Journalled
    <2> QED
      BY <1>1, <1>2, <2>1, <2>2, <2>4, QuietKeeps DEF IInv, Types, Unstaged, disk
  <1>3. CASE /\ journal # Torn /\ ~Journalled(journal, r)
             /\ stages' = Set(stages, TokenOf[r], "partial")
             /\ Goto(r, "writing")
    <2>1. pc'[r] = "writing" /\ OnlyMoves(r) /\ pc' \in [Runs -> Idle \cup Busy]
      BY <1>3, GotoMoves DEF IInv, Busy
    <2>2. TokenOf[r] \in Tokens
      BY DEF Tokens
    <2>3. Types' /\ Whole'
      BY <1>1, <1>3, <2>1, <2>2 DEF IInv, Types, Whole, IsWhole, Set, Contents
    <2>4. releases[GenerationOf[r]] = "absent"
      BY <1>3 DEF IInv, Books
    <2>5. Apart'
      BY <1>1, <1>3, <2>2, <2>4 DEF IInv, Types, Apart, Set, IdentitiesGoTogether
    <2>6. Books(journal, releases, pc)'
      BY <1>1, <1>3, <2>1 DEF IInv, Books, OnlyMoves, Journalled, Unstaged
    <2>7. Phases(r)'
      BY <1>1, <1>3, <2>1, <2>2, LocalDirectoryAssumption DEF Phases, Set, IInv, Types, Journalled
    <2> QED  BY <1>1, <2>1, <2>3, <2>5, <2>6, <2>7, Together
  <1> QED  BY <1>2, <1>3 DEF Stage

LEMMA WriteStageKeeps ==
    ASSUME IInv, Exclusive, IdentitiesGoTogether, NEW r \in Runs, WriteStage(r)
    PROVE  IInv'
  <1>1. /\ pc[r] = "writing" /\ Goto(r, "journalling") /\ stages[TokenOf[r]] # "absent"
        /\ journal # Torn /\ ~Journalled(journal, r)
        /\ UNCHANGED <<current, releases, history, journal, artifact, copy, doomed>>
    BY DEF WriteStage, local, IInv, Phases
  <1>2. OthersIdle(r)
    BY <1>1, WhoActsIsAlone DEF IInv, Busy
  <1>3. pc'[r] = "journalling" /\ OnlyMoves(r) /\ pc' \in [Runs -> Idle \cup Busy]
    BY <1>1, GotoMoves DEF IInv, Busy
  <1>4. stages' = Set(stages, TokenOf[r], artifact[r]) /\ TokenOf[r] \in Tokens
    BY <1>1 DEF WriteStage, Tokens
  <1>5. Types' /\ Whole'
    BY <1>1, <1>3, <1>4 DEF IInv, Types, Whole, IsWhole, Set, Contents
  <1>6. releases[GenerationOf[r]] = "absent"
    BY <1>1 DEF IInv, Apart
  <1>7. Apart'
    BY <1>1, <1>4, <1>6 DEF IInv, Types, Apart, Set, IdentitiesGoTogether
  <1>8. Books(journal, releases, pc)'
    BY <1>1, <1>3 DEF IInv, Books, OnlyMoves, Journalled, Unstaged
  <1>9. Phases(r)'
    BY <1>1, <1>3, <1>4 DEF Phases, Set, IInv, Types, Journalled
  <1> QED  BY <1>2, <1>3, <1>5, <1>7, <1>8, <1>9, Together

LEMMA JournalledInAppend ==
    ASSUME NEW entries \in Seq(Entries), NEW entry \in Entries, NEW q \in Runs
    PROVE  Journalled(Append(entries, entry), q) <=>
               Journalled(entries, q) \/ entry.key = KeyOf[q]
  BY AppendProperties, LenProperties DEF Journalled

LEMMA ReadJournalKeeps ==
    ASSUME IInv, Exclusive, RollbacksAreNotRetried, IdentitiesGoTogether,
           NEW r \in Runs, ReadJournal(r)
    PROVE  IInv'
  <1> DEFINE entry == [key |-> KeyOf[r], artifact |-> artifact[r]]
  <1>1. /\ pc[r] = "journalling" /\ journal # Torn /\ ~Journalled(journal, r)
        /\ stages[TokenOf[r]] = artifact[r]
        /\ UNCHANGED <<disk, artifact, doomed>>
    BY DEF ReadJournal, IInv, Phases
  <1>2. OthersIdle(r)
    BY <1>1, WhoActsIsAlone DEF IInv, Busy
  <1>3. copy' = Set(copy, r, Append(journal, entry)) /\ Goto(r, "truncatingJournal")
    BY <1>1 DEF ReadJournal
  <1>4. pc'[r] = "truncatingJournal" /\ OnlyMoves(r)
    BY <1>3, GotoMoves DEF IInv, Busy
  <1>5. entry \in Entries /\ entry.key = KeyOf[r] /\ journal \in Seq(Entries)
    BY <1>1 DEF Entries, Keys, Contents, IInv, Types
  <1> HIDE DEF entry
  <1>6. copy'[r] = Append(journal, entry) /\ copy' = [q \in Runs |-> copy'[q]]
    BY <1>3 DEF IInv, Types, Set
  <1>7. /\ copy'[r] \in Seq(Entries) /\ Journalled(copy'[r], r)
    BY <1>5, <1>6, JournalledInAppend, AppendProperties
  <1>8. Books(copy'[r], releases, pc')
    <2>1. Books(journal, releases, pc)
      BY <1>1 DEF IInv
    <2>2. ASSUME NEW q \in Runs, releases[GenerationOf[q]] # "absent"
          PROVE  Journalled(copy'[r], q)
      BY <2>1, <2>2, <1>5, <1>6, JournalledInAppend DEF Books
    <2>3. ASSUME NEW q \in Runs, IsRollback(q), pc'[q] \in Unstaged
          PROVE  ~Journalled(copy'[r], q)
      <3>1. q # r /\ pc[q] \in Unstaged
        BY <2>3, <1>4 DEF Unstaged, OnlyMoves
      <3>2. KeyOf[q] # KeyOf[r]
        BY <2>3, <3>1 DEF RollbacksAreNotRetried, IdentitiesGoTogether
      <3>3. ~Journalled(journal, q)
        BY <2>1, <2>3, <3>1 DEF Books
      <3> QED  BY <3>2, <3>3, <1>5, <1>6, JournalledInAppend
    <2> QED  BY <2>2, <2>3 DEF Books
  <1>9. Phases(r)'
    BY <1>1, <1>4, <1>7, <1>8 DEF Phases, disk, Journalled
  <1> QED
    BY <1>1, <1>2, <1>3, <1>6, <1>9, QuietKeeps DEF IInv, Types, Unstaged, Busy

LEMMA TruncateKeeps ==
    ASSUME IInv, Exclusive, NEW r \in Runs, Truncate(r)
    PROVE  IInv'
  <1>1. /\ pc[r] \in {"truncatingJournal", "truncatingHistory"} /\ OthersIdle(r)
        /\ UNCHANGED <<current, releases, stages, artifact, copy, doomed>>
    BY WhoActsIsAlone DEF IInv, Truncate, local, Busy
  <1>2. CASE pc[r] = "truncatingJournal"
    <2>1. journal' = Torn /\ UNCHANGED history /\ Goto(r, "writingJournal")
      BY <1>2 DEF Truncate
    <2>2. pc'[r] = "writingJournal" /\ OnlyMoves(r) /\ pc' \in [Runs -> Idle \cup Busy]
      BY <2>1, GotoMoves DEF IInv, Busy
    <2>3. Types' /\ Whole' /\ Apart'
      BY <1>1, <2>1, <2>2 DEF IInv, Types, Whole, Apart, IsWhole
    <2>4. Books(copy[r], releases, pc')
      BY <1>2, <2>2 DEF IInv, Phases, Books, OnlyMoves, Unstaged
    <2>5. Phases(r)'
      BY <1>1, <1>2, <2>2, <2>4 DEF IInv, Phases, Journalled
    <2> QED  BY <1>1, <2>1, <2>2, <2>3, <2>5, Together
  <1>3. CASE pc[r] = "truncatingHistory"
    <2>1. history' = Torn /\ UNCHANGED journal /\ Goto(r, "writingHistory")
      BY <1>3 DEF Truncate
    <2>2. pc'[r] = "writingHistory" /\ OnlyMoves(r) /\ pc' \in [Runs -> Idle \cup Busy]
      BY <2>1, GotoMoves DEF IInv, Busy
    <2>3. Types' /\ Whole' /\ Apart'
      BY <1>1, <2>1, <2>2 DEF IInv, Types, Whole, Apart, IsWhole
    <2>4. journal' # Torn => Books(journal, releases, pc)'
      BY <1>1, <1>3, <2>1, <2>2 DEF IInv, Books, OnlyMoves, Unstaged, Journalled
    <2>5. Phases(r)'
      BY <1>1, <1>3, <2>2 DEF IInv, Phases, Certifies, IsWhole
    <2> QED  BY <1>1, <2>2, <2>3, <2>4, <2>5, Together
  <1> QED  BY <1>1, <1>2, <1>3

LEMMA WriteFileKeeps ==
    ASSUME IInv, Exclusive, NEW r \in Runs, WriteFile(r)
    PROVE  IInv'
  <1>1. /\ pc[r] \in {"writingJournal", "writingHistory"} /\ OthersIdle(r)
        /\ UNCHANGED <<current, releases, stages, artifact, doomed>>
    BY WhoActsIsAlone DEF IInv, WriteFile, Busy
  <1>2. CASE pc[r] = "writingJournal"
    <2>1. /\ journal' = copy[r] /\ UNCHANGED history /\ Goto(r, "staged")
          /\ copy' = Set(copy, r, <<>>)
      BY <1>2 DEF WriteFile
    <2>2. pc'[r] = "staged" /\ OnlyMoves(r) /\ pc' \in [Runs -> Idle \cup Busy]
      BY <2>1, GotoMoves DEF IInv, Busy
    <2>3. copy[r] \in Seq(Entries) /\ Journalled(copy[r], r) /\ Books(copy[r], releases, pc)
      BY <1>2 DEF IInv, Phases
    <2>4. copy' = [q \in Runs |-> copy'[q]]
      BY <2>1 DEF IInv, Types, Set
    <2>5. Types' /\ Whole' /\ Apart'
      BY <1>1, <2>1, <2>2, <2>3, <2>4 DEF IInv, Types, Whole, Apart, IsWhole
    <2>6. Books(journal, releases, pc)'
      BY <1>1, <2>1, <2>2, <2>3 DEF Books, OnlyMoves, Unstaged, Journalled
    <2>7. journal' # Torn
      BY <2>1, <2>3, TornAssumption
    <2>8. Phases(r)'
      BY <1>1, <1>2, <2>1, <2>2, <2>3, <2>7 DEF IInv, Phases, Journalled
    <2> QED  BY <1>1, <2>2, <2>5, <2>6, <2>8, Together
  <1>3. CASE pc[r] = "writingHistory"
    <2>1. history' = copy[r] /\ UNCHANGED <<journal, copy>> /\ Goto(r, "listing")
      BY <1>3 DEF WriteFile
    <2>2. pc'[r] = "listing" /\ OnlyMoves(r) /\ pc' \in [Runs -> Idle \cup Busy]
      BY <2>1, GotoMoves DEF IInv, Busy
    <2>3. Certifies(copy[r], r)
      BY <1>3 DEF IInv, Phases
    <2>4. Types' /\ Whole' /\ Apart'
      BY <1>1, <2>1, <2>2, <2>3 DEF IInv, Types, Whole, Apart, IsWhole, Certifies
    <2>5. journal' # Torn => Books(journal, releases, pc)'
      BY <1>1, <1>3, <2>1, <2>2 DEF IInv, Books, OnlyMoves, Unstaged, Journalled
    <2>6. Phases(r)'
      BY <1>1, <1>3, <2>1, <2>2 DEF IInv, Phases, Certifies, IsWhole
    <2> QED  BY <1>1, <2>2, <2>4, <2>5, <2>6, Together
  <1> QED  BY <1>1, <1>2, <1>3

LEMMA ActivateKeeps ==
    ASSUME IInv, Exclusive, NEW r \in Runs, Activate(r)
    PROVE  IInv'
  <1>1. /\ pc[r] = "staged" /\ UNCHANGED <<disk, artifact, copy, doomed>>
    BY DEF Activate
  <1>2. OthersIdle(r)
    BY <1>1, WhoActsIsAlone DEF IInv, Busy
  <1>3. PICK phase \in {"done", "observing", "promoting"} : Goto(r, phase)
    BY DEF Activate
  <1>4. pc'[r] = phase /\ phase \in Idle \cup Busy
    BY <1>3, GotoMoves DEF IInv, Idle, Busy
  <1>5. Phases(r)'
    BY <1>1, <1>4 DEF IInv, Phases, disk, Journalled
  <1> QED
    BY <1>1, <1>2, <1>3, <1>4, <1>5, QuietKeeps DEF IInv, Types, Unstaged

\* Only a stage that is whole becomes a release, and only where there was none: an
\* attempt that has a release has no stage left to activate it with.
LEMMA PromoteKeeps ==
    ASSUME IInv, Exclusive, IdentitiesGoTogether, NEW r \in Runs, Promote(r)
    PROVE  IInv'
  <1> DEFINE stage == stages[TokenOf[r]]
             released == releases[GenerationOf[r]] # "absent"
             intact == IsRollback(r) \/ stage = artifact[r]
  <1>1. /\ pc[r] = "promoting" /\ UNCHANGED <<current, history, journal, artifact, copy, doomed>>
        /\ journal # Torn /\ Journalled(journal, r)
        /\ IsRollback(r) => stage = artifact[r]
    BY DEF Promote, local, IInv, Phases
  <1>2. OthersIdle(r)
    BY <1>1, WhoActsIsAlone DEF IInv, Busy
  <1>3. GenerationOf[r] \in Generations /\ TokenOf[r] \in Tokens
    BY LocalDirectoryAssumption DEF Tokens
  <1>4. intact => stage = artifact[r] /\ stage \in Artifacts /\ stage # "absent" /\ ~released
    <2>1. intact => stage = artifact[r] /\ artifact[r] \in Artifacts
      BY <1>1 DEF IInv, Types
    <2>2. artifact[r] # "absent"
      BY LocalDirectoryAssumption DEF IInv, Types
    <2>3. released => stage = "absent"
      BY DEF IInv, Apart
    <2> QED  BY <2>1, <2>2, <2>3
  <1>5. CASE ~intact
    <2>1. UNCHANGED disk /\ Goto(r, "failed")
      BY <1>1, <1>5 DEF Promote, disk
    <2>2. pc'[r] = "failed"
      BY <2>1, GotoMoves DEF IInv, Idle
    <2>3. Phases(r)'
      BY <2>2 DEF Phases
    <2> QED
      BY <1>1, <1>2, <2>1, <2>3, QuietKeeps DEF IInv, Types, Unstaged, Idle
  <1>6. CASE intact
    <2>1. /\ releases' = Set(releases, GenerationOf[r], stage)
          /\ stages' = Set(stages, TokenOf[r], "absent")
          /\ Goto(r, "swapping")
      BY <1>4, <1>6 DEF Promote
    <2>2. pc'[r] = "swapping" /\ OnlyMoves(r) /\ pc' \in [Runs -> Idle \cup Busy]
      BY <2>1, GotoMoves DEF IInv, Busy
    <2>3. /\ releases' \in [Generations -> Contents] /\ releases'[GenerationOf[r]] \in Artifacts
          /\ \A g \in Generations \ {GenerationOf[r]} : releases'[g] = releases[g]
      BY <1>3, <1>4, <1>6, <2>1 DEF IInv, Types, Set, Contents
    <2>4. /\ stages' \in [Tokens -> Contents] /\ stages'[TokenOf[r]] = "absent"
          /\ \A t \in Tokens \ {TokenOf[r]} : stages'[t] = stages[t]
      BY <1>3, <2>1 DEF IInv, Types, Set, Contents
    <2>5. Types'
      BY <1>1, <2>2, <2>3, <2>4 DEF IInv, Types
    <2>6. \A g \in Generations : IsWhole(g) => IsWhole(g)'
      BY <2>3 DEF IsWhole
    <2>7. Whole'
      <3>1. current # Nothing => current \in Generations
        BY DEF IInv, Types, Served
      <3>2. history # Torn => Members(history) \subseteq Generations
        BY DEF IInv, Types, Members
      <3> QED  BY <1>1, <2>6, <3>1, <3>2 DEF IInv, Whole, Members
    <2>8. Apart'
      <3> SUFFICES ASSUME NEW q \in Runs, releases'[GenerationOf[q]] # "absent"
                   PROVE  stages'[TokenOf[q]] = "absent"
        BY DEF Apart
      <3>1. GenerationOf[q] \in Generations /\ TokenOf[q] \in Tokens
        BY LocalDirectoryAssumption DEF Tokens
      <3>2. CASE TokenOf[q] = TokenOf[r]
        BY <3>2, <2>4
      <3>3. CASE TokenOf[q] # TokenOf[r]
        <4>1. GenerationOf[q] # GenerationOf[r]
          BY <3>3 DEF IdentitiesGoTogether
        <4> QED  BY <3>1, <3>3, <4>1, <2>3, <2>4 DEF IInv, Apart
      <3> QED  BY <3>2, <3>3
    <2>9. Books(journal, releases, pc)'
      <3>1. \A q \in Runs : GenerationOf[q] = GenerationOf[r] => Journalled(journal, q)
        BY <1>1 DEF IdentitiesGoTogether, Journalled
      <3>2. \A q \in Runs : releases'[GenerationOf[q]] # "absent" =>
                releases[GenerationOf[q]] # "absent" \/ Journalled(journal, q)
        BY <3>1, <2>3, LocalDirectoryAssumption
      <3>3. \A q \in Runs : pc'[q] \in Unstaged => pc[q] \in Unstaged
        BY <2>2 DEF OnlyMoves, Unstaged
      <3>4. Books(journal, releases', pc')
        BY <1>1, <3>2, <3>3, BooksKept DEF IInv
      <3> QED  BY <1>1, <3>4 DEF Books, Journalled
    <2>10. Phases(r)'
      BY <2>2, <2>3 DEF Phases, IsWhole
    <2> QED  BY <1>2, <2>2, <2>5, <2>7, <2>8, <2>9, <2>10, Together
  <1> QED  BY <1>5, <1>6

LEMMA SwapKeeps ==
    ASSUME IInv, Exclusive, NEW r \in Runs, Swap(r)
    PROVE  IInv'
  <1>1. /\ pc[r] = "swapping" /\ current' = GenerationOf[r] /\ Goto(r, "certifying")
        /\ UNCHANGED <<releases, stages, history, journal, artifact, copy, doomed>>
    BY DEF Swap, local
  <1>2. OthersIdle(r)
    BY <1>1, WhoActsIsAlone DEF IInv, Busy
  <1>3. pc'[r] = "certifying" /\ OnlyMoves(r) /\ pc' \in [Runs -> Idle \cup Busy]
    BY <1>1, GotoMoves DEF IInv, Busy
  <1>4. IsWhole(GenerationOf[r]) /\ GenerationOf[r] \in Generations
    BY <1>1, LocalDirectoryAssumption DEF IInv, Phases
  <1>5. Types' /\ Whole' /\ Apart'
    BY <1>1, <1>3, <1>4 DEF IInv, Types, Served, Whole, IsWhole, Apart
  <1>6. journal' # Torn => Books(journal, releases, pc)'
    BY <1>1, <1>3 DEF IInv, Books, OnlyMoves, Unstaged, Journalled
  <1>7. Phases(r)'
    BY <1>1, <1>3 DEF Phases
  <1> QED  BY <1>2, <1>3, <1>5, <1>6, <1>7, Together

\* A set of natural numbers has a least member.
LEMMA MinIsMember ==
    ASSUME NEW I \in SUBSET Nat, I # {}
    PROVE  Min(I) \in I
  <1> DEFINE less == {pair \in Nat \X Nat : pair[1] < pair[2]}
  <1>1. IsWellFoundedOn(less, Nat)
    BY NatLessThanWellFounded DEF OpToRel
  <1>2. \A x, y \in Nat : y < x => <<y, x>> \in less
    OBVIOUS
  <1> HIDE DEF less
  <1>3. PICK x \in I : \A y \in I : ~(<<y, x>> \in less)
    BY <1>1, WFMin
  <1>4. ASSUME NEW y \in I  PROVE x <= y
    <2>1. x \in Nat /\ y \in Nat
      OBVIOUS
    <2>2. ~(y < x)
      BY <1>2, <1>3, <2>1
    <2> QED  BY <2>1, <2>2
  <1> QED  BY <1>4 DEF Min

\* What is left of a sequence when an element is removed is of the sequence.
LEMMA RemoveFirstKeeps ==
    ASSUME NEW S, NEW s \in Seq(S), NEW e
    PROVE  RemoveFirst(s, e) \in Seq(Members(s))
  <1>1. CASE \E i \in 1 .. Len(s) : s[i] = e
    <2> DEFINE I == {i \in 1 .. Len(s) : s[i] = e}
               k == Min(I)
    <2>1. RemoveFirst(s, e) = SubSeq(s, 1, k - 1) \o SubSeq(s, k + 1, Len(s))
      BY <1>1 DEF RemoveFirst, RemoveAt, SelectInSeq
    <2>2. k \in 1 .. Len(s)
      <3>1. I \in SUBSET Nat /\ I # {}
        BY <1>1
      <3>2. Min(I) \in I
        BY <3>1, MinIsMember
      <3> QED  BY <3>2
    <2> HIDE DEF k
    <2>3. SubSeq(s, 1, k - 1) \in Seq(Members(s))
      <3>1. \A i \in 1 .. k - 1 : s[i] \in Members(s)
        BY <2>2 DEF Members
      <3> QED  BY <2>2, <3>1, SubSeqProperties
    <2>4. SubSeq(s, k + 1, Len(s)) \in Seq(Members(s))
      <3>1. \A i \in k + 1 .. Len(s) : s[i] \in Members(s)
        BY <2>2 DEF Members
      <3> QED  BY <2>2, <3>1, SubSeqProperties
    <2> QED  BY <2>1, <2>3, <2>4, ConcatProperties
  <1>2. CASE ~\E i \in 1 .. Len(s) : s[i] = e
    <2>1. s \in Seq(Members(s))
      BY DEF Members
    <2> QED  BY <1>2, <2>1 DEF RemoveFirst
  <1> QED  BY <1>1, <1>2

\* The history about to be written: the generation first, then generations of the history.
LEMMA RetainedKeeps ==
    ASSUME NEW r \in Runs, history \in Seq(Generations)
    PROVE  /\ Retained(r) \in Seq({GenerationOf[r]} \cup Members(history))
           /\ Retained(r) # <<>> /\ Retained(r)[1] = GenerationOf[r]
  <1> DEFINE all == {GenerationOf[r]} \cup Members(history)
             rest == RemoveFirst(history, GenerationOf[r])
             inserted == <<GenerationOf[r]>> \o rest
  <1>1. rest \in Seq(all)
    <2>1. rest \in Seq(Members(history))
      BY RemoveFirstKeeps
    <2> HIDE DEF rest
    <2> QED  BY <2>1, SeqMonotonic
  <1> HIDE DEF rest
  <1>2. /\ inserted \in Seq(all) /\ Len(inserted) = 1 + Len(rest) /\ Len(rest) \in Nat
        /\ inserted[1] = GenerationOf[r]
    BY <1>1, ConcatProperties, LenProperties
  <1>3. Retained(r) = IF Len(inserted) > MaximumPrior + 1
                      THEN SubSeq(inserted, 1, MaximumPrior + 1) ELSE inserted
    BY DEF Retained, rest
  <1> HIDE DEF inserted
  <1>4. CASE Len(inserted) > MaximumPrior + 1
    <2>1. MaximumPrior \in Nat
      BY LocalDirectoryAssumption
    <2>2. \A i \in 1 .. MaximumPrior + 1 : inserted[i] \in all
      BY <1>2, <1>4, <2>1
    <2> HIDE DEF all
    <2>3. /\ SubSeq(inserted, 1, MaximumPrior + 1) \in Seq(all)
          /\ Len(SubSeq(inserted, 1, MaximumPrior + 1)) = MaximumPrior + 1
          /\ SubSeq(inserted, 1, MaximumPrior + 1)[1] = inserted[1]
      BY <2>1, <2>2, SubSeqProperties
    <2>4. Retained(r) = SubSeq(inserted, 1, MaximumPrior + 1)
      BY <1>3, <1>4
    <2> QED  BY <1>2, <2>1, <2>3, <2>4 DEF all
  <1>5. CASE ~(Len(inserted) > MaximumPrior + 1)
    BY <1>2, <1>3, <1>5
  <1> QED  BY <1>4, <1>5

LEMMA CertifyKeeps ==
    ASSUME IInv, Exclusive, NEW r \in Runs, Certify(r)
    PROVE  IInv'
  <1>1. pc[r] = "certifying" /\ UNCHANGED <<disk, artifact, doomed>>
    BY DEF Certify
  <1>2. OthersIdle(r)
    BY <1>1, WhoActsIsAlone DEF IInv, Busy
  <1>3. current = GenerationOf[r] /\ GenerationOf[r] \in Generations /\ IsWhole(current)
    BY <1>1, LocalDirectoryAssumption, FenceAssumption DEF IInv, Phases, Whole
  <1>4. CASE Goto(r, "failed") /\ UNCHANGED copy
    <2>1. pc'[r] = "failed"
      BY <1>4, GotoMoves DEF IInv, Idle
    <2>2. Phases(r)'
      BY <2>1 DEF Phases
    <2> QED
      BY <1>1, <1>2, <1>4, <2>2, QuietKeeps DEF IInv, Types, Unstaged, Idle
  <1>5. CASE /\ history # Torn /\ Goto(r, "truncatingHistory")
             /\ copy' = Set(copy, r, Retained(r))
    <2>1. pc'[r] = "truncatingHistory"
      BY <1>5, GotoMoves DEF IInv, Busy
    <2>2. copy'[r] = Retained(r) /\ copy' = [q \in Runs |-> copy'[q]]
      BY <1>5 DEF IInv, Types, Set
    <2>3. history \in Seq(Generations)
      BY <1>5 DEF IInv, Types
    <2> DEFINE all == {GenerationOf[r]} \cup Members(history)
    <2>4. \A g \in all : g \in Generations /\ IsWhole(g)
      BY <1>3, <1>5, <2>3 DEF IInv, Whole, Members
    <2>5. Retained(r) \in Seq(all) /\ Retained(r) # <<>> /\ Retained(r)[1] = GenerationOf[r]
      BY <2>3, RetainedKeeps
    <2> HIDE DEF all
    <2>6. Retained(r) \in Seq(Generations) /\ Members(Retained(r)) \subseteq all
      BY <2>4, <2>5 DEF Members
    <2>7. Certifies(Retained(r), r)
      BY <2>4, <2>5, <2>6 DEF Certifies
    <2>8. Phases(r)'
      BY <1>1, <1>3, <2>1, <2>2, <2>7 DEF Phases, disk, Certifies, IsWhole
    <2> QED
      BY <1>1, <1>2, <1>5, <2>2, <2>8, QuietKeeps DEF IInv, Types, Unstaged, Busy
  <1> QED  BY <1>4, <1>5 DEF Certify

LEMMA ListReleasesKeeps ==
    ASSUME IInv, Exclusive, NEW r \in Runs, ListReleases(r)
    PROVE  IInv'
  <1> DEFINE onDisk == {g \in Generations : releases[g] # "absent"}
  <1>1. /\ pc[r] = "listing" /\ Goto(r, "sweeping") /\ UNCHANGED <<disk, artifact>>
        /\ doomed' = Set(doomed, r, onDisk \ ToSet(copy[r]))
        /\ copy' = Set(copy, r, <<>>)
    BY DEF ListReleases
  <1>2. OthersIdle(r)
    BY <1>1, WhoActsIsAlone DEF IInv, Busy
  <1>3. pc'[r] = "sweeping"
    BY <1>1, GotoMoves DEF IInv, Busy
  <1>4. /\ current = GenerationOf[r] /\ history = copy[r] /\ Certifies(history, r)
    BY <1>1 DEF IInv, Phases
  <1>5. ToSet(copy[r]) = Members(history)
    BY <1>4 DEF ToSet, Members, Certifies
  <1>6. /\ doomed'[r] = onDisk \ Members(history)
        /\ doomed' \in [Runs -> SUBSET Generations] /\ copy' = [q \in Runs |-> copy'[q]]
    BY <1>1, <1>5 DEF IInv, Types, Set
  <1>7. /\ history # <<>> /\ history[1] = current /\ history # Torn /\ current \in Members(history)
    BY <1>4, TornAssumption DEF Certifies, Members
  <1>8. Members(history) \subseteq onDisk
    BY <1>4, LocalDirectoryAssumption DEF Certifies, IsWhole, Members
  <1>9. onDisk = Members(history) \cup doomed'[r]
    BY <1>6, <1>8
  <1>10. {g \in Generations : releases'[g] # "absent"} = Members(history)' \cup doomed'[r]
    BY <1>1, <1>9 DEF disk, Members
  <1>11. /\ (history # <<>> /\ history[1] = current /\ history # Torn)'
         /\ current' \notin doomed'[r] /\ doomed'[r] \cap Members(history)' = {}
    BY <1>1, <1>6, <1>7 DEF disk, Members
  <1>12. Phases(r)'
    BY <1>3, <1>10, <1>11 DEF Phases
  <1> QED
    BY <1>1, <1>2, <1>6, <1>12, QuietKeeps DEF IInv, Types, Unstaged, Busy

LEMMA RemoveTreeKeeps ==
    ASSUME IInv, Exclusive, NEW r \in Runs, RemoveTree(r)
    PROVE  IInv'
  <1>1. /\ pc[r] \in {"sweeping", "abandoning"}
        /\ UNCHANGED <<current, stages, history, journal, pc, artifact, copy>>
        /\ history # Torn /\ current \notin doomed[r] /\ doomed[r] \cap Members(history) = {}
    BY DEF RemoveTree, IInv, Phases
  <1>2. OthersIdle(r) /\ OnlyMoves(r)
    BY <1>1, WhoActsIsAlone DEF IInv, Busy, OnlyMoves
  <1>3. PICK g \in doomed[r] :
            \/ /\ releases[g] \in Artifacts
               /\ releases' = Set(releases, g, "partial") /\ UNCHANGED doomed
            \/ /\ releases[g] \notin Artifacts
               /\ releases' = Set(releases, g, "absent")
               /\ doomed' = Set(doomed, r, doomed[r] \ {g})
    BY DEF RemoveTree
  <1>4. g \in Generations /\ g # current /\ g \notin Members(history)
    BY <1>1, <1>3 DEF IInv, Types
  <1>5. /\ releases' \in [Generations -> Contents] /\ doomed' \in [Runs -> SUBSET Generations]
        /\ \A h \in Generations \ {g} : releases'[h] = releases[h]
        /\ doomed'[r] \subseteq doomed[r]
    BY <1>3, <1>4 DEF IInv, Types, Set, Contents
  <1>6. Types'
    BY <1>1, <1>5 DEF IInv, Types
  <1>7. \A h \in Generations : releases'[h] # "absent" => releases[h] # "absent"
    BY <1>3, <1>4, <1>5, LocalDirectoryAssumption DEF IInv, Types, Set
  <1>8. Whole'
    <2>1. current # Nothing => current \in Generations
      BY DEF IInv, Types, Served
    <2>2. Members(history) \subseteq Generations
      BY <1>1 DEF IInv, Types, Members
    <2> QED  BY <1>1, <1>4, <1>5, <2>1, <2>2 DEF IInv, Whole, IsWhole, Members
  <1>9. Apart'
    BY <1>1, <1>7, LocalDirectoryAssumption DEF IInv, Apart
  <1>10. journal' # Torn => Books(journal, releases, pc)'
    BY <1>1, <1>7, LocalDirectoryAssumption DEF IInv, Books, Journalled
  <1>11. Phases(r)'
    <2>1. CASE pc[r] = "abandoning"
      BY <1>1, <1>5, <2>1 DEF Phases, Members
    <2>2. CASE pc[r] = "sweeping"
      <3>1. /\ history # <<>> /\ history[1] = current
            /\ {h \in Generations : releases[h] # "absent"} = Members(history) \cup doomed[r]
        BY <2>2 DEF IInv, Phases
      <3>2. {h \in Generations : releases'[h] # "absent"} = Members(history) \cup doomed'[r]
        <4>1. CASE releases[g] \in Artifacts
          <5>1. releases'[g] # "absent" /\ doomed' = doomed /\ releases[g] # "absent"
            BY <1>3, <1>4, <4>1, LocalDirectoryAssumption DEF IInv, Types, Set
          <5> QED  BY <3>1, <5>1, <1>5
        <4>2. CASE releases[g] \notin Artifacts
          <5>1. releases'[g] = "absent" /\ doomed'[r] = doomed[r] \ {g}
            BY <1>3, <1>4, <4>2 DEF IInv, Types, Set
          <5> QED  BY <3>1, <5>1, <1>4, <1>5
        <4> QED  BY <4>1, <4>2
      <3> QED  BY <1>1, <1>5, <2>2, <3>1, <3>2 DEF Phases, Members
    <2> QED  BY <1>1, <2>1, <2>2
  <1> QED  BY <1>2, <1>6, <1>8, <1>9, <1>10, <1>11, Together

\* What follows the removal, the observation, the cleanup, and a crash: steps to a phase
\* that relies on nothing.
Free == Idle \cup {"observing", "cleaning", "recovering"}

LEMMA FreeKeeps ==
    ASSUME IInv, NEW r \in Runs, OthersIdle(r), UNCHANGED <<disk, artifact>>,
           NEW phase \in Free \ Unstaged, Goto(r, phase),
           copy' = [q \in Runs |-> copy'[q]],
           doomed' \in [Runs -> SUBSET Generations]
    PROVE  IInv'
  <1>1. phase \in Idle \cup Busy
    BY DEF Free, Busy
  <1>2. pc'[r] = phase
    BY <1>1, GotoMoves DEF IInv
  <1>3. Phases(r)'
    BY <1>2 DEF Phases, Free, Idle, Unstaged
  <1> QED
    BY <1>1, <1>3, QuietKeeps DEF IInv, Types

LEMMA SweptKeeps ==
    ASSUME IInv, Exclusive, NEW r \in Runs, Swept(r)
    PROVE  IInv'
  <1>1. OthersIdle(r) /\ UNCHANGED <<disk, artifact, copy, doomed>>
    BY WhoActsIsAlone DEF IInv, Swept, Busy
  <1>2. PICK phase \in {"done", "observing"} : Goto(r, phase)
    BY DEF Swept
  <1> QED
    BY <1>1, <1>2, FreeKeeps DEF IInv, Types, Free, Idle, Unstaged

LEMMA ObserveKeeps ==
    ASSUME IInv, Exclusive, NEW r \in Runs, Observe(r)
    PROVE  IInv'
  <1>1. OthersIdle(r) /\ UNCHANGED <<disk, artifact, copy, doomed>>
    BY WhoActsIsAlone DEF IInv, Observe, Busy
  <1>2. PICK phase \in {"failed", "cleaning"} : Goto(r, phase)
    BY DEF Observe
  <1> QED
    BY <1>1, <1>2, FreeKeeps DEF IInv, Types, Free, Idle, Unstaged

LEMMA CleanStageKeeps ==
    ASSUME IInv, Exclusive, NEW r \in Runs, CleanStage(r)
    PROVE  IInv'
  <1>1. /\ OthersIdle(r) /\ pc[r] = "cleaning" /\ stages' = Set(stages, TokenOf[r], "absent")
        /\ UNCHANGED <<current, releases, history, journal, artifact, copy, doomed>>
    BY WhoActsIsAlone DEF IInv, CleanStage, Busy, local
  <1>2. PICK phase \in {"done", "recovering"} : Goto(r, phase)
    BY DEF CleanStage
  <1>3. pc'[r] = phase /\ OnlyMoves(r) /\ pc' \in [Runs -> Idle \cup Busy]
    BY <1>2, GotoMoves DEF IInv, Idle, Busy
  <1>4. Types' /\ Whole' /\ Apart'
    BY <1>1, <1>3 DEF IInv, Types, Whole, IsWhole, Apart, Set, Contents, Tokens
  <1>5. journal' # Torn => Books(journal, releases, pc)'
    BY <1>1, <1>3 DEF IInv, Books, OnlyMoves, Unstaged, Journalled
  <1>6. Phases(r)'
    BY <1>3 DEF Phases
  <1> QED  BY <1>1, <1>3, <1>4, <1>5, <1>6, Together

LEMMA RecoverKeeps ==
    ASSUME IInv, Exclusive, NEW r \in Runs, Recover(r)
    PROVE  IInv'
  <1>1. /\ OthersIdle(r) /\ pc[r] = "recovering" /\ UNCHANGED <<disk, artifact, copy>>
    BY WhoActsIsAlone DEF IInv, Recover, Busy
  <1>2. CASE \E phase \in {"failed", "done"} : Goto(r, phase) /\ UNCHANGED doomed
    BY <1>1, <1>2, FreeKeeps DEF IInv, Types, Free, Idle, Unstaged
  <1>3. CASE /\ history # Torn /\ GenerationOf[r] # current
             /\ ~Contains(history, GenerationOf[r])
             /\ Goto(r, "abandoning") /\ doomed' = Set(doomed, r, {GenerationOf[r]})
    <2>1. pc'[r] = "abandoning"
      BY <1>3, GotoMoves DEF IInv, Busy
    <2>2. doomed'[r] = {GenerationOf[r]} /\ doomed' \in [Runs -> SUBSET Generations]
      BY <1>3, LocalDirectoryAssumption DEF IInv, Types, Set
    <2>3. GenerationOf[r] \notin Members(history)
      BY <1>3 DEF IInv, Types, Contains, Members
    <2>4. Phases(r)'
      BY <1>1, <1>3, <2>1, <2>2, <2>3 DEF Phases, disk, Members
    <2> QED
      BY <1>1, <1>3, <2>2, <2>4, QuietKeeps DEF IInv, Types, Unstaged, Busy
  <1> QED  BY <1>2, <1>3 DEF Recover

LEMMA CrashKeeps ==
    ASSUME IInv, Exclusive, NEW r \in Runs, Crash(r)
    PROVE  IInv'
  <1>1. OthersIdle(r) /\ UNCHANGED <<disk, artifact>> /\ Goto(r, "crashed")
    BY WhoActsIsAlone DEF IInv, Crash
  <1>2. copy' = [q \in Runs |-> copy'[q]] /\ doomed' \in [Runs -> SUBSET Generations]
    BY DEF IInv, Types, Crash, Set
  <1> QED
    BY <1>1, <1>2, FreeKeeps DEF Free, Idle, Unstaged

LEMMA CleanUpAfterCrashKeeps ==
    ASSUME IInv, Exclusive, NEW r \in Runs, CleanUpAfterCrash(r)
    PROVE  IInv'
  <1>1. OthersIdle(r) /\ UNCHANGED <<disk, artifact, copy, doomed>> /\ Goto(r, "cleaning")
    BY WhoActsIsAlone DEF IInv, CleanUpAfterCrash, local
  <1> QED
    BY <1>1, FreeKeeps DEF IInv, Types, Free, Unstaged

LEMMA NextKeeps ==
    ASSUME IInv, Exclusive, IdentitiesGoTogether, RollbacksAreNotRetried, [Next]_vars
    PROVE  IInv'
  <1>1. CASE UNCHANGED vars
    BY <1>1 DEF vars, disk, local, IInv, Types, OneBusy, Whole, IsWhole, Members, Apart, Books,
                Journalled, Phases, Certifies
  <1>2. CASE Next
    <2>1. PICK r \in Runs : Step(r) \/ Crash(r) \/ CleanUpAfterCrash(r)
      BY <1>2 DEF Next
    <2> QED
      BY <2>1, InspectKeeps, StartRollbackKeeps, CopyTargetKeeps, StageKeeps, WriteStageKeeps,
         ReadJournalKeeps, TruncateKeeps, WriteFileKeeps, ActivateKeeps, PromoteKeeps, SwapKeeps,
         CertifyKeeps, ListReleasesKeeps, RemoveTreeKeeps, SweptKeeps, ObserveKeeps,
         CleanStageKeeps, RecoverKeeps, CrashKeeps, CleanUpAfterCrashKeeps
      DEF Step
  <1> QED  BY <1>1, <1>2

-----------------------------------------------------------------------------
(* What follows from it, for callers that change the root one at a time    *)
(* and retry deployments with the identities of the first attempt.         *)

LEMMA IInvHolds ==
    ASSUME Exclusive, IdentitiesGoTogether, RollbacksAreNotRetried
    PROVE  Spec => []IInv
  BY InitEstablishes, NextKeeps, PTL DEF Spec

(* The generation the pointer names is on disk, every file of it: no sweep *)
(* and no cleanup takes it away, and activate promotes no partial stage.   *)
THEOREM ServedIsWholeHolds ==
    ASSUME Exclusive, IdentitiesGoTogether, RollbacksAreNotRetried
    PROVE  Spec => []ServedIsWhole
  <1>1. IInv => ServedIsWhole
    BY DEF IInv, Whole, IsWhole, ServedIsWhole
  <1> QED  BY <1>1, IInvHolds, PTL

(* Every generation of the retained history is whole on disk, so that each *)
(* of them can be rolled back to.                                          *)
THEOREM RetainedIsOnDiskHolds ==
    ASSUME Exclusive, IdentitiesGoTogether, RollbacksAreNotRetried
    PROVE  Spec => []RetainedIsOnDisk
  <1>1. ASSUME IInv  PROVE RetainedIsOnDisk
    <2>1. history # Torn => ToSet(history) = Members(history)
      BY <1>1 DEF IInv, Types, ToSet, Members
    <2> QED  BY <1>1, <2>1 DEF IInv, Whole, IsWhole, RetainedIsOnDisk
  <1> QED  BY <1>1, IInvHolds, PTL

(* After the sweep of an activation the releases on disk are those of the  *)
(* retained history, the active one first: sweepRetiredGenerations leaves  *)
(* nothing else and takes nothing of it.                                   *)
THEOREM SweepLeavesRetainedHolds ==
    ASSUME Exclusive, IdentitiesGoTogether, RollbacksAreNotRetried
    PROVE  Spec => []SweepLeavesRetained
  <1>1. ASSUME IInv  PROVE SweepLeavesRetained
    <2> SUFFICES ASSUME NEW r \in Runs, pc[r] = "sweeping", doomed[r] = {}
                 PROVE  /\ ToSet(history) = {g \in Generations : releases[g] # "absent"}
                        /\ Head(history) = current
      BY DEF SweepLeavesRetained
    <2>1. /\ history # Torn /\ history # <<>> /\ history[1] = current
          /\ {g \in Generations : releases[g] # "absent"} = Members(history)
      BY <1>1 DEF IInv, Phases
    <2>2. history \in Seq(Generations)
      BY <1>1, <2>1 DEF IInv, Types
    <2>3. ToSet(history) = Members(history) /\ Head(history) = history[1]
      BY <2>1, <2>2 DEF ToSet, Members
    <2> QED  BY <2>1, <2>3
  <1> QED  BY <1>1, IInvHolds, PTL

\* The content that is served changes with the pointer only: what is removed is not
\* served, and what is promoted was not there.
LEMMA StepIsAtomic ==
    ASSUME IInv, IInv', NEW r \in Runs,
           Step(r) \/ Crash(r) \/ CleanUpAfterCrash(r),
           ServedContent' # ServedContent
    PROVE  current' # current /\ ServedContent' \in Artifacts
  <1>1. current' # current => current' = GenerationOf[r]
    BY DEF Step, Inspect, StartRollback, CopyTarget, Stage, WriteStage, ReadJournal, Truncate,
           WriteFile, Activate, Promote, Swap, Certify, ListReleases, RemoveTree, Swept, Observe,
           CleanStage, Recover, Crash, CleanUpAfterCrash, disk
  <1>2. current' # current => ServedContent' \in Artifacts
    BY <1>1, LocalDirectoryAssumption, FenceAssumption DEF IInv, Whole, IsWhole, ServedContent
  <1>3. CASE current' = current
    <2>1. current # Nothing /\ releases'[current] # releases[current]
      BY <1>3 DEF ServedContent
    <2>2. current \in Generations /\ releases[current] \in Artifacts
      BY <2>1 DEF IInv, Types, Served, Whole, IsWhole
    <2>3. CASE RemoveTree(r)
      <3>1. current \notin doomed[r]
        BY <2>3 DEF RemoveTree, IInv, Phases
      <3>2. PICK g \in doomed[r] : releases' \in {Set(releases, g, "partial"), Set(releases, g, "absent")}
        BY <2>3 DEF RemoveTree
      <3> QED  BY <2>1, <2>2, <3>1, <3>2 DEF Set, IInv, Types
    <2>4. CASE Promote(r)
      <3>1. UNCHANGED releases \/ /\ releases[GenerationOf[r]] = "absent"
                                  /\ releases' = Set(releases, GenerationOf[r], stages[TokenOf[r]])
        BY <2>4 DEF Promote
      <3>2. current # GenerationOf[r] \/ UNCHANGED releases
        BY <2>2, <3>1, LocalDirectoryAssumption
      <3> QED  BY <2>1, <2>2, <3>1, <3>2 DEF Set, IInv, Types
    <2>5. CASE ~RemoveTree(r) /\ ~Promote(r)
      <3>1. UNCHANGED releases
        BY <2>5 DEF Step, Inspect, StartRollback, CopyTarget, Stage, WriteStage, ReadJournal,
                    Truncate, WriteFile, Activate, Swap, Certify, ListReleases, Swept, Observe,
                    CleanStage, Recover, Crash, CleanUpAfterCrash, disk
      <3> QED  BY <2>1, <3>1
    <2> QED  BY <2>3, <2>4, <2>5
  <1> QED  BY <1>2, <1>3

(* Readers never see a change other than the swap of the pointer to a      *)
(* whole generation (atomicSymlinkSwap).                                   *)
THEOREM ActivationIsAtomicHolds ==
    ASSUME Exclusive, IdentitiesGoTogether, RollbacksAreNotRetried
    PROVE  Spec => ActivationIsAtomic
  <1> DEFINE Atomic == ServedContent' # ServedContent =>
                           current' # current /\ ServedContent' \in Artifacts
  <1>1. ASSUME IInv, IInv', [Next]_vars  PROVE [Atomic]_vars
    <2>1. CASE Next
      BY <1>1, <2>1, StepIsAtomic DEF Next
    <2> QED  BY <1>1, <2>1
  <1> QED  BY <1>1, IInvHolds, PTL DEF Spec, ActivationIsAtomic
=============================================================================
