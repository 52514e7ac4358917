------------------------ MODULE ReviewPipelineProofs ------------------------
(***************************************************************************)
(* Proofs of the safety properties of ReviewPipeline, for any discoveries, *)
(* pages, sources and numbers of sessions.  IInv adds to the properties    *)
(* what they rest on: a duplicate points to an earlier report, a completed *)
(* link run has left a mark, no two runs hold one lock, and what a run or  *)
(* the sweep has read stays true because no row is ever deleted.           *)
(***************************************************************************)
EXTENDS ReviewPipeline, FiniteSetTheorems, SequenceTheorems, TLAPS

\* d is an earlier report of the award that e reports.
EarlierReport(d, e) ==
    d \in Discoveries /\ Present(d) /\ Title[d] = Title[e] /\ d < e

\* What a run of link_discovery knows is true, and stays true.
RunOK(l) ==
    LET r == linker[l] IN
    /\ r.at = "idle" => r.disc = None
    /\ r.at # "idle" => r.disc \in Discoveries /\ Present(r.disc)
    /\ r.original # None => EarlierReport(r.original, r.disc)
    /\ r.found \subseteq Existing

\* The same of a candidate of the sweep.
CandidateOK(w) ==
    LET c == sweep[w] IN
    /\ c.at # "idle" => /\ c.disc \in Discoveries /\ Present(c.disc)
                        /\ c.task \in DOMAIN tasks[c.disc]
    /\ c.at = "fetching" => Corroborated(c.disc)
    /\ c.at = "publishing" => c.created \in Existing

\* The award behind a scholarship the sweep made is still corroborated.
AutoOK(s) ==
    s \in Existing /\ scholarship[s].auto =>
        Present(scholarship[s].from) /\ Corroborated(scholarship[s].from)

DuplicatesPointBack ==
    \A d \in Discoveries :
        disc[d].duplicateOf # None => EarlierReport(disc[d].duplicateOf, d)

\* A completed link run has left its mark on the discovery.
LinkedLeavesMark ==
    \A d \in Discoveries :
        linked[d] > 0 => Present(d) /\ (Seen(d) \/ disc[d].duplicateOf # None)

\* A task belongs to a row.
TasksHaveRows == \A d \in Discoveries : tasks[d] # << >> => Present(d)

LocksExclude ==
    \A l, m \in Linkers :
        linker[l].disc = linker[m].disc => l = m \/ linker[l].disc = None

IInv == /\ TypeOK
        /\ StateIsBacked
        /\ DuplicatesPointBack
        /\ LinkedLeavesMark
        /\ TasksHaveRows
        /\ LocksExclude
        /\ \A l \in Linkers : RunOK(l)
        /\ \A w \in Sweepers : CandidateOK(w)
        /\ \A s \in ScholarshipIds : AutoOK(s)

-----------------------------------------------------------------------------
(* Lemmas about the operators *)

\* A finite set of numbers that is not empty has a smallest member.
LEMMA LeastElement ==
    ASSUME NEW S, S \subseteq Nat, IsFiniteSet(S), S # {}
    PROVE  \E m \in S : \A k \in S : m <= k
<1> DEFINE UpTo(x) == {k \in S : k <= x}
           F == {UpTo(x) : x \in S}
<1>1. IsWellFoundedOn(StrictSubsetOrdering(S), SUBSET S)
  BY FS_StrictSubsetOrderingWellFounded, FS_FiniteSubsetsOfFinite
<1>2. F \subseteq SUBSET S /\ F # {}
  OBVIOUS
<1>3. PICK T \in F : \A U \in F : <<U, T>> \notin StrictSubsetOrdering(S)
  <2> HIDE DEF F
  <2> QED BY <1>1, <1>2, WFMin
<1>4. PICK m \in S : T = UpTo(m)
  BY <1>3
<1>5. ASSUME NEW k \in S, k < m PROVE FALSE
  <2>1. UpTo(k) \in F /\ UpTo(k) \subseteq S /\ T \subseteq S
    BY <1>4
  <2>2. ASSUME NEW j \in UpTo(k) PROVE j \in T
    <3>1. j \in S /\ j \in Int /\ k \in Int /\ m \in Int /\ j <= k
      OBVIOUS
    <3>2. j <= m
      BY <3>1, <1>5
    <3> QED BY <3>1, <3>2, <1>4
  <2>3. m \in T /\ m \notin UpTo(k)
    BY <1>4, <1>5
  <2>4. <<UpTo(k), T>> \in StrictSubsetOrdering(S)
    BY <2>1, <2>2, <2>3 DEF StrictSubsetOrdering
  <2> QED BY <2>1, <2>4, <1>3
<1> QED BY <1>5

\* Smallest picks a member of a finite, nonempty set of discoveries.
LEMMA SmallestIsMember ==
    ASSUME NEW S, S \subseteq Discoveries, S # {}
    PROVE  Smallest(S) \in S
<1>1. IsFiniteSet(S) /\ S \subseteq Nat
  BY ReviewPipelineAssumption, FS_Subset
<1>2. \E m \in S : \A k \in S : m <= k
  BY <1>1, LeastElement
<1>3. QED BY <1>2 DEF Smallest

\* The original a run finds is an earlier report.
LEMMA OriginalIsEarlier ==
    ASSUME NEW d \in Discoveries, Smallest(Originals(d)) # None
    PROVE  EarlierReport(Smallest(Originals(d)), d)
<1>1. Originals(d) # {}
  BY DEF Smallest
<1>2. Originals(d) \subseteq Discoveries
  BY DEF Originals, ReportsOf
<1>3. Smallest(Originals(d)) \in Originals(d)
  BY <1>1, <1>2, SmallestIsMember
<1>4. QED BY <1>3 DEF Originals, ReportsOf, EarlierReport

\* Opening a task leaves the tasks there are and adds at most one.
LEMMA OpenedTasks ==
    ASSUME TypeOK, NEW d \in Discoveries
    PROVE  /\ Opened(d) \in [Discoveries -> Seq(Task)]
           /\ Opened(d)[d] # << >>
           /\ \A e \in Discoveries : e # d => Opened(d)[e] = tasks[e]
           /\ \A e \in Discoveries : /\ DOMAIN tasks[e] \subseteq DOMAIN Opened(d)[e]
                                     /\ tasks[e] # << >> => Opened(d)[e] # << >>
<1> DEFINE new == [state |-> "open", draft |-> "queued"]
<1>1. tasks \in [Discoveries -> Seq(Task)] /\ new \in Task
  BY DEF TypeOK, Task
<1>2. CASE HasOpenTask(d)
  <2>1. Opened(d) = tasks
    BY <1>2 DEF Opened
  <2>2. tasks[d] # << >>
    BY <1>2 DEF HasOpenTask, IsOpen
  <2> QED BY <1>1, <2>1, <2>2
<1>3. CASE ~HasOpenTask(d)
  <2>1. Opened(d) = [tasks EXCEPT ![d] = Append(tasks[d], new)]
    BY <1>3 DEF Opened
  <2>2. /\ Append(tasks[d], new) \in Seq(Task)
        /\ Len(Append(tasks[d], new)) = Len(tasks[d]) + 1
        /\ Append(tasks[d], new) # << >>
    BY <1>1
  <2>3. DOMAIN tasks[d] \subseteq DOMAIN Append(tasks[d], new)
    BY <1>1, <2>2
  <2> HIDE DEF new
  <2> QED BY <1>1, <2>1, <2>2, <2>3
<1>4. QED BY <1>2, <1>3

\* Resolving a task changes no number of tasks.
LEMMA ResolvedTasks ==
    ASSUME TypeOK, NEW d \in Discoveries, NEW n \in DOMAIN tasks[d]
    PROVE  /\ ResolvedAs(d, n, "resolved") \in [Discoveries -> Seq(Task)]
           /\ \A e \in Discoveries : e # d => ResolvedAs(d, n, "resolved")[e] = tasks[e]
           /\ \A e \in Discoveries :
                 /\ DOMAIN ResolvedAs(d, n, "resolved")[e] = DOMAIN tasks[e]
                 /\ tasks[e] # << >> => ResolvedAs(d, n, "resolved")[e] # << >>
<1> DEFINE new == [tasks[d][n] EXCEPT !.state = "resolved"]
           seq == [tasks[d] EXCEPT ![n] = new]
<1>1. tasks \in [Discoveries -> Seq(Task)] /\ tasks[d] \in Seq(Task)
  BY DEF TypeOK
<1>2. n \in 1..Len(tasks[d]) /\ tasks[d][n] \in Task
  BY <1>1
<1>3. new \in Task
  BY <1>2 DEF Task
<1>4. seq \in Seq(Task) /\ Len(seq) = Len(tasks[d])
  BY <1>1, <1>2, <1>3, ExceptSeq
<1>5. ResolvedAs(d, n, "resolved") = [tasks EXCEPT ![d] = seq]
  BY <1>1 DEF ResolvedAs
<1> HIDE DEF seq
<1>6. DOMAIN seq = DOMAIN tasks[d] /\ (tasks[d] # << >> => seq # << >>)
  BY <1>1, <1>4
<1>7. QED BY <1>1, <1>4, <1>5, <1>6

-----------------------------------------------------------------------------
(* What every step keeps *)

NoTaskLost ==
    \A d \in Discoveries : /\ DOMAIN tasks[d] \subseteq DOMAIN tasks'[d]
                           /\ tasks[d] # << >> => tasks'[d] # << >>

\* No row is ever deleted.
Kept ==
    /\ \A d \in Discoveries : Present(d) => Present(d)'
    /\ Existing \subseteq Existing'
    /\ NoTaskLost

LEMMA SameTasks == ASSUME tasks' = tasks PROVE NoTaskLost
BY DEF NoTaskLost

LEMMA TasksStayBacked ==
    ASSUME IInv, Kept, tasks' = tasks
    PROVE  TasksHaveRows'
BY DEF IInv, TasksHaveRows, Kept

\* Corroboration is never lost: more reports can only add sources.
LEMMA CorroborationStays ==
    ASSUME TypeOK, Kept, NEW d \in Discoveries, Corroborated(d)
    PROVE  Corroborated(d)'
<1> DEFINE old == ReportsOf(d) \ SplitChildren
           new == ReportsOf(d)' \ SplitChildren
           S == {Source[e] : e \in old}
           T == {Source[e] : e \in new}
<1>1. old \subseteq new /\ new \subseteq Discoveries
  BY DEF Kept, ReportsOf
<1>2. IsFiniteSet(new)
  BY <1>1, FS_Subset, ReviewPipelineAssumption
<1>3. IsFiniteSet(T) /\ S \subseteq T
  <2>1. S \subseteq T
    BY <1>1
  <2>2. [e \in new |-> Source[e]] \in Surjection(new, T)
    BY DEF Surjection
  <2>3. IsFiniteSet(T)
    BY <1>2, <2>2, FS_Surjection
  <2> QED BY <2>1, <2>3
<1>4. SourcesOf(d) = {Source[d]} \cup S /\ SourcesOf(d)' = {Source[d]} \cup T
  BY DEF SourcesOf
<1> HIDE DEF S, T
<1>5. IsFiniteSet(SourcesOf(d)') /\ SourcesOf(d) \subseteq SourcesOf(d)'
  BY <1>3, <1>4, FS_AddElement
<1>6. /\ IsFiniteSet(SourcesOf(d))
      /\ Cardinality(SourcesOf(d)) <= Cardinality(SourcesOf(d)')
  BY <1>5, FS_Subset
<1>7. Cardinality(SourcesOf(d)) \in Nat /\ Cardinality(SourcesOf(d)') \in Nat
  BY <1>5, <1>6, FS_CardinalityType
<1>8. Cardinality(SourcesOf(d)) >= MinSources
  BY DEF Corroborated
<1>9. Cardinality(SourcesOf(d)') >= MinSources
  BY <1>6, <1>7, <1>8, ReviewPipelineAssumption
<1>10. QED BY <1>9 DEF Corroborated

LEMMA RunsStayTrue ==
    ASSUME IInv, Kept, NEW l \in Linkers, linker'[l] = linker[l]
    PROVE  RunOK(l)'
<1>1. RunOK(l) /\ linker[l] \in Run
  BY DEF IInv, TypeOK
<1>2. QED BY <1>1 DEF RunOK, EarlierReport, Kept, Run

LEMMA CandidatesStayTrue ==
    ASSUME IInv, Kept, NEW w \in Sweepers, sweep'[w] = sweep[w]
    PROVE  CandidateOK(w)'
<1>1. CandidateOK(w) /\ TypeOK
  BY DEF IInv
<1>2. sweep[w].at = "fetching" => Corroborated(sweep[w].disc)'
  BY <1>1, CorroborationStays DEF CandidateOK
<1>3. QED BY <1>1, <1>2 DEF CandidateOK, Kept, NoTaskLost, Corroborated, SourcesOf, ReportsOf

\* A scholarship whose title, origin and flag a step leaves alone.
LEMMA AutoStays ==
    ASSUME IInv, Kept, NEW s \in ScholarshipIds, s \in Existing,
           scholarship'[s].from = scholarship[s].from,
           scholarship'[s].auto = scholarship[s].auto
    PROVE  AutoOK(s)'
<1> SUFFICES ASSUME scholarship'[s].auto PROVE /\ Present(scholarship[s].from)'
                                              /\ Corroborated(scholarship[s].from)'
  BY DEF AutoOK, Present, Corroborated, SourcesOf, ReportsOf
<1>1. TypeOK /\ AutoOK(s)
  BY DEF IInv
<1>2. scholarship[s].from \in Discoveries
  BY <1>1 DEF TypeOK, Scholarship, Existing
<1>3. Present(scholarship[s].from) /\ Corroborated(scholarship[s].from)
  BY <1>1 DEF AutoOK
<1>4. QED BY <1>1, <1>2, <1>3, CorroborationStays DEF Kept

LEMMA AllAutoStay ==
    ASSUME IInv, Kept, scholarship' = scholarship
    PROVE  \A s \in ScholarshipIds : AutoOK(s)'
<1> TAKE s \in ScholarshipIds
<1>1. CASE s \in Existing
  BY <1>1, AutoStays
<1>2. CASE s \notin Existing
  BY <1>2 DEF AutoOK, Existing
<1>3. QED BY <1>1, <1>2

\* Steps that leave the discoveries' rows alone, or only their evaluation
\* marks, need to show no more than this.
LEMMA RowsStayBacked ==
    ASSUME IInv, Kept,
           \A d \in Discoveries : /\ disc'[d].state = disc[d].state
                                  /\ disc'[d].duplicateOf = disc[d].duplicateOf
                                  /\ disc'[d].canonical = disc[d].canonical
    PROVE  StateIsBacked' /\ DuplicatesPointBack' /\ (linked' = linked => LinkedLeavesMark')
<1>1. StateIsBacked'
  BY DEF IInv, StateIsBacked, Kept, NoTaskLost
<1>2. DuplicatesPointBack'
  BY DEF IInv, DuplicatesPointBack, EarlierReport, Present
<1>3. ASSUME linked' = linked PROVE LinkedLeavesMark'
  BY <1>3 DEF IInv, LinkedLeavesMark, Seen, Kept, NoTaskLost
<1>4. QED BY <1>1, <1>2, <1>3

-----------------------------------------------------------------------------
(* The invariant, action by action *)

LEMMA InitEstablishes == Init => IInv
<1> SUFFICES ASSUME Init PROVE IInv
  OBVIOUS
<1> USE DEF Init
<1>1. TypeOK
  <2>1. IdleLinker \in Run /\ IdleSweep \in Candidate /\ Absent \in Discovery
    BY DEF IdleLinker, Run, IdleSweep, Candidate, Absent, Discovery,
           ProcessingState, None
  <2>2. << >> \in Seq(Task)
    OBVIOUS
  <2>3. 0 \in Nat /\ 0 \in 0..MaxCrashes
    BY ReviewPipelineAssumption
  <2> QED BY <2>1, <2>2, <2>3 DEF TypeOK
<1>2. StateIsBacked /\ DuplicatesPointBack
  BY DEF StateIsBacked, DuplicatesPointBack, Absent, None
<1>3. LinkedLeavesMark /\ LocksExclude /\ TasksHaveRows
  BY DEF LinkedLeavesMark, LocksExclude, IdleLinker, TasksHaveRows
<1>4. ASSUME NEW l \in Linkers PROVE RunOK(l)
  BY DEF RunOK, IdleLinker, None
<1>5. ASSUME NEW w \in Sweepers PROVE CandidateOK(w)
  BY DEF CandidateOK, IdleSweep
<1>6. \A s \in ScholarshipIds : AutoOK(s)
  BY DEF AutoOK, Existing
<1>7. QED BY <1>1, <1>2, <1>3, <1>4, <1>5, <1>6 DEF IInv

LEMMA ArriveKeeps ==
    ASSUME IInv, NEW batch \in SUBSET Discoveries, Arrive(batch)
    PROVE  IInv'
<1> DEFINE new == [Absent EXCEPT !.state = "normalized"]
<1>1. new \in Discovery /\ new.state = "normalized" /\ new.duplicateOf = None
  BY DEF Absent, Discovery, ProcessingState, None
<1>2. /\ disc' = [d \in Discoveries |-> IF d \in batch THEN new ELSE disc[d]]
      /\ UNCHANGED <<tasks, scholarship, linker, linked, sweep, crashes>>
      /\ \A d \in batch : ~Present(d)
  BY DEF Arrive
<1> HIDE DEF new
<1>3. TypeOK'
  BY <1>1, <1>2 DEF IInv, TypeOK
<1>4. Kept
  BY <1>1, <1>2, SameTasks DEF Kept, Present, Existing
<1>5. StateIsBacked'
  BY <1>1, <1>2 DEF IInv, StateIsBacked, Existing
<1>6. DuplicatesPointBack'
  BY <1>1, <1>2, <1>4 DEF IInv, DuplicatesPointBack, EarlierReport, Kept
<1>7. LinkedLeavesMark'
  BY <1>1, <1>2, <1>4 DEF IInv, LinkedLeavesMark, Seen, Kept
<1>8. LocksExclude'
  BY <1>2 DEF IInv, LocksExclude
<1>9. QED
  BY <1>2, <1>3, <1>4, <1>5, <1>6, <1>7, <1>8, RunsStayTrue, CandidatesStayTrue,
     AllAutoStay, TasksStayBacked
  DEF IInv

LEMMA NormalizeKeeps ==
    ASSUME IInv, NEW d \in Discoveries, NormalizeDiscovery(d)
    PROVE  IInv'
<1>1. /\ Present(d)
      /\ disc' = [disc EXCEPT ![d].state = "normalized"]
      /\ UNCHANGED <<tasks, scholarship, linker, linked, sweep, crashes>>
  BY DEF NormalizeDiscovery
<1>2. \A e \in Discoveries :
         /\ disc'[e].duplicateOf = disc[e].duplicateOf
         /\ disc'[e].canonical = disc[e].canonical
         /\ disc'[e].state = IF e = d THEN "normalized" ELSE disc[e].state
  BY <1>1 DEF IInv, TypeOK, Discovery
<1>3. TypeOK'
  BY <1>1 DEF IInv, TypeOK, Discovery, ProcessingState
<1>4. Kept
  BY <1>1, <1>2, SameTasks DEF Kept, Present, Existing
<1>5. StateIsBacked'
  BY <1>1, <1>2 DEF IInv, StateIsBacked, Existing
<1>6. DuplicatesPointBack'
  BY <1>2, <1>4 DEF IInv, DuplicatesPointBack, EarlierReport, Kept
<1>7. LinkedLeavesMark'
  BY <1>1, <1>2, <1>4 DEF IInv, LinkedLeavesMark, Seen, Kept
<1>8. LocksExclude'
  BY <1>1 DEF IInv, LocksExclude
<1>9. QED
  BY <1>1, <1>3, <1>4, <1>5, <1>6, <1>7, <1>8, RunsStayTrue, CandidatesStayTrue,
     AllAutoStay, TasksStayBacked
  DEF IInv

\* The steps that change the tasks and nothing else.
LEMMA TasksOnlyKeeps ==
    ASSUME IInv, tasks' \in [Discoveries -> Seq(Task)],
           UNCHANGED <<disc, scholarship, linker, linked, sweep, crashes>>,
           NoTaskLost, \A e \in Discoveries : tasks'[e] # << >> => Present(e)
    PROVE  IInv'
<1>1. TypeOK'
  BY DEF IInv, TypeOK
<1>2. Kept
  <2>1. Existing' = Existing /\ \A d \in Discoveries : Present(d)' = Present(d)
    BY DEF Present, Existing
  <2> QED BY <2>1 DEF Kept
<1>3. LocksExclude'
  BY DEF IInv, LocksExclude
<1>4. QED BY <1>1, <1>2, <1>3, RowsStayBacked, RunsStayTrue, CandidatesStayTrue,
        AllAutoStay DEF IInv, TasksHaveRows, Present

LEMMA RequestKeeps ==
    ASSUME IInv, NEW d \in Discoveries, RequestReview(d)
    PROVE  IInv'
<1>1. tasks' = Opened(d) /\ UNCHANGED <<disc, scholarship, linker, linked, sweep, crashes>>
  BY DEF RequestReview
<1>2. tasks' \in [Discoveries -> Seq(Task)] /\ NoTaskLost
  BY <1>1, OpenedTasks DEF IInv, NoTaskLost
<1>3. \A e \in Discoveries : tasks'[e] # << >> => Present(e)
  BY <1>1, OpenedTasks DEF IInv, TasksHaveRows, RequestReview
<1>4. QED BY <1>1, <1>2, <1>3, TasksOnlyKeeps

LEMMA PrepareKeeps ==
    ASSUME IInv, NEW d \in Discoveries, PrepareReview(d)
    PROVE  IInv'
<1>1. UNCHANGED <<disc, scholarship, linker, linked, sweep, crashes>>
  BY DEF PrepareReview
<1>2. PICK n \in DOMAIN tasks[d] : tasks' = [tasks EXCEPT ![d][n].draft = "ready"]
  BY DEF PrepareReview
<1> DEFINE new == [tasks[d][n] EXCEPT !.draft = "ready"]
           seq == [tasks[d] EXCEPT ![n] = new]
<1>3. tasks \in [Discoveries -> Seq(Task)] /\ tasks[d] \in Seq(Task)
  BY DEF IInv, TypeOK
<1>4. n \in 1..Len(tasks[d]) /\ tasks[d][n] \in Task
  BY <1>3
<1>5. new \in Task
  BY <1>4 DEF Task
<1>6. seq \in Seq(Task) /\ Len(seq) = Len(tasks[d])
  BY <1>3, <1>4, <1>5, ExceptSeq
<1>7. tasks' = [tasks EXCEPT ![d] = seq]
  BY <1>2, <1>3
<1> HIDE DEF seq
<1>8. DOMAIN seq = DOMAIN tasks[d] /\ (tasks[d] # << >> => seq # << >>)
  BY <1>3, <1>6
<1>9. tasks' \in [Discoveries -> Seq(Task)] /\ NoTaskLost
  BY <1>3, <1>6, <1>7, <1>8 DEF NoTaskLost
<1>10. tasks[d] # << >>
  BY <1>3, <1>4
<1>11. \A e \in Discoveries : tasks'[e] # << >> => Present(e)
  BY <1>3, <1>7, <1>10 DEF IInv, TasksHaveRows
<1>12. QED BY <1>1, <1>9, <1>11, TasksOnlyKeeps

LEMMA RejectKeeps ==
    ASSUME IInv, NEW d \in Discoveries, NEW n \in DOMAIN tasks[d], Reject(d, n)
    PROVE  IInv'
<1>1. /\ tasks' = ResolvedAs(d, n, "resolved")
      /\ UNCHANGED <<disc, scholarship, linker, linked, sweep, crashes>>
  BY DEF Reject
<1>2. TypeOK
  BY DEF IInv
<1>3. tasks' \in [Discoveries -> Seq(Task)] /\ NoTaskLost
  BY <1>1, <1>2, ResolvedTasks DEF NoTaskLost
<1>4. tasks[d] # << >>
  BY <1>2 DEF TypeOK
<1>5. \A e \in Discoveries : tasks'[e] # << >> => Present(e)
  BY <1>1, <1>2, <1>4, ResolvedTasks DEF IInv, TasksHaveRows
<1>6. QED BY <1>1, <1>3, <1>5, TasksOnlyKeeps

\* A run of link_discovery starts, goes on or is cut short: only what it
\* knows changes.
LEMMA LinkerOnlyKeeps ==
    ASSUME IInv, NEW l \in Linkers, NEW r \in Run,
           linker' = [linker EXCEPT ![l] = r],
           r.at = "idle" => r.disc = None,
           r.at # "idle" => r.disc \in Discoveries /\ Present(r.disc),
           r.original # None => EarlierReport(r.original, r.disc),
           r.found \subseteq Existing,
           r.disc # None => \A m \in Linkers : m # l => linker[m].disc # r.disc,
           UNCHANGED <<disc, tasks, scholarship, linked, sweep>>,
           crashes' \in 0..MaxCrashes
    PROVE  IInv'
<1>1. linker \in [Linkers -> Run]
  BY DEF IInv, TypeOK
<1>2. linker'[l] = r /\ \A m \in Linkers : m # l => linker'[m] = linker[m]
  BY <1>1
<1>3. TypeOK'
  BY <1>1 DEF IInv, TypeOK
<1>4. /\ Existing' = Existing
      /\ \A d \in Discoveries : Present(d)' = Present(d)
  BY DEF Existing, Present
<1>5. Kept
  BY <1>4, SameTasks DEF Kept
<1>6. LocksExclude'
  BY <1>2 DEF IInv, LocksExclude
<1>7. ASSUME NEW m \in Linkers PROVE RunOK(m)'
  <2>1. CASE m = l
    BY <2>1, <1>2, <1>4 DEF RunOK, EarlierReport
  <2>2. CASE m # l
    BY <2>2, <1>2, <1>5, RunsStayTrue
  <2> QED BY <2>1, <2>2
<1>8. QED BY <1>3, <1>5, <1>6, <1>7, RowsStayBacked, CandidatesStayTrue,
        AllAutoStay, TasksStayBacked DEF IInv

LEMMA StartKeeps ==
    ASSUME IInv, NEW l \in Linkers, NEW d \in Discoveries, StartLink(l, d)
    PROVE  IInv'
<1> DEFINE r == [IdleLinker EXCEPT !.at = "looking", !.disc = d,
                                   !.original = Smallest(Originals(d))]
<1>1. /\ Present(d) /\ Unlocked(d)
      /\ linker' = [linker EXCEPT ![l] = r]
      /\ UNCHANGED <<disc, tasks, scholarship, linked, sweep, crashes>>
  BY DEF StartLink
<1>2. /\ r.at = "looking" /\ r.disc = d /\ r.found = {}
      /\ r.original = Smallest(Originals(d))
  BY DEF IdleLinker
<1>3. Smallest(Originals(d)) \in Discoveries \cup {None}
  BY OriginalIsEarlier DEF EarlierReport
<1>4. r \in Run
  BY <1>3 DEF IdleLinker, Run
<1> HIDE DEF r
<1>5. crashes' \in 0..MaxCrashes
  BY <1>1 DEF IInv, TypeOK
<1>6. \A m \in Linkers : linker[m].disc # d
  BY <1>1 DEF Unlocked
<1>7. r.original # None => EarlierReport(r.original, r.disc)
  BY <1>2, OriginalIsEarlier
<1>8. QED BY <1>1, <1>2, <1>4, <1>5, <1>6, <1>7, LinkerOnlyKeeps

LEMMA FindKeeps ==
    ASSUME IInv, NEW l \in Linkers, FindScholarships(l)
    PROVE  IInv'
<1> DEFINE named == {s \in Existing : scholarship[s].title = Title[linker[l].disc]}
           r == [linker[l] EXCEPT !.at = "deciding", !.found = named]
<1>1. linker[l] \in Run /\ linker \in [Linkers -> Run] /\ RunOK(l) /\ LocksExclude
  BY DEF IInv, TypeOK
<1>2. /\ linker[l].at = "looking"
      /\ linker' = [linker EXCEPT ![l].at = "deciding", ![l].found = named]
      /\ UNCHANGED <<disc, tasks, scholarship, linked, sweep, crashes>>
  BY DEF FindScholarships
<1>3. linker' = [linker EXCEPT ![l] = r]
  BY <1>1, <1>2
<1>4. named \subseteq Existing /\ Existing \subseteq ScholarshipIds
  BY DEF Existing
<1> HIDE DEF named
<1>5. /\ r \in Run /\ r.at = "deciding" /\ r.disc = linker[l].disc
      /\ r.original = linker[l].original /\ r.found = named
  BY <1>1, <1>4 DEF Run
<1> HIDE DEF r
<1>6. /\ r.disc \in Discoveries /\ Present(r.disc)
      /\ r.original # None => EarlierReport(r.original, r.disc)
  BY <1>1, <1>2, <1>5 DEF RunOK
<1>7. \A m \in Linkers : m # l => linker[m].disc # r.disc
  BY <1>1, <1>5, <1>6, ReviewPipelineAssumption DEF LocksExclude, None
<1>8. crashes' \in 0..MaxCrashes
  BY <1>2 DEF IInv, TypeOK
<1>9. QED BY <1>2, <1>3, <1>4, <1>5, <1>6, <1>7, <1>8, LinkerOnlyKeeps

LEMMA IdleRun ==
    /\ IdleLinker \in Run /\ IdleLinker.at = "idle" /\ IdleLinker.disc = None
    /\ IdleLinker.original = None /\ IdleLinker.found = {}
BY DEF IdleLinker, Run, None

LEMMA CrashKeeps ==
    ASSUME IInv, NEW l \in Linkers, LinkCrash(l)
    PROVE  IInv'
<1>1. crashes \in 0..MaxCrashes
  BY DEF IInv, TypeOK
<1>2. crashes' \in 0..MaxCrashes
  BY <1>1, ReviewPipelineAssumption DEF LinkCrash
<1>3. QED BY <1>2, IdleRun, LinkerOnlyKeeps DEF LinkCrash

\* A row that a step writes for one discovery: it is backed, it points back,
\* and the discovery keeps a mark if its link job has completed.
RowOK(d, row) ==
    /\ row \in Discovery /\ row.state # "absent"
    /\ row.duplicateOf # None => EarlierReport(row.duplicateOf, d)
    /\ row.state = "linked" => row.canonical \in Existing'
    /\ row.state = "duplicate_pending" => row.duplicateOf # None
    /\ row.state \in {"new_candidate", "needs_review"} => tasks'[d] # << >>
    /\ row.canonical # None \/ tasks'[d] # << >> \/ row.duplicateOf # None

LEMMA RowWritten ==
    ASSUME IInv, NEW d \in Discoveries, NEW row, RowOK(d, row),
           disc' = [disc EXCEPT ![d] = row],
           NoTaskLost, Existing \subseteq Existing',
           \A e \in Discoveries :
              e # d => linked'[e] = linked[e] /\ tasks'[e] = tasks[e]
    PROVE  /\ disc' \in [Discoveries -> Discovery]
           /\ Kept
           /\ StateIsBacked' /\ DuplicatesPointBack' /\ LinkedLeavesMark'
           /\ TasksHaveRows'
<1>1. disc \in [Discoveries -> Discovery]
  BY DEF IInv, TypeOK
<1>2. disc'[d] = row /\ \A e \in Discoveries : e # d => disc'[e] = disc[e]
  BY <1>1
<1>3. disc' \in [Discoveries -> Discovery]
  BY <1>1 DEF RowOK
<1>4. Kept
  BY <1>2 DEF Kept, Present, RowOK
<1>5. StateIsBacked'
  <2>1. ASSUME NEW e \in Discoveries
        PROVE  /\ disc'[e].state = "linked" => disc'[e].canonical \in Existing'
               /\ disc'[e].state = "duplicate_pending" => disc'[e].duplicateOf # None
               /\ disc'[e].state \in {"new_candidate", "needs_review"} =>
                      tasks'[e] # << >>
    <3>1. CASE e = d
      BY <3>1, <1>2 DEF RowOK
    <3>2. CASE e # d
      BY <3>2, <1>2 DEF IInv, StateIsBacked, NoTaskLost
    <3> QED BY <3>1, <3>2
  <2> QED BY <2>1 DEF StateIsBacked
<1>6. DuplicatesPointBack'
  <2>1. \A e, f \in Discoveries : EarlierReport(e, f) => EarlierReport(e, f)'
    BY <1>4 DEF EarlierReport, Kept
  <2>2. \A e \in Discoveries :
           disc'[e].duplicateOf # None => EarlierReport(disc'[e].duplicateOf, e)
    BY <1>2 DEF IInv, DuplicatesPointBack, RowOK
  <2>3. \A e \in Discoveries : disc'[e].duplicateOf \in Discoveries \cup {None}
    BY <1>3 DEF Discovery
  <2> QED BY <2>1, <2>2, <2>3 DEF DuplicatesPointBack
<1>7. LinkedLeavesMark'
  <2>1. ASSUME NEW e \in Discoveries, linked'[e] > 0
        PROVE  /\ disc'[e].state # "absent"
               /\ \/ disc'[e].canonical # None
                  \/ tasks'[e] # << >>
                  \/ disc'[e].duplicateOf # None
    <3>1. CASE e = d
      BY <3>1, <1>2 DEF RowOK
    <3>2. CASE e # d
      <4>1. linked[e] > 0 /\ disc'[e] = disc[e]
        BY <2>1, <3>2, <1>2
      <4>2. /\ disc[e].state # "absent"
            /\ disc[e].canonical # None \/ tasks[e] # << >> \/ disc[e].duplicateOf # None
        BY <4>1 DEF IInv, LinkedLeavesMark, Seen, Present
      <4> QED BY <4>1, <4>2 DEF NoTaskLost
    <3> QED BY <3>1, <3>2
  <2> QED BY <2>1 DEF LinkedLeavesMark, Seen, Present
<1>8. TasksHaveRows'
  BY <1>2 DEF IInv, TasksHaveRows, Present, RowOK
<1>9. QED BY <1>3, <1>4, <1>5, <1>6, <1>7, <1>8

\* A run that ends with a new row for its discovery.
LEMMA EndKeeps ==
    ASSUME IInv, NEW l \in Linkers, NEW d \in Discoveries, NEW row, RowOK(d, row),
           linker[l].disc = d, EndLink(l),
           disc' = [disc EXCEPT ![d] = row],
           tasks' \in [Discoveries -> Seq(Task)], NoTaskLost,
           \A e \in Discoveries : e # d => tasks'[e] = tasks[e]
    PROVE  IInv'
<1>1. /\ linker' = [linker EXCEPT ![l] = IdleLinker]
      /\ linked' = [linked EXCEPT ![d] = linked[d] + 1]
      /\ UNCHANGED <<scholarship, sweep, crashes>>
  BY DEF EndLink
<1>2. linker \in [Linkers -> Run] /\ linked \in [Discoveries -> Nat]
  BY DEF IInv, TypeOK
<1>3. /\ linked' \in [Discoveries -> Nat]
      /\ \A e \in Discoveries : e # d => linked'[e] = linked[e]
  BY <1>1, <1>2
<1>4. /\ linker'[l] = IdleLinker
      /\ \A m \in Linkers : m # l => linker'[m] = linker[m]
  BY <1>1, <1>2
<1>5. Existing \subseteq Existing'
  BY <1>1 DEF Existing
<1>6. /\ disc' \in [Discoveries -> Discovery]
      /\ Kept
      /\ StateIsBacked' /\ DuplicatesPointBack' /\ LinkedLeavesMark'
      /\ TasksHaveRows'
  BY <1>3, <1>5, RowWritten
<1>7. TypeOK'
  BY <1>1, <1>2, <1>3, <1>6, IdleRun DEF IInv, TypeOK
<1>8. LocksExclude'
  BY <1>4, IdleRun DEF IInv, LocksExclude
<1>9. ASSUME NEW m \in Linkers PROVE RunOK(m)'
  <2>1. CASE m = l
    BY <2>1, <1>4, IdleRun DEF RunOK
  <2>2. CASE m # l
    BY <2>2, <1>4, <1>6, RunsStayTrue
  <2> QED BY <2>1, <2>2
<1>10. \A w \in Sweepers : CandidateOK(w)'
  BY <1>1, <1>6, CandidatesStayTrue
<1>11. \A s \in ScholarshipIds : AutoOK(s)'
  BY <1>1, <1>6, AllAutoStay
<1>12. QED
  BY <1>6, <1>7, <1>8, <1>9, <1>10, <1>11 DEF IInv

LEMMA MarkDuplicateKeeps ==
    ASSUME IInv, NEW l \in Linkers, MarkDuplicate(l)
    PROVE  IInv'
<1> DEFINE d == linker[l].disc
           o == linker[l].original
           row == [disc[d] EXCEPT !.state = "duplicate_pending", !.duplicateOf = o]
<1>1. RunOK(l) /\ linker[l] \in Run /\ linker[l].at = "looking" /\ o # None
  BY DEF IInv, TypeOK, MarkDuplicate
<1>2. d \in Discoveries /\ o \in Discoveries /\ EarlierReport(o, d)
  BY <1>1 DEF RunOK, Run
<1>3. disc \in [Discoveries -> Discovery] /\ tasks \in [Discoveries -> Seq(Task)]
  BY DEF IInv, TypeOK
<1>4. disc[d] \in Discovery
  BY <1>2, <1>3
<1>5. /\ row \in Discovery /\ row.state = "duplicate_pending" /\ row.duplicateOf = o
  BY <1>2, <1>4 DEF Discovery, ProcessingState
<1>6. RowOK(d, row)
  BY <1>1, <1>2, <1>5 DEF RowOK
<1>7. disc' = [disc EXCEPT ![d] = row] /\ tasks' = tasks /\ EndLink(l)
  BY <1>3 DEF MarkDuplicate
<1> HIDE DEF row
<1>8. QED BY <1>2, <1>3, <1>6, <1>7, SameTasks, EndKeeps

LEMMA AttachKeeps ==
    ASSUME IInv, NEW l \in Linkers, AttachToScholarship(l)
    PROVE  IInv'
<1>1. RunOK(l) /\ linker[l] \in Run /\ linker[l].at = "deciding" /\ EndLink(l)
  BY DEF IInv, TypeOK, AttachToScholarship
<1>2. PICK s \in linker[l].found :
         disc' = [disc EXCEPT ![linker[l].disc].state = "linked",
                              ![linker[l].disc].canonical = s]
  BY DEF AttachToScholarship
<1> DEFINE d == linker[l].disc
           row == [disc[d] EXCEPT !.state = "linked", !.canonical = s]
<1>3. /\ d \in Discoveries /\ s \in Existing /\ Existing' = Existing
      /\ s \in ScholarshipIds \ {None}
  BY <1>1, <1>2, ReviewPipelineAssumption DEF RunOK, EndLink, Existing, None
<1>4. disc \in [Discoveries -> Discovery] /\ tasks \in [Discoveries -> Seq(Task)]
  BY DEF IInv, TypeOK
<1>5. disc[d] \in Discovery
  BY <1>3, <1>4
<1>6. /\ row \in Discovery /\ row.state = "linked" /\ row.canonical = s
      /\ row.duplicateOf = disc[d].duplicateOf
  BY <1>3, <1>5 DEF Discovery, ProcessingState
<1>7. disc[d].duplicateOf # None => EarlierReport(disc[d].duplicateOf, d)
  BY <1>3 DEF IInv, DuplicatesPointBack
<1>8. RowOK(d, row)
  BY <1>3, <1>6, <1>7 DEF RowOK
<1>9. disc' = [disc EXCEPT ![d] = row] /\ tasks' = tasks
  BY <1>2, <1>4 DEF AttachToScholarship
<1> HIDE DEF row
<1>10. QED BY <1>1, <1>3, <1>4, <1>8, <1>9, SameTasks, EndKeeps

LEMMA SendToReviewKeeps ==
    ASSUME IInv, NEW l \in Linkers, SendToReview(l)
    PROVE  IInv'
<1> DEFINE d == linker[l].disc
           st == IF linker[l].found = {} THEN "new_candidate" ELSE "needs_review"
           row == [disc[d] EXCEPT !.state = st]
<1>1. RunOK(l) /\ linker[l].at = "deciding" /\ EndLink(l) /\ tasks' = Opened(d)
  BY DEF IInv, SendToReview
<1>2. d \in Discoveries
  BY <1>1 DEF RunOK
<1>3. disc \in [Discoveries -> Discovery] /\ TypeOK
  BY DEF IInv, TypeOK
<1>4. disc[d] \in Discovery
  BY <1>2, <1>3
<1>5. st \in {"new_candidate", "needs_review"}
  OBVIOUS
<1>6. disc' = [disc EXCEPT ![d] = row]
  BY <1>3 DEF SendToReview
<1> HIDE DEF st
<1>7. /\ row \in Discovery /\ row.state = st
      /\ row.duplicateOf = disc[d].duplicateOf
  BY <1>4, <1>5 DEF Discovery, ProcessingState
<1>8. disc[d].duplicateOf # None => EarlierReport(disc[d].duplicateOf, d)
  BY <1>2 DEF IInv, DuplicatesPointBack
<1>9. /\ tasks' \in [Discoveries -> Seq(Task)] /\ NoTaskLost /\ tasks'[d] # << >>
      /\ \A e \in Discoveries : e # d => tasks'[e] = tasks[e]
  BY <1>1, <1>2, <1>3, OpenedTasks DEF NoTaskLost
<1>10. RowOK(d, row)
  BY <1>5, <1>7, <1>8, <1>9 DEF RowOK
<1> HIDE DEF row
<1>11. QED BY <1>1, <1>2, <1>6, <1>9, <1>10, EndKeeps

\* The writes of an approval, whoever makes it.  What the sweep is at is left
\* to the step around them.
LEMMA ApprovedKeeps ==
    ASSUME IInv, NEW d \in Discoveries, NEW n \in DOMAIN tasks[d],
           NEW s \in ScholarshipIds, NEW name \in Titles, NEW auto \in BOOLEAN,
           NEW loaded, Approved(d, n, s, name, auto, loaded), Present(d),
           auto => Corroborated(d),
           UNCHANGED <<linker, linked, crashes>>
    PROVE  /\ Kept /\ s \in Existing'
           /\ disc' \in [Discoveries -> Discovery]
           /\ tasks' \in [Discoveries -> Seq(Task)]
           /\ scholarship' \in [ScholarshipIds -> Scholarship \cup {NoScholarship}]
           /\ StateIsBacked' /\ DuplicatesPointBack' /\ LinkedLeavesMark'
           /\ TasksHaveRows' /\ LocksExclude'
           /\ \A l \in Linkers : RunOK(l)'
           /\ \A t \in ScholarshipIds : AutoOK(t)'
<1> DEFINE st == IF loaded = "linked" THEN disc[d].state ELSE "linked"
           row == [disc[d] EXCEPT !.state = st, !.canonical = s]
           new == [title |-> name, from |-> d, auto |-> auto, state |-> "needs_review"]
<1>1. /\ s \in ScholarshipIds \ Existing
      /\ scholarship' = [scholarship EXCEPT ![s] = new]
      /\ tasks' = ResolvedAs(d, n, "resolved")
  BY DEF Approved
<1>2. /\ disc \in [Discoveries -> Discovery] /\ TypeOK
      /\ scholarship \in [ScholarshipIds -> Scholarship \cup {NoScholarship}]
  BY DEF IInv, TypeOK
<1>3. disc' = [disc EXCEPT ![d] = row]
  BY <1>2 DEF Approved
<1>4. new \in Scholarship
  BY DEF Scholarship
<1>5. new # NoScholarship /\ new.from = d /\ new.auto = auto
  <2>1. new.state = "needs_review" /\ NoScholarship.state = "absent"
    BY DEF NoScholarship
  <2>2. "needs_review" # "absent"
    OBVIOUS
  <2> QED BY <2>1, <2>2
<1> HIDE DEF new
<1>6. /\ scholarship' \in [ScholarshipIds -> Scholarship \cup {NoScholarship}]
      /\ scholarship'[s] = new
      /\ \A t \in ScholarshipIds : t # s => scholarship'[t] = scholarship[t]
  BY <1>1, <1>2, <1>4
<1>7. s \in Existing' /\ Existing \subseteq Existing'
  BY <1>1, <1>5, <1>6 DEF Existing
<1>8. /\ disc[d] \in Discovery /\ disc[d].state # "absent"
      /\ st \in ProcessingState /\ st # "absent" /\ s # None
  BY <1>2, ReviewPipelineAssumption DEF Discovery, Present, ProcessingState, None
<1>9. st = "linked" \/ st = disc[d].state
  OBVIOUS
<1> HIDE DEF st
<1>10. /\ row \in Discovery /\ row.state = st /\ row.canonical = s
       /\ row.duplicateOf = disc[d].duplicateOf
  BY <1>8 DEF Discovery
<1> HIDE DEF row
<1>11. /\ tasks' \in [Discoveries -> Seq(Task)] /\ NoTaskLost
       /\ \A e \in Discoveries : e # d => tasks'[e] = tasks[e]
  BY <1>1, <1>2, ResolvedTasks DEF NoTaskLost
<1>12. RowOK(d, row)
  <2>1. row.duplicateOf # None => EarlierReport(row.duplicateOf, d)
    BY <1>10 DEF IInv, DuplicatesPointBack
  <2>2. row.state = "duplicate_pending" => row.duplicateOf # None
    BY <1>9, <1>10 DEF IInv, StateIsBacked
  <2>3. row.state \in {"new_candidate", "needs_review"} => tasks'[d] # << >>
    BY <1>9, <1>10, <1>11 DEF IInv, StateIsBacked, NoTaskLost
  <2> QED BY <1>7, <1>8, <1>10, <2>1, <2>2, <2>3 DEF RowOK
<1>13. /\ disc' \in [Discoveries -> Discovery] /\ Kept
       /\ StateIsBacked' /\ DuplicatesPointBack' /\ LinkedLeavesMark'
       /\ TasksHaveRows'
  BY <1>3, <1>7, <1>11, <1>12, RowWritten
<1>14. LocksExclude'
  BY DEF IInv, LocksExclude
<1>15. \A l \in Linkers : RunOK(l)'
  BY <1>13, RunsStayTrue
<1>16. ASSUME NEW t \in ScholarshipIds PROVE AutoOK(t)'
  <2>1. CASE t = s
    <3>1. auto => Present(d)' /\ Corroborated(d)'
      BY <1>2, <1>13, CorroborationStays DEF Kept
    <3>2. scholarship'[t].from = d /\ scholarship'[t].auto = auto
      BY <2>1, <1>5, <1>6
    <3> QED
      BY <3>1, <3>2 DEF AutoOK, Present, Corroborated, SourcesOf, ReportsOf
  <2>2. CASE t # s /\ t \in Existing
    BY <2>2, <1>6, <1>13, AutoStays
  <2>3. CASE t # s /\ t \notin Existing
    BY <2>3, <1>6 DEF AutoOK, Existing
  <2> QED BY <2>1, <2>2, <2>3
<1>17. QED BY <1>6, <1>7, <1>11, <1>13, <1>14, <1>15, <1>16

LEMMA ApproveKeeps ==
    ASSUME IInv, NEW d \in Discoveries, NEW n \in DOMAIN tasks[d], Approve(d, n)
    PROVE  IInv'
<1>1. PICK s \in ScholarshipIds, name \in Titles :
         Approved(d, n, s, name, FALSE, disc[d].state)
  BY DEF Approve
<1>2. UNCHANGED <<linker, linked, sweep, crashes>>
  BY DEF Approve
<1>3. TypeOK /\ Present(d)
  BY DEF IInv, TypeOK, TasksHaveRows
<1>4. /\ Kept
      /\ disc' \in [Discoveries -> Discovery]
      /\ tasks' \in [Discoveries -> Seq(Task)]
      /\ scholarship' \in [ScholarshipIds -> Scholarship \cup {NoScholarship}]
      /\ StateIsBacked' /\ DuplicatesPointBack' /\ LinkedLeavesMark'
      /\ TasksHaveRows' /\ LocksExclude'
      /\ \A l \in Linkers : RunOK(l)'
      /\ \A t \in ScholarshipIds : AutoOK(t)'
  BY <1>1, <1>2, <1>3, ApprovedKeeps
<1>5. TypeOK'
  BY <1>2, <1>3, <1>4 DEF TypeOK
<1>6. QED BY <1>2, <1>4, <1>5, CandidatesStayTrue DEF IInv

\* Publishing and withdrawing write the state of one scholarship.
LEMMA ScholarshipStateKeeps ==
    ASSUME IInv, NEW s \in Existing, NEW st \in {"published", "withdrawn"},
           scholarship' = [scholarship EXCEPT ![s].state = st]
    PROVE  /\ Existing \subseteq Existing'
           /\ scholarship' \in [ScholarshipIds -> Scholarship \cup {NoScholarship}]
           /\ \A t \in ScholarshipIds : t \notin Existing => scholarship'[t] = NoScholarship
           /\ \A t \in Existing : /\ scholarship'[t].from = scholarship[t].from
                                  /\ scholarship'[t].auto = scholarship[t].auto
<1> DEFINE new == [scholarship[s] EXCEPT !.state = st]
<1>1. /\ scholarship \in [ScholarshipIds -> Scholarship \cup {NoScholarship}]
      /\ s \in ScholarshipIds /\ scholarship[s] # NoScholarship
  BY DEF IInv, TypeOK, Existing
<1>2. scholarship[s] \in Scholarship
  BY <1>1
<1>3. /\ new \in Scholarship /\ new.state # "absent"
      /\ new.from = scholarship[s].from /\ new.auto = scholarship[s].auto
  BY <1>2 DEF Scholarship
<1>4. scholarship' = [scholarship EXCEPT ![s] = new]
  BY <1>1
<1>5. new # NoScholarship
  BY <1>3 DEF NoScholarship
<1> HIDE DEF new
<1>6. QED BY <1>1, <1>3, <1>4, <1>5 DEF Existing

LEMMA ScholarshipOnlyKeeps ==
    ASSUME IInv, NEW s \in Existing, NEW st \in {"published", "withdrawn"},
           scholarship' = [scholarship EXCEPT ![s].state = st],
           UNCHANGED <<disc, tasks, linker, linked, sweep, crashes>>
    PROVE  IInv'
<1>1. /\ Existing \subseteq Existing'
      /\ scholarship' \in [ScholarshipIds -> Scholarship \cup {NoScholarship}]
      /\ \A t \in ScholarshipIds : t \notin Existing => scholarship'[t] = NoScholarship
      /\ \A t \in Existing : /\ scholarship'[t].from = scholarship[t].from
                             /\ scholarship'[t].auto = scholarship[t].auto
  BY ScholarshipStateKeeps
<1>2. TypeOK'
  BY <1>1 DEF IInv, TypeOK
<1>3. Kept
  BY <1>1, SameTasks DEF Kept, Present
<1>4. LocksExclude'
  BY DEF IInv, LocksExclude
<1>5. ASSUME NEW t \in ScholarshipIds PROVE AutoOK(t)'
  <2>1. CASE t \in Existing
    BY <2>1, <1>1, <1>3, AutoStays
  <2>2. CASE t \notin Existing
    BY <2>2, <1>1 DEF AutoOK, Existing
  <2> QED BY <2>1, <2>2
<1>6. QED
  BY <1>2, <1>3, <1>4, <1>5, RowsStayBacked, RunsStayTrue, CandidatesStayTrue,
     TasksStayBacked DEF IInv

LEMMA PublishKeeps ==
    ASSUME IInv, NEW s \in ScholarshipIds, Publish(s) \/ Withdraw(s)
    PROVE  IInv'
<1>1. CASE Publish(s)
  BY <1>1, ScholarshipOnlyKeeps DEF Publish
<1>2. CASE Withdraw(s)
  BY <1>2, ScholarshipOnlyKeeps DEF Withdraw
<1>3. QED BY <1>1, <1>2

-----------------------------------------------------------------------------
(* The sweep *)

LEMMA IdleCandidate == IdleSweep \in Candidate /\ IdleSweep.at = "idle"
BY DEF IdleSweep, Candidate, ProcessingState, None

\* The candidates after a step of session w alone.
LEMMA SweepMoves ==
    ASSUME IInv, Kept, NEW w \in Sweepers, NEW c \in Candidate,
           sweep' = [sweep EXCEPT ![w] = c],
           c.at # "idle" => /\ c.disc \in Discoveries /\ Present(c.disc)'
                            /\ c.task \in DOMAIN tasks'[c.disc],
           c.at = "fetching" => Corroborated(c.disc)',
           c.at = "publishing" => c.created \in Existing'
    PROVE  /\ sweep' \in [Sweepers -> Candidate]
           /\ \A v \in Sweepers : CandidateOK(v)'
<1>1. sweep \in [Sweepers -> Candidate]
  BY DEF IInv, TypeOK
<1>2. sweep'[w] = c /\ \A v \in Sweepers : v # w => sweep'[v] = sweep[v]
  BY <1>1
<1>3. ASSUME NEW v \in Sweepers PROVE CandidateOK(v)'
  <2>1. CASE v = w
    <3>1. sweep'[v] = c
      BY <2>1, <1>2
    <3>2. c.at = "fetching" => Corroborated(sweep[v].disc)'
      BY <3>1 DEF Corroborated, SourcesOf, ReportsOf, Present
    <3>3. c.at # "idle" => /\ sweep'[v].disc \in Discoveries
                           /\ Present(sweep[v].disc)'
                           /\ sweep'[v].task \in DOMAIN tasks'[sweep'[v].disc]
      BY <3>1 DEF Present
    <3>4. c.at = "publishing" => sweep'[v].created \in Existing'
      BY <3>1
    <3> QED BY <3>1, <3>2, <3>3, <3>4 DEF CandidateOK
  <2>2. CASE v # w
    BY <2>2, <1>2, CandidatesStayTrue
  <2> QED BY <2>1, <2>2
<1>4. QED BY <1>1, <1>3

\* The evaluation mark is all that a step writes in a discovery.
LEMMA MarkKeeps ==
    ASSUME IInv, NEW d \in Discoveries, tasks' = tasks, Existing \subseteq Existing',
           disc' = [disc EXCEPT ![d].evaluated = TRUE]
    PROVE  /\ disc' \in [Discoveries -> Discovery]
           /\ \A e \in Discoveries : /\ disc'[e].state = disc[e].state
                                     /\ disc'[e].duplicateOf = disc[e].duplicateOf
                                     /\ disc'[e].canonical = disc[e].canonical
           /\ Kept
<1>1. disc \in [Discoveries -> Discovery]
  BY DEF IInv, TypeOK
<1>2. /\ disc' \in [Discoveries -> Discovery]
      /\ \A e \in Discoveries : /\ disc'[e].state = disc[e].state
                                /\ disc'[e].duplicateOf = disc[e].duplicateOf
                                /\ disc'[e].canonical = disc[e].canonical
  BY <1>1 DEF Discovery
<1>3. QED BY <1>2, SameTasks DEF Kept, Present

\* _defer.
LEMMA DeferKeeps ==
    ASSUME IInv, NEW w \in Sweepers, NEW d \in Discoveries, Defer(w, d)
    PROVE  IInv'
<1>1. /\ disc' = [disc EXCEPT ![d].evaluated = TRUE]
      /\ sweep' = [sweep EXCEPT ![w] = IdleSweep]
      /\ UNCHANGED <<tasks, scholarship, linker, linked, crashes>>
  BY DEF Defer
<1>2. Existing \subseteq Existing'
  BY <1>1 DEF Existing
<1>3. /\ disc' \in [Discoveries -> Discovery] /\ Kept
      /\ \A e \in Discoveries : /\ disc'[e].state = disc[e].state
                                /\ disc'[e].duplicateOf = disc[e].duplicateOf
                                /\ disc'[e].canonical = disc[e].canonical
  BY <1>1, <1>2, MarkKeeps
<1>4. sweep' \in [Sweepers -> Candidate] /\ \A v \in Sweepers : CandidateOK(v)'
  BY <1>1, <1>3, IdleCandidate, SweepMoves
<1>5. TypeOK'
  BY <1>1, <1>3, <1>4 DEF IInv, TypeOK
<1>6. LocksExclude'
  BY <1>1 DEF IInv, LocksExclude
<1>7. QED
  BY <1>1, <1>3, <1>4, <1>5, <1>6, RowsStayBacked, RunsStayTrue, AllAutoStay,
     TasksStayBacked DEF IInv

LEMMA VerificationFailsKeeps ==
    ASSUME IInv, NEW w \in Sweepers, VerificationFails(w)
    PROVE  IInv'
<1>1. sweep[w].at = "fetching" /\ Defer(w, sweep[w].disc)
  BY DEF VerificationFails
<1>2. sweep[w].disc \in Discoveries
  BY <1>1 DEF IInv, CandidateOK
<1>3. QED BY <1>1, <1>2, DeferKeeps

\* Steps that change what the sweep is at and nothing else.
LEMMA SweepOnlyKeeps ==
    ASSUME IInv, NEW w \in Sweepers, NEW c \in Candidate,
           sweep' = [sweep EXCEPT ![w] = c],
           c.at # "idle" => /\ c.disc \in Discoveries /\ Present(c.disc)
                            /\ c.task \in DOMAIN tasks[c.disc],
           c.at = "fetching" => Corroborated(c.disc),
           c.at # "publishing",
           UNCHANGED <<disc, tasks, scholarship, linker, linked, crashes>>
    PROVE  IInv'
<1>1. Kept
  BY SameTasks DEF Kept, Present, Existing
<1>2. c.at = "fetching" => Corroborated(c.disc)'
  BY <1>1, CorroborationStays DEF IInv
<1>3. c.at # "idle" => /\ c.disc \in Discoveries /\ Present(c.disc)'
                       /\ c.task \in DOMAIN tasks'[c.disc]
  BY DEF Present
<1>4. sweep' \in [Sweepers -> Candidate] /\ \A v \in Sweepers : CandidateOK(v)'
  BY <1>1, <1>2, <1>3, SweepMoves
<1>5. TypeOK'
  BY <1>4 DEF IInv, TypeOK
<1>6. LocksExclude'
  BY DEF IInv, LocksExclude
<1>7. QED
  BY <1>1, <1>4, <1>5, <1>6, RowsStayBacked, RunsStayTrue, AllAutoStay,
     TasksStayBacked DEF IInv

LEMMA BeginKeeps ==
    ASSUME IInv, NEW w \in Sweepers, NEW d \in Discoveries, NEW n \in DOMAIN tasks[d],
           BeginVerification(w, d, n)
    PROVE  IInv'
<1> DEFINE c == [at |-> "fetching", disc |-> d, task |-> n,
                 loaded |-> disc[d].state, created |-> None]
<1>1. /\ Corroborated(d)
      /\ sweep' = [sweep EXCEPT ![w] = c]
      /\ UNCHANGED <<disc, tasks, scholarship, linker, linked, crashes>>
  BY DEF BeginVerification
<1>2. /\ disc \in [Discoveries -> Discovery] /\ tasks[d] \in Seq(Task)
      /\ n \in Nat /\ Present(d)
  BY DEF IInv, TypeOK, TasksHaveRows
<1>3. c \in Candidate
  BY <1>2 DEF Candidate, Discovery
<1>4. c.at = "fetching" /\ c.disc = d /\ c.task = n
  OBVIOUS
<1> HIDE DEF c
<1>5. QED BY <1>1, <1>2, <1>3, <1>4, SweepOnlyKeeps

LEMMA AbandonKeeps ==
    ASSUME IInv, NEW w \in Sweepers, AbandonCandidate(w)
    PROVE  IInv'
BY IdleCandidate, SweepOnlyKeeps DEF AbandonCandidate

LEMMA AutoApproveKeeps ==
    ASSUME IInv, NEW w \in Sweepers, AutoApprove(w)
    PROVE  IInv'
<1>0. PICK d, n : d = sweep[w].disc /\ n = sweep[w].task
  OBVIOUS
<1>1. PICK s \in ScholarshipIds :
         /\ Approved(d, n, s, Title[d], TRUE, sweep[w].loaded)
         /\ sweep' = [sweep EXCEPT ![w].at = "publishing", ![w].created = s]
  BY <1>0 DEF AutoApprove
<1>2. sweep[w].at = "fetching" /\ UNCHANGED <<linker, linked, crashes>>
  BY DEF AutoApprove
<1>3. /\ TypeOK /\ d \in Discoveries /\ Present(d) /\ Corroborated(d)
      /\ n \in DOMAIN tasks[d]
  BY <1>0, <1>2 DEF IInv, CandidateOK
<1>4. Title[d] \in Titles
  BY <1>3, ReviewPipelineAssumption
<1>5. /\ Kept /\ s \in Existing'
      /\ disc' \in [Discoveries -> Discovery]
      /\ tasks' \in [Discoveries -> Seq(Task)]
      /\ scholarship' \in [ScholarshipIds -> Scholarship \cup {NoScholarship}]
      /\ StateIsBacked' /\ DuplicatesPointBack' /\ LinkedLeavesMark'
      /\ TasksHaveRows' /\ LocksExclude'
      /\ \A l \in Linkers : RunOK(l)'
      /\ \A t \in ScholarshipIds : AutoOK(t)'
  BY <1>1, <1>2, <1>3, <1>4, ApprovedKeeps
<1> PICK c : c = [sweep[w] EXCEPT !.at = "publishing", !.created = s]
  OBVIOUS
<1>6. sweep \in [Sweepers -> Candidate] /\ sweep[w] \in Candidate
  BY <1>3 DEF TypeOK
<1>7. sweep' = [sweep EXCEPT ![w] = c]
  BY <1>1, <1>6
<1>8. /\ c \in Candidate /\ c.at = "publishing" /\ c.created = s
      /\ c.disc = d /\ c.task = n
  BY <1>0, <1>6 DEF Candidate
<1>9. Present(d)' /\ n \in DOMAIN tasks'[d]
  BY <1>3, <1>5 DEF Kept, NoTaskLost
<1>10. sweep' \in [Sweepers -> Candidate] /\ \A v \in Sweepers : CandidateOK(v)'
  <2>1. /\ c.at # "idle" => /\ c.disc \in Discoveries /\ Present(c.disc)'
                            /\ c.task \in DOMAIN tasks'[c.disc]
        /\ c.at = "publishing" => c.created \in Existing'
        /\ c.at # "fetching"
    BY <1>3, <1>5, <1>8, <1>9 DEF Present
  <2> QED BY <1>5, <1>7, <1>8, <2>1, SweepMoves
<1>11. TypeOK'
  BY <1>2, <1>3, <1>5, <1>10 DEF TypeOK
<1>12. QED BY <1>5, <1>10, <1>11 DEF IInv

LEMMA AutoPublishKeeps ==
    ASSUME IInv, NEW w \in Sweepers, AutoPublish(w)
    PROVE  IInv'
<1> DEFINE s == sweep[w].created
           d == sweep[w].disc
<1>1. /\ sweep[w].at = "publishing"
      /\ scholarship' = [scholarship EXCEPT ![s].state = "published"]
      /\ disc' = [disc EXCEPT ![d].evaluated = TRUE]
      /\ sweep' = [sweep EXCEPT ![w] = IdleSweep]
      /\ UNCHANGED <<tasks, linker, linked, crashes>>
  BY DEF AutoPublish
<1>2. d \in Discoveries /\ s \in Existing
  BY <1>1 DEF IInv, CandidateOK
<1>3. /\ Existing \subseteq Existing'
      /\ scholarship' \in [ScholarshipIds -> Scholarship \cup {NoScholarship}]
      /\ \A t \in ScholarshipIds : t \notin Existing => scholarship'[t] = NoScholarship
      /\ \A t \in Existing : /\ scholarship'[t].from = scholarship[t].from
                             /\ scholarship'[t].auto = scholarship[t].auto
  BY <1>1, <1>2, ScholarshipStateKeeps
<1>4. /\ disc' \in [Discoveries -> Discovery] /\ Kept
      /\ \A e \in Discoveries : /\ disc'[e].state = disc[e].state
                                /\ disc'[e].duplicateOf = disc[e].duplicateOf
                                /\ disc'[e].canonical = disc[e].canonical
  BY <1>1, <1>2, <1>3, MarkKeeps
<1>5. sweep' \in [Sweepers -> Candidate] /\ \A v \in Sweepers : CandidateOK(v)'
  BY <1>1, <1>4, IdleCandidate, SweepMoves
<1>6. TypeOK'
  BY <1>1, <1>3, <1>4, <1>5 DEF IInv, TypeOK
<1>7. LocksExclude'
  BY <1>1 DEF IInv, LocksExclude
<1>8. ASSUME NEW t \in ScholarshipIds PROVE AutoOK(t)'
  <2>1. CASE t \in Existing
    BY <2>1, <1>3, <1>4, AutoStays
  <2>2. CASE t \notin Existing
    BY <2>2, <1>3 DEF AutoOK, Existing
  <2> QED BY <2>1, <2>2
<1>9. QED
  BY <1>1, <1>4, <1>5, <1>6, <1>7, <1>8, RowsStayBacked, RunsStayTrue,
     TasksStayBacked DEF IInv

-----------------------------------------------------------------------------
(* The inductive invariant and the theorems *)

LEMMA LinkStepKeeps ==
    ASSUME IInv, NEW l \in Linkers, LinkStep(l)
    PROVE  IInv'
<1>1. CASE MarkDuplicate(l)
  BY <1>1, MarkDuplicateKeeps
<1>2. CASE FindScholarships(l)
  BY <1>2, FindKeeps
<1>3. CASE AttachToScholarship(l)
  BY <1>3, AttachKeeps
<1>4. CASE SendToReview(l)
  BY <1>4, SendToReviewKeeps
<1>5. QED BY <1>1, <1>2, <1>3, <1>4 DEF LinkStep

LEMMA StutterKeeps == IInv /\ UNCHANGED vars => IInv'
<1> SUFFICES ASSUME IInv, UNCHANGED vars PROVE IInv'
  OBVIOUS
<1>1. UNCHANGED <<disc, tasks, scholarship, linker, linked, sweep, crashes>>
  BY DEF vars
<1>2. tasks' \in [Discoveries -> Seq(Task)] /\ NoTaskLost
  BY <1>1, SameTasks DEF IInv, TypeOK
<1>3. \A e \in Discoveries : tasks'[e] # << >> => Present(e)
  BY <1>1 DEF IInv, TasksHaveRows
<1>4. QED BY <1>1, <1>2, <1>3, TasksOnlyKeeps

LEMMA StepKeeps == IInv /\ [Next]_vars => IInv'
<1> SUFFICES ASSUME IInv, [Next]_vars PROVE IInv'
  OBVIOUS
<1>1. ASSUME NEW batch \in SUBSET Discoveries, ImportFeedRecords(batch)
      PROVE  IInv'
  BY <1>1, ArriveKeeps DEF ImportFeedRecords
<1>2. ASSUME NEW batch \in SUBSET Discoveries, NEW parent \in Discoveries,
             SubmitCandidates(parent, batch)
      PROVE  IInv'
  BY <1>2, ArriveKeeps DEF SubmitCandidates
<1>3. ASSUME NEW d \in Discoveries, NormalizeDiscovery(d) PROVE IInv'
  BY <1>3, NormalizeKeeps
<1>4. ASSUME NEW d \in Discoveries, RequestReview(d) PROVE IInv'
  BY <1>4, RequestKeeps
<1>5. ASSUME NEW d \in Discoveries, PrepareReview(d) PROVE IInv'
  BY <1>5, PrepareKeeps
<1>6. ASSUME NEW d \in Discoveries, NEW l \in Linkers, StartLink(l, d) PROVE IInv'
  BY <1>6, StartKeeps
<1>7. ASSUME NEW d \in Discoveries, NEW n \in DOMAIN tasks[d], Reject(d, n) PROVE IInv'
  BY <1>7, RejectKeeps
<1>8. ASSUME NEW d \in Discoveries, NEW n \in DOMAIN tasks[d], Approve(d, n) PROVE IInv'
  BY <1>8, ApproveKeeps
<1>9. ASSUME NEW d \in Discoveries, NEW n \in DOMAIN tasks[d], NEW w \in Sweepers,
             TurnDown(w, d, n)
      PROVE  IInv'
  BY <1>9, DeferKeeps DEF TurnDown
<1>10. ASSUME NEW d \in Discoveries, NEW n \in DOMAIN tasks[d], NEW w \in Sweepers,
              BeginVerification(w, d, n)
       PROVE  IInv'
  BY <1>10, BeginKeeps
<1>11. ASSUME NEW l \in Linkers, LinkStep(l) PROVE IInv'
  BY <1>11, LinkStepKeeps
<1>12. ASSUME NEW l \in Linkers, LinkCrash(l) PROVE IInv'
  BY <1>12, CrashKeeps
<1>13. ASSUME NEW s \in ScholarshipIds, Publish(s) \/ Withdraw(s) PROVE IInv'
  BY <1>13, PublishKeeps
<1>14. ASSUME NEW w \in Sweepers, VerificationFails(w) PROVE IInv'
  BY <1>14, VerificationFailsKeeps
<1>15. ASSUME NEW w \in Sweepers, AutoApprove(w) PROVE IInv'
  BY <1>15, AutoApproveKeeps
<1>16. ASSUME NEW w \in Sweepers, AutoPublish(w) PROVE IInv'
  BY <1>16, AutoPublishKeeps
<1>17. ASSUME NEW w \in Sweepers, AbandonCandidate(w) PROVE IInv'
  BY <1>17, AbandonKeeps
<1>18. CASE UNCHANGED vars
  BY <1>18, StutterKeeps
<1>19. QED
  BY <1>1, <1>2, <1>3, <1>4, <1>5, <1>6, <1>7, <1>8, <1>9, <1>10, <1>11, <1>12,
     <1>13, <1>14, <1>15, <1>16, <1>17, <1>18 DEF Next

LEMMA Invariance == Spec => []IInv
<1>1. Init => IInv
  BY InitEstablishes
<1>2. IInv /\ [Next]_vars => IInv'
  BY StepKeeps
<1>3. QED BY <1>1, <1>2, PTL DEF Spec

\* The tables and the sessions' memories stay within their types
\* (infra/models.py, the processing states of SourceDiscovery).
THEOREM TypeCorrect == Spec => []TypeOK
<1>1. IInv => TypeOK
  BY DEF IInv
<1>2. QED BY <1>1, Invariance, PTL

\* However many jobs, reviewers and sweeps write a discovery, and in whatever
\* order, the row its processing state promises is there (infra/linking.py,
\* link_discovery; infra/auto_approval.py, attempt_auto_approval).
THEOREM StatesAreBacked == Spec => []StateIsBacked
<1>1. IInv => StateIsBacked
  BY DEF IInv
<1>2. QED BY <1>1, Invariance, PTL

\* A chain of duplicates ends in a report that is none: every discovery whose
\* link job has completed can be seen, itself or through an earlier report.
\* The smallest id among the earlier reports is the end of the chain, which
\* is why the id order of link_discovery's query is needed.
LEMMA NotLost == IInv => NoReportIsLost
<1> SUFFICES ASSUME IInv, NEW d \in Discoveries, linked[d] > 0, ~Seen(d)
             PROVE  \E e \in Discoveries :
                       /\ e < d /\ Present(e) /\ Title[e] = Title[d]
                       /\ disc[e].duplicateOf = None
  BY DEF NoReportIsLost
<1> DEFINE S == {e \in Discoveries : EarlierReport(e, d)}
<1>1. disc[d].duplicateOf # None
  BY DEF IInv, LinkedLeavesMark
<1>2. disc[d].duplicateOf \in S
  BY <1>1 DEF IInv, DuplicatesPointBack, EarlierReport
<1>3. S \subseteq Nat /\ IsFiniteSet(S) /\ S # {}
  BY <1>2, FS_Subset, ReviewPipelineAssumption
<1>4. PICK m \in S : \A k \in S : m <= k
  <2> HIDE DEF S
  <2> QED BY <1>3, LeastElement
<1>5. m \in Discoveries /\ EarlierReport(m, d)
  BY <1>4
<1>6. ASSUME disc[m].duplicateOf # None PROVE FALSE
  <2> DEFINE k == disc[m].duplicateOf
  <2>1. EarlierReport(k, m)
    BY <1>5, <1>6 DEF IInv, DuplicatesPointBack
  <2>2. k \in Nat /\ m \in Nat /\ d \in Nat /\ k < m /\ m < d
    BY <1>5, <2>1, ReviewPipelineAssumption DEF EarlierReport
  <2>3. EarlierReport(k, d)
    BY <1>5, <2>1, <2>2 DEF EarlierReport
  <2>4. m <= k
    BY <1>4, <2>1, <2>3 DEF EarlierReport
  <2> QED BY <2>2, <2>4
<1>7. QED BY <1>5, <1>6 DEF EarlierReport

\* No award drops out of sight because all its reports are duplicates of one
\* another (infra/linking.py, link_discovery).
THEOREM NothingLost == Spec => []NoReportIsLost
BY NotLost, Invariance, PTL

\* What the sweep has approved on its own stays corroborated by enough
\* sources, rows split out of a list left aside: the count is taken before
\* the page is fetched, and reports are only ever added
\* (infra/corroboration.py, gather_corroboration).
LEMMA CorroboratedAwards == IInv => AutoApprovedIsCorroborated
<1> SUFFICES ASSUME IInv, NEW s \in Existing, scholarship[s].auto
             PROVE  Cardinality({Source[d] : d \in {e \in Discoveries :
                        /\ Present(e) /\ Title[e] = Title[scholarship[s].from]
                        /\ e \in SplitChildren => e = scholarship[s].from}}) >= MinSources
  BY DEF AutoApprovedIsCorroborated
<1> DEFINE f == scholarship[s].from
           W == {e \in Discoveries : /\ Present(e) /\ Title[e] = Title[f]
                                     /\ e \in SplitChildren => e = f}
<1>1. AutoOK(s) /\ f \in Discoveries
  BY DEF IInv, Existing, TypeOK, Scholarship
<1>2. Present(f) /\ Corroborated(f)
  BY <1>1 DEF AutoOK
<1>3. W = {f} \cup (ReportsOf(f) \ SplitChildren)
  <2>1. ASSUME NEW e \in Discoveries
        PROVE  e \in W <=> e = f \/ (e \in ReportsOf(f) /\ e \notin SplitChildren)
    BY <1>1, <1>2 DEF ReportsOf, Present
  <2>2. W \subseteq Discoveries /\ ReportsOf(f) \subseteq Discoveries
    BY DEF ReportsOf
  <2> HIDE DEF W, f
  <2> QED BY <1>1, <2>1, <2>2
<1>4. {Source[d] : d \in W} = SourcesOf(f)
  <2> HIDE DEF W, f
  <2> DEFINE R == ReportsOf(f) \ SplitChildren
  <2>1. SourcesOf(f) = {Source[f]} \cup {Source[e] : e \in R}
    BY DEF SourcesOf
  <2>2. W = {f} \cup R
    BY <1>3
  <2> HIDE DEF R
  <2> QED BY <2>1, <2>2
<1>5. QED BY <1>2, <1>4 DEF Corroborated

\* See CorroboratedAwards: the Agent proposes, it never supplies the second
\* source that an automatic approval needs (infra/corroboration.py).
THEOREM AutoCorroborated == Spec => []AutoApprovedIsCorroborated
BY CorroboratedAwards, Invariance, PTL

\* The row lock of link_discovery: while a run has its discovery, no other
\* session writes the row, and the run's own write is its last step.
LEMMA ExclusiveStep ==
    IInv /\ [Next]_vars =>
        [\A l \in Linkers : \A d \in Discoveries :
            linker[l].disc = d /\ disc'[d] # disc[d] => linker'[l] = IdleLinker]_vars
<1> SUFFICES ASSUME IInv, Next, NEW l \in Linkers, NEW d \in Discoveries,
                    linker[l].disc = d, disc'[d] # disc[d]
             PROVE  linker'[l] = IdleLinker
  OBVIOUS
<1>1. /\ disc \in [Discoveries -> Discovery] /\ linker \in [Linkers -> Run]
      /\ sweep \in [Sweepers -> Candidate]
  BY DEF IInv, TypeOK
<1>2. ~Unlocked(d) /\ Present(d)
  <2>1. ~Unlocked(d)
    BY DEF Unlocked
  <2>2. d # None
    BY ReviewPipelineAssumption DEF None
  <2>3. Present(d)
    BY <2>2 DEF IInv, RunOK
  <2> QED BY <2>1, <2>3
<1>3. ASSUME NEW e \in Discoveries, NEW row, disc' = [disc EXCEPT ![e] = row]
      PROVE  e = d
  BY <1>1, <1>3
<1>4. ASSUME NEW batch \in SUBSET Discoveries, Arrive(batch) PROVE FALSE
  BY <1>2, <1>4 DEF Arrive
<1>5. ASSUME NEW e \in Discoveries, NormalizeDiscovery(e) PROVE FALSE
  BY <1>1, <1>2, <1>5 DEF NormalizeDiscovery
<1>6. ASSUME NEW e \in Discoveries, NEW n \in DOMAIN tasks[e], Approve(e, n) PROVE FALSE
  BY <1>1, <1>2, <1>6 DEF Approve, Approved
<1>7. ASSUME NEW w \in Sweepers, NEW e \in Discoveries, Defer(w, e) PROVE FALSE
  BY <1>1, <1>2, <1>7 DEF Defer
<1>8. ASSUME NEW w \in Sweepers, VerificationFails(w) PROVE FALSE
  <2>1. sweep[w].disc \in Discoveries
    BY <1>8 DEF VerificationFails, IInv, CandidateOK
  <2> QED BY <1>7, <1>8, <2>1 DEF VerificationFails
<1>9. ASSUME NEW w \in Sweepers, AutoApprove(w) \/ AutoPublish(w) PROVE FALSE
  BY <1>1, <1>2, <1>9 DEF AutoApprove, AutoPublish, Approved
<1>10. ASSUME NEW m \in Linkers, LinkStep(m) PROVE linker'[l] = IdleLinker
  <2>1. disc' # disc
    OBVIOUS
  <2>2. /\ EndLink(m)
        /\ \A e \in Discoveries : e # linker[m].disc => disc'[e] = disc[e]
    BY <1>1, <1>10, <2>1
    DEF LinkStep, MarkDuplicate, FindScholarships, AttachToScholarship, SendToReview
  <2>3. linker[m].disc = d
    BY <2>2
  <2>4. m = l
    BY <2>3, ReviewPipelineAssumption DEF IInv, LocksExclude, None
  <2> QED BY <1>1, <2>2, <2>4 DEF EndLink
<1>11. ASSUME NEW e \in Discoveries, NEW n \in DOMAIN tasks[e], NEW w \in Sweepers,
              TurnDown(w, e, n)
       PROVE  FALSE
  BY <1>7, <1>11 DEF TurnDown
<1>12. disc' # disc
  OBVIOUS
<1>13. QED
  BY <1>4, <1>5, <1>6, <1>8, <1>9, <1>10, <1>11, <1>12
  DEF Next, ImportFeedRecords, SubmitCandidates, RequestReview, PrepareReview, StartLink,
      Reject, BeginVerification, LinkCrash, Publish, Withdraw, AbandonCandidate

\* A run of link_discovery decides on the discovery as it stands, for any
\* number of sessions (infra/linking.py, the SELECT ... FOR UPDATE).
THEOREM RunsAreExclusive == Spec => LinkRunIsExclusive
<1>1. QED BY Invariance, ExclusiveStep, PTL DEF Spec, LinkRunIsExclusive
=============================================================================
