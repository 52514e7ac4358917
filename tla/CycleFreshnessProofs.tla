------------------------ MODULE CycleFreshnessProofs ------------------------
(***************************************************************************)
(* Proofs of safety properties of CycleFreshness, for any number of        *)
(* overlapping runs, pages, contents and fields a reviewer may correct.    *)
(***************************************************************************)
EXTENDS CycleFreshness, TLAPS

\* A row, or a session's copy of one, is open or marked for auto-restore only
\* if a reviewer once set it open.
Grounded(c) == c.status = "open_verified" \/ c.auto => vouched
CopiesGrounded ==
    /\ \A r \in Runs : run[r].pc # "idle" => Grounded(run[r].copy)
    /\ admin.op # "none" => Grounded(admin.copy)

IInv == TypeOK /\ Grounded(cyc) /\ CopiesGrounded

-----------------------------------------------------------------------------

\* A flush of one cycle over another is a cycle, each column of which is that
\* of one of them.
LEMMA WrittenCycle ==
    ASSUME NEW stored \in Cycle, NEW loaded \in Cycle, NEW new \in Cycle
    PROVE  /\ Written(stored, loaded, new) \in Cycle
           /\ Written(stored, loaded, new).status \in {stored.status, new.status}
           /\ Written(stored, loaded, new).auto \in {stored.auto, new.auto}
<1> DEFINE w == Written(stored, loaded, new)
<1>1. DOMAIN stored = {"status", "deadline", "validUntil", "verifiedAt",
                       "createdAt", "auto", "url", "page"}
  BY DEF Cycle
<1>2. w = [f \in {"status", "deadline", "validUntil", "verifiedAt",
                  "createdAt", "auto", "url", "page"}
             |-> IF new[f] # loaded[f] THEN new[f] ELSE stored[f]]
  BY <1>1 DEF Written
<1>3. /\ w["status"] \in {stored.status, new.status}
      /\ w["deadline"] \in {stored.deadline, new.deadline}
      /\ w["validUntil"] \in {stored.validUntil, new.validUntil}
      /\ w["verifiedAt"] \in {stored.verifiedAt, new.verifiedAt}
      /\ w["createdAt"] \in {stored.createdAt, new.createdAt}
      /\ w["auto"] \in {stored.auto, new.auto}
      /\ w["url"] \in {stored.url, new.url}
      /\ w["page"] \in {stored.page, new.page}
  BY <1>2
<1> HIDE DEF w
<1>4. w \in Cycle
  BY <1>2, <1>3 DEF Cycle
<1>5. QED BY <1>3, <1>4 DEF w

\* The rules of the cadence table give times.
LEMMA EvidenceNat ==
    ASSUME NEW c \in Cycle, NEW t \in Nat
    PROVE  EvidenceDeadline(c, t) \in Nat
<1>1. Bucket(c, t) \in Buckets
  BY FreshnessAssumption DEF Bucket, Buckets, Cycle, Status
<1>2. Anchor(c) \in Nat
  BY DEF Anchor, Cycle, Time, NoTime
<1>3. QED BY <1>1, <1>2, FreshnessAssumption DEF EvidenceDeadline

\* Recomputing never opens a cycle, and marks only one that was open.
LEMMA RefreshedCycle ==
    ASSUME NEW c \in Cycle, NEW t \in Nat
    PROVE  /\ Refreshed(c, t) \in Cycle
           /\ Refreshed(c, t).status = "open_verified" => c.status = "open_verified"
           /\ Refreshed(c, t).auto => c.auto \/ c.status = "open_verified"
<1>1. CASE c.status # "open_verified"
  BY <1>1 DEF Refreshed
<1>2. CASE c.status = "open_verified"
  <2> DEFINE bound == Sooner(EvidenceDeadline(c, t), c.deadline)
  <2>1. bound \in Time
    BY EvidenceNat DEF Sooner, Time, NoTime, Cycle
  <2>2. \/ Refreshed(c, t) = [c EXCEPT !.validUntil = bound]
        \/ Refreshed(c, t) = [c EXCEPT !.validUntil = bound,
                                       !.status = "status_unknown"]
        \/ Refreshed(c, t) = [c EXCEPT !.validUntil = bound,
                                       !.status = "status_unknown", !.auto = TRUE]
    BY <1>2 DEF Refreshed, Cycle
  <2> HIDE DEF bound
  <2>3. QED BY <1>2, <2>1, <2>2 DEF Cycle, Status
<1>3. QED BY <1>1, <1>2

\* A renewal opens only what was marked.
LEMMA RenewedCycle ==
    ASSUME NEW c \in Cycle, NEW t \in Nat
    PROVE  /\ Renewed(c, t) \in Cycle
           /\ Renewed(c, t).status = "open_verified"
                => c.auto \/ c.status = "open_verified"
           /\ Renewed(c, t).auto => c.auto
BY DEF Renewed, Cycle, Status, Time

LEMMA LinkedCycle ==
    ASSUME NEW c \in Cycle
    PROVE  /\ Linked(c) \in Cycle
           /\ Linked(c).status = c.status
           /\ Linked(c).auto = c.auto
           /\ PageOf(c) \in Urls
BY DEF Linked, PageOf, Cycle, NoPage

\* A flush of a grounded change over a grounded row leaves a grounded row.
LEMMA WrittenGrounded ==
    ASSUME NEW stored \in Cycle, NEW loaded \in Cycle, NEW new \in Cycle,
           Grounded(stored), Grounded(new)
    PROVE  Grounded(Written(stored, loaded, new))
BY WrittenCycle DEF Grounded, Cycle

-----------------------------------------------------------------------------

LEMMA InitIInv == Init => IInv
<1> SUFFICES ASSUME Init PROVE IInv
  OBVIOUS
<1>1. PICK u \in Urls : cyc = Unpublished(u)
  BY DEF Init
<1>6. cyc \in Cycle
  BY <1>1 DEF Unpublished, Cycle, Status, Time
<1>7. Grounded(cyc)
  BY <1>1 DEF Unpublished, Grounded
<1>2. NoRun \in RunState /\ NoRequest \in RequestState
  BY DEF NoRun, RunState, NoRequest, RequestState
<1>3. TypeOK
  <2>1. NeverFetched \in SourcePage
    BY DEF NeverFetched, SourcePage, Hashes, HttpStatus
  <2>2. page \in [Urls -> SourcePage]
    BY <2>1 DEF Init
  <2>3. run \in [Runs -> RunState] /\ admin \in RequestState
    BY <1>2 DEF Init
  <2>5. now \in 0..MaxTime
    BY FreshnessAssumption DEF Init
  <2>6. QED BY <1>6, <2>2, <2>3, <2>5 DEF Init, TypeOK
<1>4. CopiesGrounded
  BY DEF Init, CopiesGrounded, NoRun, NoRequest
<1>5. QED BY <1>3, <1>4, <1>7 DEF IInv

\* Steps of a run end in one of these states of it.
LEMMA RunStates ==
    /\ NoRun \in RunState /\ NoRun.pc = "idle"
    /\ \A t \in 0..MaxTime, c \in Cycle :
          /\ Scanned(t, c) \in RunState
          /\ Scanned(t, c).pc = "scanned" /\ Scanned(t, c).copy = c
    /\ \A t \in 0..MaxTime, c \in Cycle, p \in SourcePage :
          /\ Asking(t, c, p) \in RunState
          /\ Asking(t, c, p).pc = "asking" /\ Asking(t, c, p).copy = c
    /\ \A t \in 0..MaxTime, c \in Cycle, h \in Hashes :
          /\ Fetched(t, c, h) \in RunState
          /\ Fetched(t, c, h).pc = "fetched" /\ Fetched(t, c, h).copy = c
BY DEF NoRun, Scanned, Asking, Fetched, RunState

LEMMA RunCopies ==
    ASSUME TypeOK, NEW r \in Runs
    PROVE  /\ run[r].pc \in {"scanned", "asking", "fetched"} =>
                 run[r].at \in 0..MaxTime /\ run[r].copy \in Cycle
           /\ run[r].pc = "asking" => run[r].loaded \in SourcePage
           /\ run[r].pc = "fetched" => run[r].prev \in Hashes
BY DEF TypeOK, RunState

\* What a fetch makes of its page, stored at once or flushed over a later one.
LEMMA ObservedPage ==
    ASSUME NEW kind \in Direct \cup Fallback, NEW content \in Contents,
           NEW stored \in SourcePage, NEW loaded
    PROVE  /\ Observed(kind, content) \in SourcePage
           /\ Written(stored, loaded, Observed(kind, content)) \in SourcePage
<1> DEFINE new == Observed(kind, content)
<1>1. new \in SourcePage
  BY DEF Observed, SourcePage, Hashes, HttpStatus
<1>2. DOMAIN stored = {"hash", "status"}
  BY DEF SourcePage
<1> DEFINE w == Written(stored, loaded, new)
<1>3. w = [f \in {"hash", "status"} |-> IF new[f] # loaded[f] THEN new[f] ELSE stored[f]]
  BY <1>2 DEF Written
<1> HIDE DEF new
<1>4. w["hash"] \in {new.hash, stored.hash} /\ w["status"] \in {new.status, stored.status}
  BY <1>3
<1> HIDE DEF w
<1>5. w \in SourcePage
  BY <1>1, <1>3, <1>4 DEF SourcePage
<1>6. QED  BY <1>1, <1>5 DEF new, w

LEMMA RequestCopies ==
    ASSUME TypeOK, admin.op \in {"update", "withdraw"} PROVE admin.copy \in Cycle
BY DEF TypeOK, RequestState

\* What a run leaves behind when it writes a row and ends.
LEMMA RunEnds ==
    ASSUME IInv, NEW r \in Runs, run' = [run EXCEPT ![r] = NoRun],
           cyc' \in Cycle, Grounded(cyc)', task' \in Reasons \cup {"none"},
           UNCHANGED <<now, schol, page, site, admin, vouched>>
    PROVE  IInv'
<1>1. TypeOK'
  BY RunStates DEF IInv, TypeOK
<1>2. CopiesGrounded'
  BY RunStates DEF IInv, TypeOK, CopiesGrounded, Grounded
<1>3. QED BY <1>1, <1>2 DEF IInv

LEMMA ReviewerIInv == ASSUME IInv, Reviewer PROVE IInv'
<1>1. ASSUME NEW s \in Status, NEW d \in Instants \cup {NoTime},
             NEW u \in Instants \cup {NoTime}, NEW v \in {NoTime, now}, Publish(s, d, u, v)
      PROVE  IInv'
  <2>1. now \in Nat /\ d \in Time /\ u \in Time /\ v \in Time
    BY FreshnessAssumption DEF IInv, TypeOK, Time
  <2>2. cyc' \in Cycle /\ cyc'.status = s /\ cyc'.auto = cyc.auto
    BY <1>1, <2>1 DEF Publish, IInv, TypeOK, Cycle
  <2>3. Grounded(cyc)'
    BY <1>1, <2>2 DEF Publish, IInv, Grounded
  <2>4. QED BY <1>1, <2>2, <2>3
        DEF Publish, IInv, TypeOK, CopiesGrounded, Grounded
<1>2. ASSUME BeginUpdate \/ BeginWithdraw PROVE IInv'
  <2>1. /\ \A op \in {"update", "withdraw"} : Request(op, cyc) \in RequestState
        /\ \A op \in {"update", "withdraw"} : Request(op, cyc).copy = cyc
    BY DEF Request, RequestState, IInv, TypeOK
  <2>2. QED BY <1>2, <2>1
        DEF BeginUpdate, BeginWithdraw, IInv, TypeOK, CopiesGrounded, Grounded
<1>3. ASSUME CommitUpdate PROVE IInv'
  <2>1. admin.copy \in Cycle /\ Grounded(admin.copy)
    BY <1>3, RequestCopies DEF CommitUpdate, IInv, CopiesGrounded
  <2>2. PICK new \in Corrections(admin.copy) :
           /\ cyc' = Written(cyc, admin.copy, new)
           /\ vouched' = (vouched \/ new.status = "open_verified")
    BY <1>3 DEF CommitUpdate
  <2> PICK f \in Correctable :
          new \in {[admin.copy EXCEPT ![f] = v] : v \in Entered(f)}
    BY <2>2 DEF Corrections
  <2>3. PICK v \in Entered(f) : new = [admin.copy EXCEPT ![f] = v]
    OBVIOUS
  <2>4. \/ f = "status" /\ v \in Status
        \/ f = "url" /\ v \in Urls
        \/ f \in {"deadline", "validUntil", "verifiedAt"} /\ v \in Time
    BY <2>3, FreshnessAssumption DEF Entered, IInv, TypeOK, Time
  <2>5. new \in Cycle /\ new.auto = admin.copy.auto
    BY <2>1, <2>3, <2>4 DEF Cycle
  <2>6. Grounded(new)' /\ Grounded(cyc)'
    <3>1. (vouched => vouched') /\ (new.status = "open_verified" => vouched')
      BY <2>2
    <3>2. Grounded(new)'
      BY <2>1, <2>5, <3>1 DEF Grounded
    <3>3. cyc'.status \in {cyc.status, new.status} /\ cyc'.auto \in {cyc.auto, new.auto}
      BY <2>1, <2>2, <2>5, WrittenCycle DEF IInv, TypeOK
    <3>4. QED BY <2>1, <2>5, <3>1, <3>2, <3>3 DEF Grounded, IInv
  <2>7. cyc' \in Cycle
    BY <2>1, <2>2, <2>5, WrittenCycle DEF IInv, TypeOK
  <2>8. NoRequest \in RequestState /\ NoRequest.op = "none"
    BY DEF NoRequest, RequestState
  <2>9. TypeOK'
    BY <1>3, <2>2, <2>7, <2>8 DEF CommitUpdate, IInv, TypeOK
  <2>10. CopiesGrounded'
    BY <1>3, <2>2, <2>8 DEF CommitUpdate, IInv, CopiesGrounded, Grounded
  <2>11. QED BY <2>6, <2>9, <2>10 DEF IInv
<1>4. ASSUME CommitWithdraw PROVE IInv'
  <2> DEFINE new == [admin.copy EXCEPT !.status = "status_unknown",
                                       !.validUntil = NoTime]
  <2>1. admin.copy \in Cycle /\ Grounded(admin.copy)
    BY <1>4, RequestCopies DEF CommitWithdraw, IInv, CopiesGrounded
  <2>2. new \in Cycle /\ Grounded(new)
    BY <2>1 DEF Cycle, Status, Time, Grounded
  <2>3. cyc' = Written(cyc, admin.copy, new)
    BY <1>4 DEF CommitWithdraw
  <2> HIDE DEF new
  <2>4. cyc' \in Cycle /\ Grounded(cyc')
    BY <2>1, <2>2, <2>3, WrittenCycle, WrittenGrounded DEF IInv, TypeOK
  <2>5. NoRequest \in RequestState /\ NoRequest.op = "none"
    BY DEF NoRequest, RequestState
  <2>6. QED BY <1>4, <2>4, <2>5
        DEF CommitWithdraw, IInv, TypeOK, CopiesGrounded, Grounded
<1>5. ASSUME AbortRequest \/ ResolveTask PROVE IInv'
  <2>1. NoRequest \in RequestState /\ NoRequest.op = "none"
    BY DEF NoRequest, RequestState
  <2>2. QED BY <1>5, <2>1
        DEF AbortRequest, ResolveTask, IInv, TypeOK, CopiesGrounded, Grounded
<1>6. QED BY <1>1, <1>2, <1>3, <1>4, <1>5 DEF Reviewer

LEMMA ReverifyIInv == ASSUME IInv, NEW r \in Runs, Reverify(r) PROVE IInv'
<1> USE DEF IInv
<1>1. ASSUME Scan(r) PROVE IInv'
  <2>1. TypeOK'
    BY <1>1, RunStates DEF Scan, TypeOK
  <2>2. CopiesGrounded'
    BY <1>1, RunStates DEF Scan, TypeOK, CopiesGrounded, Grounded
  <2>3. QED BY <1>1, <2>1, <2>2 DEF Scan, Grounded
<1>2. ASSUME SkipWithdrawn(r) \/ AbortRun(r) PROVE IInv'
  BY <1>2, RunEnds DEF SkipWithdrawn, AbortRun, TypeOK, Grounded
<1>3. ASSUME FetchRaises(r) PROVE IInv'
  <2>1. PICK copy \in CopyAtLock(r) :
           /\ cyc' = Written(cyc, copy, Linked(copy))
           /\ DeferOrFlag(copy, run[r].at, "reverify_fetch_failed")
    BY <1>3 DEF FetchRaises
  <2>2. copy \in Cycle /\ Grounded(copy)
    BY <1>3, RunCopies DEF FetchRaises, CopyAtLock, TypeOK, CopiesGrounded
  <2>3. Linked(copy) \in Cycle /\ Grounded(Linked(copy))
    BY <2>2, LinkedCycle DEF Grounded
  <2>4. cyc' \in Cycle /\ Grounded(cyc')
    BY <2>1, <2>2, <2>3, WrittenCycle, WrittenGrounded DEF TypeOK
  <2>5. task' \in Reasons \cup {"none"}
    BY <2>1 DEF DeferOrFlag, OpenTask, Reasons, TypeOK
  <2>6. Grounded(cyc)'
    BY <1>3, <2>4 DEF FetchRaises, Grounded, TypeOK
  <2>7. QED BY <1>3, <2>4, <2>5, <2>6, RunEnds DEF FetchRaises
<1>4. ASSUME NEW kind \in Direct, Fetch(r, kind) PROVE IInv'
  <2>1. PICK copy \in CopyAtLock(r) :
           /\ cyc' = Written(cyc, copy, Linked(copy))
           /\ page' = [page EXCEPT ![PageOf(copy)] = Observed(kind, site[PageOf(copy)])]
           /\ run' = [run EXCEPT ![r] = Fetched(run[r].at, Linked(copy),
                                                page[PageOf(copy)].hash)]
    BY <1>4 DEF Fetch
  <2>2. copy \in Cycle /\ Grounded(copy) /\ run[r].at \in 0..MaxTime
    BY <1>4, RunCopies DEF Fetch, CopyAtLock, TypeOK, CopiesGrounded
  <2>3. Linked(copy) \in Cycle /\ Grounded(Linked(copy)) /\ PageOf(copy) \in Urls
    BY <2>2, LinkedCycle DEF Grounded
  <2>4. cyc' \in Cycle /\ Grounded(cyc')
    BY <2>1, <2>2, <2>3, WrittenCycle, WrittenGrounded DEF TypeOK
  <2>5. Observed(kind, site[PageOf(copy)]) \in SourcePage
    BY <2>3, ObservedPage DEF TypeOK
  <2>6. page[PageOf(copy)].hash \in Hashes
    BY <2>3 DEF TypeOK, SourcePage
  <2>7. page' \in [Urls -> SourcePage]
    BY <2>1, <2>3, <2>5 DEF TypeOK
  <2> DEFINE f == Fetched(run[r].at, Linked(copy), page[PageOf(copy)].hash)
  <2>8. f \in RunState /\ f.copy = Linked(copy)
    BY <2>2, <2>3, <2>6, RunStates
  <2>9. run' = [run EXCEPT ![r] = f]
    BY <2>1
  <2> HIDE DEF f
  <2>10. TypeOK'
    BY <1>4, <2>4, <2>7, <2>8, <2>9 DEF Fetch, TypeOK
  <2>11. CopiesGrounded'
    BY <1>4, <2>3, <2>8, <2>9 DEF Fetch, TypeOK, CopiesGrounded, Grounded
  <2>12. QED BY <1>4, <2>4, <2>10, <2>11 DEF Fetch, Grounded
<1>5. ASSUME Judge(r) PROVE IInv'
  <2> DEFINE copy == run[r].copy
             at == run[r].at
  <2>1. copy \in Cycle /\ Grounded(copy) /\ at \in 0..MaxTime /\ at \in Nat
    BY <1>5, RunCopies, FreshnessAssumption DEF Judge, CopiesGrounded
  <2>2. cyc' = cyc \/ cyc' = Written(cyc, copy, Renewed(copy, at))
    BY <1>5 DEF Judge
  <2>3. Renewed(copy, at) \in Cycle /\ Grounded(Renewed(copy, at))
    BY <2>1, RenewedCycle DEF Grounded
  <2>4. PageOf(copy) \in Urls
    BY <2>1, LinkedCycle
  <2>5. task' \in Reasons \cup {"none"}
    BY <1>5 DEF Judge, DeferOrFlag, OpenTask, Reasons, TypeOK
  <2>7. vouched' = vouched
    BY <1>5 DEF Judge
  <2> HIDE DEF copy, at
  <2> DEFINE new == Renewed(copy, at)
  <2> HIDE DEF new
  <2>8. cyc' \in Cycle /\ Grounded(cyc')
    <3>1. cyc \in Cycle /\ Grounded(cyc)
      BY DEF TypeOK
    <3>2. new \in Cycle /\ Grounded(new)
      BY <2>3 DEF new
    <3>3. Written(cyc, copy, new) \in Cycle /\ Grounded(Written(cyc, copy, new))
      BY <2>1, <3>1, <3>2, WrittenCycle, WrittenGrounded
    <3>4. QED BY <2>2, <3>1, <3>3 DEF new
  <2>9. Grounded(cyc)'
    BY <2>7, <2>8 DEF Grounded
  <2>10. QED BY <1>5, <2>5, <2>8, <2>9, RunEnds DEF Judge
<1>6. ASSUME AskJina(r) PROVE IInv'
  <2>1. PICK copy \in CopyAtLock(r) :
           /\ cyc' = Written(cyc, copy, Linked(copy))
           /\ run' = [run EXCEPT ![r] = Asking(run[r].at, Linked(copy), page[PageOf(copy)])]
    BY <1>6 DEF AskJina
  <2>2. copy \in Cycle /\ Grounded(copy) /\ run[r].at \in 0..MaxTime
    BY <1>6, RunCopies DEF AskJina, CopyAtLock, TypeOK, CopiesGrounded
  <2>3. Linked(copy) \in Cycle /\ Grounded(Linked(copy)) /\ PageOf(copy) \in Urls
    BY <2>2, LinkedCycle DEF Grounded
  <2>4. cyc' \in Cycle /\ Grounded(cyc')
    BY <2>1, <2>2, <2>3, WrittenCycle, WrittenGrounded DEF TypeOK
  <2>5. page[PageOf(copy)] \in SourcePage
    BY <2>3 DEF TypeOK
  <2> DEFINE f == Asking(run[r].at, Linked(copy), page[PageOf(copy)])
  <2>6. f \in RunState /\ f.copy = Linked(copy)
    BY <2>2, <2>3, <2>5, RunStates
  <2>7. run' = [run EXCEPT ![r] = f]
    BY <2>1
  <2> HIDE DEF f
  <2>8. TypeOK'
    BY <1>6, <2>4, <2>6, <2>7 DEF AskJina, TypeOK
  <2>9. CopiesGrounded'
    BY <1>6, <2>3, <2>6, <2>7 DEF AskJina, TypeOK, CopiesGrounded, Grounded
  <2>10. QED BY <1>6, <2>4, <2>8, <2>9 DEF AskJina, Grounded
<1>7. ASSUME NEW kind \in Fallback, JinaEnds(r, kind) PROVE IInv'
  <2> DEFINE u == PageOf(run[r].copy)
             seen == Observed(kind, site[u])
             f == Fetched(run[r].at, run[r].copy, run[r].loaded.hash)
  <2>1. /\ run[r].pc = "asking"
        /\ page' = [page EXCEPT ![u] = Written(page[u], run[r].loaded, seen)]
        /\ run' = [run EXCEPT ![r] = f]
        /\ UNCHANGED <<now, schol, cyc, site, task, admin, vouched>>
    BY <1>7 DEF JinaEnds
  <2>2. /\ run[r].copy \in Cycle /\ Grounded(run[r].copy)
        /\ run[r].at \in 0..MaxTime /\ run[r].loaded \in SourcePage
    BY <2>1, RunCopies DEF CopiesGrounded
  <2>3. u \in Urls
    BY <2>2, LinkedCycle
  <2>4. Written(page[u], run[r].loaded, seen) \in SourcePage
    <3>1. page[u] \in SourcePage /\ site[u] \in Contents
      BY <2>3 DEF TypeOK
    <3>2. QED  BY <3>1, ObservedPage
  <2>5. run[r].loaded.hash \in Hashes
    BY <2>2 DEF SourcePage
  <2>6. f \in RunState /\ f.copy = run[r].copy
    BY <2>2, <2>5, RunStates
  <2> HIDE DEF f, seen, u
  <2>7. page' \in [Urls -> SourcePage]
    BY <2>1, <2>3, <2>4 DEF TypeOK
  <2>8. TypeOK'
    BY <2>1, <2>6, <2>7 DEF TypeOK
  <2>9. CopiesGrounded'
    BY <2>1, <2>2, <2>6 DEF TypeOK, CopiesGrounded, Grounded
  <2>10. QED BY <2>1, <2>8, <2>9 DEF Grounded
<1>8. ASSUME JinaRaises(r) PROVE IInv'
  <2>1. task' \in Reasons \cup {"none"}
    BY <1>8 DEF JinaRaises, DeferOrFlag, OpenTask, Reasons, TypeOK
  <2>2. QED BY <1>8, <2>1, RunEnds DEF JinaRaises, TypeOK, Grounded
<1>9. QED BY <1>1, <1>2, <1>3, <1>4, <1>5, <1>6, <1>7, <1>8 DEF Reverify

LEMMA NextIInv == IInv /\ [Next]_vars => IInv'
<1> SUFFICES ASSUME IInv, [Next]_vars PROVE IInv'
  OBVIOUS
<1> USE DEF IInv
<1>1. ASSUME Refresh PROVE IInv'
  <2>1. now \in Nat
    BY FreshnessAssumption DEF TypeOK
  <2>2. cyc' \in Cycle /\ Grounded(cyc')
    BY <1>1, <2>1, RefreshedCycle DEF Refresh, TypeOK, Grounded
  <2>3. QED BY <1>1, <2>2 DEF Refresh, TypeOK, CopiesGrounded, Grounded
<1>2. ASSUME NEW u \in Urls, ProviderEdits(u) PROVE IInv'
  BY <1>2 DEF ProviderEdits, TypeOK, CopiesGrounded, Grounded
<1>3. ASSUME Tick PROVE IInv'
  BY <1>3, FreshnessAssumption DEF Tick, TypeOK, CopiesGrounded, Grounded
<1>4. CASE UNCHANGED vars
  BY <1>4 DEF vars, TypeOK, CopiesGrounded, Grounded
<1>5. QED BY <1>1, <1>2, <1>3, <1>4, ReviewerIInv, ReverifyIInv DEF Next

LEMMA AlwaysIInv == Spec => []IInv
BY InitIInv, NextIInv, PTL DEF Spec

-----------------------------------------------------------------------------

\* Every variable keeps its type in every behaviour.
THEOREM TypeCorrect == Spec => []TypeOK
BY AlwaysIInv, PTL DEF IInv

\* No job ever opens a cycle that no reviewer had set open, however its runs
\* overlap and however old the copies are on which they act.
THEOREM JobsOnlyRestore == Spec => []OpenOnlyIfVouched
<1>1. IInv => OpenOnlyIfVouched
  BY DEF IInv, Grounded, OpenOnlyIfVouched
<1>2. QED BY <1>1, AlwaysIInv, PTL

\* A reviewer's request holds the scholarship's row and has refused a withdrawn
\* one, so nobody withdraws the scholarship under it.
RowHeld == admin.op # "none" => schol # "withdrawn"

LEMMA AlwaysRowHeld == Spec => []RowHeld
<1>1. Init => RowHeld
  BY DEF Init, RowHeld, NoRequest
<1>2. RowHeld /\ [Next]_vars => RowHeld'
  <2> SUFFICES ASSUME RowHeld, [Next]_vars PROVE RowHeld'
    OBVIOUS
  <2> USE DEF RowHeld, NoRequest, Request
  <2>1. ASSUME Reviewer PROVE RowHeld'
    <3>1. ASSUME NEW s \in Status, NEW d \in Instants \cup {NoTime},
                 NEW u \in Instants \cup {NoTime}, NEW v \in {NoTime, now},
                 Publish(s, d, u, v)
          PROVE  RowHeld'
      BY <3>1 DEF Publish
    <3>2. CASE BeginUpdate \/ BeginWithdraw
      BY <3>2 DEF BeginUpdate, BeginWithdraw
    <3>3. CASE CommitUpdate \/ CommitWithdraw \/ AbortRequest
      BY <3>3 DEF CommitUpdate, CommitWithdraw, AbortRequest
    <3>4. CASE ResolveTask
      BY <3>4 DEF ResolveTask
    <3>5. QED BY <2>1, <3>1, <3>2, <3>3, <3>4 DEF Reviewer
  <2>2. ASSUME ~Reviewer PROVE RowHeld'
    BY <2>2 DEF Next, Refresh, Reverify, Scan, SkipWithdrawn, FetchRaises, Fetch, AskJina,
                JinaEnds, JinaRaises, Judge, AbortRun, ProviderEdits, Tick, vars
  <2>3. QED BY <2>1, <2>2
<1>3. QED BY <1>1, <1>2, PTL DEF Spec

\* A flush writes a status only if it differs from the one that was loaded.
LEMMA WrittenOpens ==
    ASSUME NEW stored \in Cycle, NEW loaded \in Cycle, NEW new \in Cycle,
           stored.status # "open_verified",
           Written(stored, loaded, new).status = "open_verified"
    PROVE  new.status = "open_verified" /\ loaded.status # "open_verified"
<1>1. "status" \in DOMAIN stored
  BY DEF Cycle
<1>2. Written(stored, loaded, new)["status"] =
        IF new["status"] # loaded["status"] THEN new["status"] ELSE stored["status"]
  BY <1>1 DEF Written
<1>3. QED BY <1>2

\* What a step may do to a withdrawn scholarship.
LeftAlone ==
    /\ schol' = "withdrawn"
    /\ AwaitingVerdict' \subseteq AwaitingVerdict
    /\ cyc.status # "open_verified" /\ cyc'.status = "open_verified" =>
          \E r \in AwaitingVerdict \ AwaitingVerdict' :
             run[r].copy.status = "status_unknown" /\ run[r].copy.auto

LEMMA ReverifyLeavesAlone ==
    ASSUME IInv, schol = "withdrawn", NEW r \in Runs, Reverify(r)
    PROVE  LeftAlone
<1> USE DEF IInv
<1>1. ASSUME SkipWithdrawn(r) \/ AbortRun(r) \/ JinaRaises(r) PROVE LeftAlone
  <2>1. run' = [run EXCEPT ![r] = NoRun] /\ cyc' = cyc /\ schol' = schol
    BY <1>1 DEF SkipWithdrawn, AbortRun, JinaRaises
  <2>2. AwaitingVerdict' \subseteq AwaitingVerdict
    BY <2>1, RunStates DEF AwaitingVerdict, TypeOK
  <2>3. QED BY <2>1, <2>2 DEF LeftAlone
<1>2. ASSUME Judge(r) PROVE LeftAlone
  <2> DEFINE copy == run[r].copy
             at == run[r].at
  <2>1. copy \in Cycle /\ at \in Nat
    BY <1>2, RunCopies, FreshnessAssumption DEF Judge
  <2>2. cyc' = cyc \/ cyc' = Written(cyc, copy, Renewed(copy, at))
    BY <1>2 DEF Judge
  <2>3. run' = [run EXCEPT ![r] = NoRun] /\ schol' = schol /\ run[r].pc = "fetched"
    BY <1>2 DEF Judge
  <2>4. AwaitingVerdict' = AwaitingVerdict \ {r} /\ r \in AwaitingVerdict
    BY <2>3, RunStates DEF AwaitingVerdict, TypeOK
  <2>5. ASSUME cyc.status # "open_verified", cyc'.status = "open_verified"
        PROVE  copy.status = "status_unknown" /\ copy.auto
    <3>1. Renewed(copy, at) \in Cycle
      BY <2>1, RenewedCycle
    <3>2. /\ Renewed(copy, at).status = "open_verified"
          /\ copy.status # "open_verified"
      BY <2>1, <2>2, <2>5, <3>1, WrittenOpens DEF TypeOK
    <3>3. QED BY <2>1, <3>2 DEF Renewed, Cycle
  <2>6. r \in AwaitingVerdict \ AwaitingVerdict'
    BY <2>4
  <2>7. QED BY <2>3, <2>4, <2>5, <2>6 DEF LeftAlone
<1>3. ASSUME NEW kind \in Fallback, JinaEnds(r, kind) PROVE LeftAlone
  <2>1. /\ run' = [run EXCEPT ![r] = Fetched(run[r].at, run[r].copy, run[r].loaded.hash)]
        /\ cyc' = cyc /\ schol' = schol /\ run[r].pc = "asking"
    BY <1>3 DEF JinaEnds
  <2>2. AwaitingVerdict' \subseteq AwaitingVerdict
    BY <2>1 DEF AwaitingVerdict, TypeOK
  <2>3. QED BY <2>1, <2>2 DEF LeftAlone
<1>4. QED BY <1>1, <1>2, <1>3 DEF Reverify, Scan, FetchRaises, Fetch, AskJina

\* A withdrawn scholarship stays withdrawn, since the lock on its row orders
\* the withdrawal with every publication and correction; and of the jobs only
\* the verdicts on pages fetched before can still touch its cycle.
THEOREM WithdrawnForGood == Spec => WithdrawalIsFinal
<1>1. IInv /\ RowHeld /\ [Next]_vars => [schol = "withdrawn" => LeftAlone]_vars
  <2> SUFFICES ASSUME IInv, RowHeld, [Next]_vars, schol = "withdrawn", ~UNCHANGED vars
               PROVE  LeftAlone
    OBVIOUS
  <2>1. ASSUME Reviewer PROVE LeftAlone
    <3>1. UNCHANGED <<schol, cyc, run>>
      BY <2>1 DEF Reviewer, Publish, Publishable, BeginUpdate, CommitUpdate, BeginWithdraw,
                  CommitWithdraw, AbortRequest, ResolveTask, RowHeld
    <3>2. QED BY <3>1 DEF LeftAlone, AwaitingVerdict
  <2>2. ASSUME (\E u \in Urls : ProviderEdits(u)) \/ Tick PROVE LeftAlone
    BY <2>2 DEF ProviderEdits, Tick, LeftAlone, AwaitingVerdict
  <2>3. QED BY <2>1, <2>2, ReverifyLeavesAlone DEF Next, Refresh
<1>2. QED BY <1>1, AlwaysIInv, AlwaysRowHeld, PTL DEF Spec, WithdrawalIsFinal, LeftAlone

-----------------------------------------------------------------------------
(* What becomes of a restore.  refresh_status writes the bound and the mark *)
(* in one flush, the bound being in the past by then, and a restore leaves  *)
(* the bound alone.                                                         *)

\* No reviewer corrects a status or its bound.
HandsOff == Correctable \cap {"status", "validUntil"} = {}

\* A marked row is unknown, and the bound stored beside it has passed, unless
\* the withdrawal has cleared it.
MarkedIsLapsed ==
    cyc.auto => /\ schol # "needs_review"
                /\ cyc.status = "status_unknown"
                /\ schol = "published" => cyc.validUntil # NoTime /\ cyc.validUntil <= now

\* A step that marks no row, opens no marked one and leaves the bound of a
\* published one alone.
LEMMA LapsedStays ==
    ASSUME TypeOK, MarkedIsLapsed, now' \in Nat, now' >= now, cyc' \in Cycle,
           cyc'.auto => cyc.auto,
           cyc'.auto => cyc'.status \in {cyc.status, "status_unknown"},
           schol' \in {schol, "withdrawn"},
           schol' = "published" => cyc'.validUntil = cyc.validUntil
    PROVE  MarkedIsLapsed'
<1>1. now \in Int /\ cyc.validUntil \in Int
  BY FreshnessAssumption DEF TypeOK, Cycle, Time, NoTime
<1>2. QED BY <1>1 DEF MarkedIsLapsed, TypeOK

\* The three columns of a flush that matter here.
LEMMA WrittenColumns ==
    ASSUME NEW stored \in Cycle, NEW loaded, NEW new
    PROVE  LET w == Written(stored, loaded, new) IN
           /\ w.status = IF new.status # loaded.status THEN new.status ELSE stored.status
           /\ w.auto = IF new.auto # loaded.auto THEN new.auto ELSE stored.auto
           /\ w.validUntil = IF new.validUntil # loaded.validUntil
                             THEN new.validUntil ELSE stored.validUntil
<1>1. {"status", "auto", "validUntil"} \subseteq DOMAIN stored
  BY DEF Cycle
<1>2. \A f \in DOMAIN stored : Written(stored, loaded, new)[f] =
         IF new[f] # loaded[f] THEN new[f] ELSE stored[f]
  BY DEF Written
<1>3. QED BY <1>1, <1>2

\* Recomputing marks a row only together with a bound that has passed.
LEMMA RefreshedLapses ==
    ASSUME NEW c \in Cycle, NEW t \in Nat, Refreshed(c, t).auto,
           c.status # "open_verified" \/ ~c.auto
    PROVE  \/ Refreshed(c, t) = c
           \/ /\ Refreshed(c, t).status = "status_unknown"
              /\ Refreshed(c, t).validUntil # NoTime
              /\ Refreshed(c, t).validUntil <= t
<1>1. CASE c.status # "open_verified"
  BY <1>1 DEF Refreshed
<1>2. CASE c.status = "open_verified"
  <2> DEFINE bound == Sooner(EvidenceDeadline(c, t), c.deadline)
  <2>1. bound \in Nat /\ bound <= EvidenceDeadline(c, t) /\ EvidenceDeadline(c, t) \in Nat
    BY EvidenceNat DEF Sooner, Time, NoTime, Cycle
  <2>2. /\ Stale(c, t)
        /\ Refreshed(c, t) = [c EXCEPT !.validUntil = bound,
                                       !.status = "status_unknown", !.auto = TRUE]
    BY <1>2 DEF Refreshed, Cycle
  <2>3. bound <= t
    BY <2>1, <2>2 DEF Stale
  <2> HIDE DEF bound
  <2>4. QED BY <2>1, <2>2, <2>3 DEF Cycle, NoTime
<1>3. QED BY <1>1, <1>2

LEMMA ReviewerLapses ==
    ASSUME HandsOff, IInv, IInv', MarkedIsLapsed, Reviewer PROVE MarkedIsLapsed'
<1> USE DEF IInv
<1>1. ASSUME NEW s \in Status, NEW d \in Instants \cup {NoTime},
             NEW u \in Instants \cup {NoTime}, NEW v \in {NoTime, now}, Publish(s, d, u, v)
      PROVE  MarkedIsLapsed'
  <2>1. cyc'.auto = cyc.auto
    BY <1>1 DEF Publish, TypeOK, Cycle
  <2>2. QED BY <1>1, <2>1 DEF Publish, Publishable, MarkedIsLapsed
<1>2. CASE BeginUpdate \/ BeginWithdraw \/ AbortRequest \/ ResolveTask
  BY <1>2 DEF BeginUpdate, BeginWithdraw, AbortRequest, ResolveTask, MarkedIsLapsed
<1>3. CASE CommitUpdate
  <2>1. admin.copy \in Cycle
    BY <1>3, RequestCopies DEF CommitUpdate
  <2>2. PICK new \in Corrections(admin.copy) : cyc' = Written(cyc, admin.copy, new)
    BY <1>3 DEF CommitUpdate
  <2>3. PICK f \in Correctable : \E v \in Entered(f) : new = [admin.copy EXCEPT ![f] = v]
    BY <2>2 DEF Corrections
  <2>4. f \in {"url", "deadline", "verifiedAt"}
    BY <2>3, FreshnessAssumption DEF HandsOff
  <2>5. /\ new.status = admin.copy.status /\ new.auto = admin.copy.auto
        /\ new.validUntil = admin.copy.validUntil
    BY <2>1, <2>3, <2>4 DEF Cycle
  <2>6. /\ cyc'.status = cyc.status /\ cyc'.auto = cyc.auto
        /\ cyc'.validUntil = cyc.validUntil
    BY <2>2, <2>5, WrittenColumns DEF TypeOK
  <2>7. QED BY <1>3, <2>6 DEF CommitUpdate, MarkedIsLapsed
<1>4. CASE CommitWithdraw
  <2> DEFINE new == [admin.copy EXCEPT !.status = "status_unknown", !.validUntil = NoTime]
  <2>1. admin.copy \in Cycle
    BY <1>4, RequestCopies DEF CommitWithdraw
  <2>2. new.auto = admin.copy.auto /\ new.status = "status_unknown"
    BY <2>1 DEF Cycle
  <2>3. cyc' = Written(cyc, admin.copy, new) /\ schol' = "withdrawn"
    BY <1>4 DEF CommitWithdraw
  <2> HIDE DEF new
  <2>4. cyc'.auto = cyc.auto /\ cyc'.status \in {cyc.status, "status_unknown"}
    BY <2>2, <2>3, WrittenColumns DEF TypeOK
  <2>5. QED BY <2>3, <2>4 DEF MarkedIsLapsed
<1>5. QED BY <1>1, <1>2, <1>3, <1>4 DEF Reviewer

LEMMA ReverifyLapses ==
    ASSUME IInv, IInv', MarkedIsLapsed, NEW r \in Runs, Reverify(r) PROVE MarkedIsLapsed'
<1> USE DEF IInv
<1>1. now \in Nat /\ now' = now /\ schol' = schol /\ cyc' \in Cycle
  BY FreshnessAssumption DEF TypeOK, Reverify, Scan, SkipWithdrawn, FetchRaises, Fetch, AskJina,
     JinaEnds, JinaRaises, Judge, AbortRun
<1>2. CASE \/ Scan(r) \/ SkipWithdrawn(r) \/ AbortRun(r) \/ JinaRaises(r)
           \/ \E kind \in Fallback : JinaEnds(r, kind)
  BY <1>1, <1>2 DEF Scan, SkipWithdrawn, AbortRun, JinaRaises, JinaEnds, MarkedIsLapsed
<1>3. CASE FetchRaises(r) \/ AskJina(r) \/ \E kind \in Direct : Fetch(r, kind)
  <2>1. PICK copy \in CopyAtLock(r) : cyc' = Written(cyc, copy, Linked(copy))
    BY <1>3 DEF FetchRaises, AskJina, Fetch
  <2>2. copy \in Cycle
    BY <1>3, RunCopies DEF FetchRaises, AskJina, Fetch, CopyAtLock, TypeOK
  <2>3. /\ Linked(copy).status = copy.status /\ Linked(copy).auto = copy.auto
        /\ Linked(copy).validUntil = copy.validUntil
    BY <2>2 DEF Linked, Cycle
  <2>4. /\ cyc'.status = cyc.status /\ cyc'.auto = cyc.auto
        /\ cyc'.validUntil = cyc.validUntil
    BY <2>1, <2>3, WrittenColumns DEF TypeOK
  <2>5. QED BY <1>1, <2>4 DEF MarkedIsLapsed
<1>4. CASE Judge(r)
  <2> DEFINE copy == run[r].copy
             new == Renewed(copy, run[r].at)
  <2>1. copy \in Cycle
    BY <1>4, RunCopies DEF Judge
  <2>2. cyc' = cyc \/ cyc' = Written(cyc, copy, new)
    BY <1>4 DEF Judge
  <2>3. /\ new.validUntil = copy.validUntil
        /\ new.auto # copy.auto => ~new.auto
        /\ new.status # copy.status => new.auto # copy.auto
    BY <2>1 DEF Renewed, Cycle
  <2> HIDE DEF copy, new
  <2>4. /\ cyc'.validUntil = cyc.validUntil
        /\ cyc'.auto => cyc.auto /\ cyc'.status = cyc.status
    BY <2>2, <2>3, WrittenColumns DEF TypeOK
  <2>5. QED BY <1>1, <2>4 DEF MarkedIsLapsed
<1>5. QED BY <1>2, <1>3, <1>4 DEF Reverify

LEMMA AlwaysLapsed == ASSUME HandsOff PROVE Spec => []MarkedIsLapsed
<1>1. Init => MarkedIsLapsed
  BY DEF Init, MarkedIsLapsed, Unpublished
<1>2. IInv /\ IInv' /\ MarkedIsLapsed /\ [Next]_vars => MarkedIsLapsed'
  <2> SUFFICES ASSUME IInv, IInv', MarkedIsLapsed, [Next]_vars PROVE MarkedIsLapsed'
    OBVIOUS
  <2>1. CASE Refresh
    <3>1. now \in Nat /\ cyc \in Cycle /\ now' = now /\ schol' = "published"
      BY <2>1, FreshnessAssumption DEF Refresh, IInv, TypeOK
    <3>2. cyc.status # "open_verified" \/ ~cyc.auto
      BY DEF MarkedIsLapsed
    <3>3. ASSUME cyc'.auto PROVE MarkedIsLapsed'
      <4>1. \/ cyc' = cyc
            \/ /\ cyc'.status = "status_unknown"
               /\ cyc'.validUntil # NoTime /\ cyc'.validUntil <= now
        BY <2>1, <3>1, <3>2, <3>3, RefreshedLapses DEF Refresh
      <4>2. CASE cyc' = cyc
        BY <2>1, <3>1, <4>2 DEF Refresh, MarkedIsLapsed
      <4>3. QED BY <3>1, <4>1, <4>2 DEF MarkedIsLapsed
    <3>4. QED BY <3>3 DEF MarkedIsLapsed
  <2>2. CASE (\E u \in Urls : ProviderEdits(u)) \/ Tick
    <3>1. /\ now' \in Nat /\ now' >= now /\ cyc' = cyc /\ schol' = schol
      BY <2>2, FreshnessAssumption DEF ProviderEdits, Tick, IInv, TypeOK
    <3>2. QED BY <3>1, LapsedStays DEF IInv, TypeOK
  <2>3. CASE UNCHANGED vars
    BY <2>3 DEF vars, MarkedIsLapsed
  <2>4. QED BY <2>1, <2>2, <2>3, ReviewerLapses, ReverifyLapses, HandsOff DEF Next
<1>3. QED BY <1>1, <1>2, AlwaysIInv, PTL DEF Spec

\* A step that opens a marked row is a verdict, which clears the mark and leaves
\* the bound.
LEMMA RestoreKeepsBound ==
    ASSUME HandsOff, IInv, MarkedIsLapsed, Next, schol = "published", cyc.auto,
           cyc'.status = "open_verified"
    PROVE  cyc'.validUntil = cyc.validUntil /\ ~cyc'.auto /\ now' = now
<1> USE DEF IInv
<1>1. cyc.status = "status_unknown" /\ cyc \in Cycle /\ now \in Nat
  BY FreshnessAssumption DEF MarkedIsLapsed, TypeOK
<1>2. ~Refresh
  BY <1>1, RefreshedCycle DEF Refresh
<1>3. ~Reviewer
  <2>1. ASSUME CommitUpdate PROVE FALSE
    <3>1. admin.copy \in Cycle
      BY <2>1, RequestCopies DEF CommitUpdate
    <3>2. PICK new \in Corrections(admin.copy) : cyc' = Written(cyc, admin.copy, new)
      BY <2>1 DEF CommitUpdate
    <3>3. PICK f \in Correctable : \E v \in Entered(f) : new = [admin.copy EXCEPT ![f] = v]
      BY <3>2 DEF Corrections
    <3>4. new.status = admin.copy.status
      BY <3>1, <3>3 DEF HandsOff, Cycle
    <3>5. QED BY <1>1, <3>2, <3>4, WrittenColumns
  <2>2. ASSUME CommitWithdraw PROVE FALSE
    <3>1. admin.copy \in Cycle
      BY <2>2, RequestCopies DEF CommitWithdraw
    <3> DEFINE new == [admin.copy EXCEPT !.status = "status_unknown",
                                         !.validUntil = NoTime]
    <3>2. new.status = "status_unknown" /\ cyc' = Written(cyc, admin.copy, new)
      BY <2>2, <3>1 DEF CommitWithdraw, Cycle
    <3> HIDE DEF new
    <3>3. cyc'.status \in {cyc.status, "status_unknown"}
      BY <1>1, <3>2, WrittenColumns
    <3>4. QED BY <1>1, <3>3
  <2>3. QED BY <1>1, <2>1, <2>2 DEF Reviewer, Publish, Publishable, BeginUpdate,
               BeginWithdraw, AbortRequest, ResolveTask
<1>4. PICK r \in Runs : Reverify(r)
  BY <1>1, <1>2, <1>3 DEF Next, ProviderEdits, Tick
<1>5. ASSUME FetchRaises(r) \/ AskJina(r) \/ \E kind \in Direct : Fetch(r, kind) PROVE FALSE
  <2>1. PICK copy \in CopyAtLock(r) : cyc' = Written(cyc, copy, Linked(copy))
    BY <1>5 DEF FetchRaises, AskJina, Fetch
  <2>2. Linked(copy).status = copy.status
    BY <1>1, <1>5, RunCopies, LinkedCycle, <2>1 DEF FetchRaises, AskJina, Fetch, CopyAtLock
  <2>3. QED BY <1>1, <2>1, <2>2, WrittenColumns
<1>6. Judge(r)
  BY <1>1, <1>4, <1>5 DEF Reverify, Scan, SkipWithdrawn, AbortRun, JinaRaises, JinaEnds
<1> DEFINE copy == run[r].copy
           new == Renewed(copy, run[r].at)
<1>7. copy \in Cycle
  BY <1>6, RunCopies DEF Judge
<1>8. cyc' = Written(cyc, copy, new) /\ now' = now
  BY <1>1, <1>6 DEF Judge
<1>9. /\ new.validUntil = copy.validUntil
      /\ new.status # copy.status => new.auto # copy.auto /\ ~new.auto
  BY <1>7 DEF Renewed, Cycle
<1> HIDE DEF copy, new
<1>10. QED BY <1>1, <1>8, <1>9, WrittenColumns

\* A restore of a marked cycle (_reverify_one_cycle) is not seen: the verdict
\* leaves the passed bound beside the status it writes, so from then on
\* evaluate_public_status goes on answering "unknown", and the next run of
\* refresh_status, whenever it comes, takes the status back without the mark.
RestoreIsNotShown ==
    [][schol = "published" /\ cyc.auto /\ cyc'.status = "open_verified" =>
         \A t \in Nat : t >= now' => /\ Shown(cyc', t) = "status_unknown"
                                     /\ Refreshed(cyc', t).status = "status_unknown"
                                     /\ ~Refreshed(cyc', t).auto]_vars

\* Where no reviewer corrects statuses and their bounds by hand, the restore of
\* a marked cycle by _reverify_one_cycle is shown to no reader and does not
\* outlast the next refresh_status.
THEOREM RestoresUnseen == ASSUME HandsOff PROVE Spec => RestoreIsNotShown
<1> DEFINE Unseen == schol = "published" /\ cyc.auto /\ cyc'.status = "open_verified" =>
               \A t \in Nat : t >= now' => /\ Shown(cyc', t) = "status_unknown"
                                           /\ Refreshed(cyc', t).status = "status_unknown"
                                           /\ ~Refreshed(cyc', t).auto
<1>1. IInv /\ IInv' /\ MarkedIsLapsed /\ [Next]_vars => [Unseen]_vars
  <2> SUFFICES ASSUME IInv, IInv', MarkedIsLapsed, Next, schol = "published", cyc.auto,
                      cyc'.status = "open_verified", NEW t \in Nat, t >= now'
               PROVE  /\ Shown(cyc', t) = "status_unknown"
                      /\ Refreshed(cyc', t).status = "status_unknown"
                      /\ ~Refreshed(cyc', t).auto
    OBVIOUS
  <2>1. cyc'.validUntil = cyc.validUntil /\ ~cyc'.auto /\ now' = now
    BY RestoreKeepsBound, HandsOff
  <2>2. now \in Int /\ cyc' \in Cycle /\ cyc.validUntil \in Int
    BY FreshnessAssumption DEF IInv, TypeOK, Cycle, Time, NoTime
  <2>3. cyc'.validUntil # NoTime /\ cyc'.validUntil <= t
    BY <2>1, <2>2 DEF MarkedIsLapsed
  <2>4. Shown(cyc', t) = "status_unknown"
    BY <2>3 DEF Shown
  <2>5. Refreshed(cyc', t) =
          [[cyc' EXCEPT !.validUntil = Sooner(EvidenceDeadline(cyc', t), cyc'.deadline)]
             EXCEPT !.status = "status_unknown"]
    BY <2>4 DEF Refreshed
  <2>6. QED BY <2>1, <2>2, <2>4, <2>5 DEF Cycle
<1>2. QED BY <1>1, AlwaysIInv, AlwaysLapsed, PTL DEF Spec, RestoreIsNotShown
=============================================================================
