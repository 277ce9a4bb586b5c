---------------------- MODULE ReadersAndReviewsProofs ----------------------
(***************************************************************************)
(* Theorems about four smaller parts, for all their constants: categories   *)
(* whose names are looked up before they are written, reviews that ask a     *)
(* provider between two batches, the two admission counters, and the readers *)
(* of one ledger, whose authority and whose place in a list may change       *)
(* between any two of their steps.                                           *)
(***************************************************************************)
EXTENDS JevReview, LedgerAccess, RateLimits, Categories,
        FiniteSetTheorems, WellFoundedInduction, TLAPS

-----------------------------------------------------------------------------
(* Categories. What a request holds of the row it read, until its batch.     *)

CatRow == [state : {"unused", "live", "archived", "removed"}, name : Names \cup {Untitled}, rev : Nat]
CatJob == [pc : {"idle", "read", "check", "write"}, kind : {"create", "patch", "archive", "remove"},
           cat : CatIds \cup {Untitled}, name : Names \cup {Untitled}, expected : Nat, row : CatRow]

(* A row may be the one read, or a later revision of it. *)
ReadOf(row, now) == row.rev <= now.rev /\ (row.rev = now.rev => row = now)

JobHolds(j, rows) ==
    /\ j.cat \in CatIds /\ j.name \in Names
    /\ j.kind # "create" => j.expected >= 1
    /\ j.kind = "create" => rows[j.cat] = NoRow
    /\ j.kind # "create" /\ j.pc # "read" =>
         /\ j.row.rev = j.expected
         /\ ReadOf(j.row, rows[j.cat])

Creates(j) == j.pc # "idle" /\ j.kind = "create"

CatInv ==
    /\ cats \in [CatIds -> CatRow] /\ jobs \in [Editors -> CatJob] /\ catAsked \in Nat
    /\ \A c \in CatIds : IF cats[c].state = "unused" THEN cats[c] = NoRow ELSE cats[c].rev >= 1
    /\ \A e \in Editors : jobs[e].pc # "idle" => JobHolds(jobs[e], cats)
    /\ \A e, f \in Editors : e # f /\ Creates(jobs[e]) /\ Creates(jobs[f]) => jobs[e].cat # jobs[f].cat
    /\ NamesDistinct

LEMMA CatTypes == NoRow \in CatRow /\ NoJob \in CatJob /\ NoJob.pc = "idle"
BY DEF NoRow, NoJob, CatRow, CatJob

LEMMA CatFields ==
    /\ \A r \in CatRow : /\ r.state \in {"unused", "live", "archived", "removed"}
                         /\ r.name \in Names \cup {Untitled} /\ r.rev \in Nat
    /\ \A j \in CatJob : /\ j.pc \in {"idle", "read", "check", "write"}
                         /\ j.kind \in {"create", "patch", "archive", "remove"}
                         /\ j.expected \in Nat /\ j.row \in CatRow
BY DEF CatRow, CatJob

(* A step of one request that writes nothing.                                *)
LEMMA JobMoves ==
    ASSUME CatInv, NEW e \in Editors, NEW r \in CatJob, jobs' = [jobs EXCEPT ![e] = r],
           cats' = cats, catAsked' \in Nat,
           r.pc # "idle" => JobHolds(r, cats),
           Creates(r) => \A f \in Editors \ {e} : Creates(jobs[f]) => jobs[f].cat # r.cat
    PROVE  CatInv'
<1>1. /\ jobs \in [Editors -> CatJob] /\ jobs' \in [Editors -> CatJob]
      /\ jobs'[e] = r /\ \A f \in Editors \ {e} : jobs'[f] = jobs[f]
    BY DEF CatInv
<1>2. \A j : JobHolds(j, cats) => JobHolds(j, cats')
    BY DEF JobHolds
<1>3. ASSUME NEW f \in Editors, jobs'[f].pc # "idle" PROVE JobHolds(jobs'[f], cats')
    <2>1. CASE f = e
        BY <1>1, <1>2, <1>3, <2>1
    <2>2. CASE f # e
        BY <1>1, <1>2, <1>3, <2>2 DEF CatInv
    <2> QED BY <2>1, <2>2
<1>4. ASSUME NEW f \in Editors, NEW g \in Editors, f # g, Creates(jobs'[f]), Creates(jobs'[g])
      PROVE  jobs'[f].cat # jobs'[g].cat
    BY <1>1, <1>4 DEF CatInv
<1>5. NamesDistinct'
    BY DEF CatInv, NamesDistinct
<1> QED BY <1>1, <1>3, <1>4, <1>5 DEF CatInv, Creates

LEMMA AskCategoryKeeps == ASSUME CatInv, NEW e \in Editors, AskCategory(e) PROVE CatInv'
<1>1. PICK kind \in {"create", "patch", "archive", "remove"}, c \in CatIds, n \in Names,
           expected \in 1 .. MaxCatRev :
        /\ kind = "create" =>
             /\ cats[c].state = "unused" /\ expected = 1
             /\ \A f \in Editors : jobs[f].kind = "create" => jobs[f].cat # c
        /\ kind \in {"archive", "remove"} => n = cats[c].name
        /\ jobs' = [jobs EXCEPT ![e] = [pc |-> "read", kind |-> kind, cat |-> c, name |-> n,
                                        expected |-> expected, row |-> NoRow]]
    BY DEF AskCategory
<1> DEFINE r == [pc |-> "read", kind |-> kind, cat |-> c, name |-> n, expected |-> expected, row |-> NoRow]
<1>2. expected \in Nat /\ expected >= 1
    OBVIOUS
<1>3. /\ r \in CatJob /\ r.pc = "read" /\ r.kind = kind /\ r.cat = c /\ r.name = n /\ r.expected = expected
    BY <1>2, CatTypes DEF CatJob
<1>4. JobHolds(r, cats)
    BY <1>1, <1>2, <1>3 DEF JobHolds, CatInv
<1>5. Creates(r) => \A f \in Editors \ {e} : Creates(jobs[f]) => jobs[f].cat # r.cat
    BY <1>1, <1>3 DEF Creates
<1>6. cats' = cats /\ catAsked' \in Nat
    BY DEF AskCategory, CatInv
<1> HIDE DEF r
<1>7. jobs' = [jobs EXCEPT ![e] = r]
    BY <1>1 DEF r
<1> QED BY <1>3, <1>4, <1>5, <1>6, <1>7, JobMoves

LEMMA ReadCategoryKeeps == ASSUME CatInv, NEW e \in Editors, ReadCategory(e) PROVE CatInv'
<1> DEFINE row == cats[jobs[e].cat]
<1>1. /\ jobs[e] \in CatJob /\ JobHolds(jobs[e], cats) /\ jobs[e].pc = "read" /\ jobs[e].cat \in CatIds
      /\ row \in CatRow /\ cats' = cats /\ catAsked' \in Nat
    BY DEF ReadCategory, CatInv, JobHolds
<1>2. CASE jobs' = [jobs EXCEPT ![e] = NoJob]
    BY <1>1, <1>2, CatTypes, JobMoves DEF Creates
<1>3. ASSUME NEW pc \in {"check", "write"}, NEW r, r = [jobs[e] EXCEPT !.pc = pc, !.row = row],
             jobs' = [jobs EXCEPT ![e] = r],
             jobs[e].kind # "create" => row.rev = jobs[e].expected
      PROVE  CatInv'
    <2>1. /\ r \in CatJob /\ r.pc = pc /\ r.kind = jobs[e].kind /\ r.cat = jobs[e].cat
          /\ r.name = jobs[e].name /\ r.expected = jobs[e].expected /\ r.row = row
        BY <1>1, <1>3 DEF CatJob
    <2>2. JobHolds(r, cats)
        BY <1>1, <1>3, <2>1, CatFields DEF JobHolds, ReadOf
    <2>3. Creates(r) => \A f \in Editors \ {e} : Creates(jobs[f]) => jobs[f].cat # r.cat
        BY <1>1, <2>1 DEF Creates, CatInv
    <2> QED BY <1>1, <1>3, <2>1, <2>2, <2>3, JobMoves
<1>4. \/ jobs' = [jobs EXCEPT ![e] = NoJob]
      \/ \E pc \in {"check", "write"} :
            /\ jobs' = [jobs EXCEPT ![e] = [jobs[e] EXCEPT !.pc = pc, !.row = row]]
            /\ jobs[e].kind # "create" => row.rev = jobs[e].expected
    BY <1>1, CatFields DEF ReadCategory, Settled
<1> QED BY <1>2, <1>3, <1>4

LEMMA CheckNameKeeps == ASSUME CatInv, NEW e \in Editors, CheckName(e) PROVE CatInv'
<1>1. /\ jobs[e] \in CatJob /\ JobHolds(jobs[e], cats) /\ jobs[e].pc = "check"
      /\ cats' = cats /\ catAsked' \in Nat
    BY DEF CheckName, CatInv
<1>2. CASE jobs' = [jobs EXCEPT ![e] = NoJob]
    BY <1>1, <1>2, CatTypes, JobMoves DEF Creates
<1>3. ASSUME NEW r, r = [jobs[e] EXCEPT !.pc = "write"], jobs' = [jobs EXCEPT ![e] = r]
      PROVE  CatInv'
    <2>1. /\ r \in CatJob /\ r.pc = "write" /\ r.kind = jobs[e].kind /\ r.cat = jobs[e].cat
          /\ r.name = jobs[e].name /\ r.expected = jobs[e].expected /\ r.row = jobs[e].row
        BY <1>1, <1>3 DEF CatJob
    <2>2. JobHolds(r, cats)
        BY <1>1, <2>1 DEF JobHolds
    <2>3. Creates(r) => \A f \in Editors \ {e} : Creates(jobs[f]) => jobs[f].cat # r.cat
        BY <1>1, <2>1 DEF Creates, CatInv
    <2> QED BY <1>1, <1>3, <2>1, <2>2, <2>3, JobMoves
<1> QED BY <1>2, <1>3 DEF CheckName, Advance

LEMMA WrittenRow ==
    ASSUME NEW r \in CatRow, NEW state \in {"archived", "removed"}, NEW name \in Names
    PROVE  /\ [r EXCEPT !.name = name, !.rev = @ + 1] =
                    [state |-> r.state, name |-> name, rev |-> r.rev + 1]
           /\ [r EXCEPT !.state = state, !.rev = @ + 1] =
                    [state |-> state, name |-> r.name, rev |-> r.rev + 1]
<1>1. r = [state |-> r.state, name |-> r.name, rev |-> r.rev]
    BY DEF CatRow
<1>2. ASSUME NEW n, n = [r EXCEPT !.name = name, !.rev = @ + 1]
      PROVE  n = [state |-> r.state, name |-> name, rev |-> r.rev + 1]
    BY <1>1, <1>2
<1>3. ASSUME NEW n, n = [r EXCEPT !.state = state, !.rev = @ + 1]
      PROVE  n = [state |-> state, name |-> r.name, rev |-> r.rev + 1]
    BY <1>1, <1>3
<1> QED BY <1>2, <1>3

(* A batch that fits advances the row it was meant for by one revision.      *)
LEMMA NewCategory ==
    ASSUME CatInv, NEW e \in Editors, CommitCategory(e), Fits(jobs[e], cats[jobs[e].cat])
    PROVE  LET j == jobs[e]
               row == cats[j.cat]
               new == Written(j, row)
           IN  /\ j.cat \in CatIds /\ row \in CatRow /\ new \in CatRow
               /\ new.rev = row.rev + 1 /\ new.state # "unused"
               /\ new.state = "live" => new.name = j.name /\ ~Taken(j.name, j.cat)
               /\ j.kind = "create" <=> row = NoRow
               /\ j.kind # "create" => new.name = (IF j.kind = "patch" THEN j.name ELSE row.name)
               /\ j.kind # "create" => j.row = row
               /\ j.kind = "patch" => row.state = "live"
               /\ j.kind = "archive" => row.state = "live" /\ new.state = "archived"
               /\ j.kind = "remove" => row.state # "removed" /\ new.state = "removed"
               /\ cats' = [cats EXCEPT ![j.cat] = new]
<1> DEFINE j == jobs[e]
           row == cats[j.cat]
           new == Written(j, row)
<1>1. /\ j \in CatJob /\ j.pc = "write" /\ JobHolds(j, cats) /\ j.cat \in CatIds /\ row \in CatRow
      /\ j.name \in Names
    BY DEF CommitCategory, CatInv, JobHolds
<1>2. cats' = [cats EXCEPT ![j.cat] = new]
    BY DEF CommitCategory
<1>3. row.rev \in Nat /\ NoRow.rev = 0 /\ j.kind \in {"create", "patch", "archive", "remove"}
    BY <1>1, CatFields DEF NoRow
<1>4. /\ j.kind = "create" <=> row = NoRow
      /\ j.kind # "create" => j.row = row
    BY <1>1, <1>3 DEF JobHolds, Fits, ReadOf
<1>5. CASE j.kind = "create"
    <2>1. new = [state |-> "live", name |-> j.name, rev |-> 1]
        BY <1>5 DEF Written
    <2>2. ~Taken(j.name, j.cat)
        BY <1>5 DEF Fits
    <2> HIDE DEF new
    <2> QED BY <1>1, <1>2, <1>3, <1>4, <1>5, <2>1, <2>2 DEF CatRow, new
<1>6. CASE j.kind = "patch"
    <2>1. row.state = "live" /\ ~Taken(j.name, j.cat)
        BY <1>6 DEF Fits
    <2>2. new = [state |-> row.state, name |-> j.name, rev |-> row.rev + 1]
        BY <1>1, <1>6, WrittenRow DEF Written
    <2> QED BY <1>1, <1>2, <1>3, <1>4, <1>6, <2>1, <2>2 DEF CatRow
<1>7. CASE j.kind = "archive"
    <2>1. row.state = "live"
        BY <1>7 DEF Fits
    <2>2. new = [state |-> "archived", name |-> row.name, rev |-> row.rev + 1]
        BY <1>1, <1>7, WrittenRow DEF Written
    <2> QED BY <1>1, <1>2, <1>3, <1>4, <1>7, <2>1, <2>2 DEF CatRow
<1>8. CASE j.kind = "remove"
    <2>1. row.state # "removed"
        BY <1>8 DEF Fits
    <2>2. new = [state |-> "removed", name |-> row.name, rev |-> row.rev + 1]
        BY <1>1, <1>8, WrittenRow DEF Written
    <2> QED BY <1>1, <1>2, <1>3, <1>4, <1>8, <2>1, <2>2 DEF CatRow
<1> QED BY <1>3, <1>5, <1>6, <1>7, <1>8

LEMMA CommitCategoryKeeps == ASSUME CatInv, NEW e \in Editors, CommitCategory(e) PROVE CatInv'
<1> DEFINE j == jobs[e]
           row == cats[j.cat]
           new == Written(j, row)
<1>1. /\ jobs' = [jobs EXCEPT ![e] = NoJob] /\ catAsked' \in Nat /\ j \in CatJob
      /\ j.pc = "write" /\ JobHolds(j, cats)
    BY DEF CommitCategory, Advance, CatInv
<1>2. CASE ~Fits(j, row)
    <2>1. cats' = cats
        BY <1>2 DEF CommitCategory
    <2> QED BY <1>1, <2>1, CatTypes, JobMoves DEF Creates
<1>3. CASE Fits(j, row)
    <2>1. /\ j.cat \in CatIds /\ row \in CatRow /\ new \in CatRow
          /\ new.rev = row.rev + 1 /\ new.state # "unused"
          /\ new.state = "live" => new.name = j.name /\ ~Taken(j.name, j.cat)
          /\ j.kind = "create" <=> row = NoRow
          /\ cats' = [cats EXCEPT ![j.cat] = new]
        BY <1>3, NewCategory
    <2> HIDE DEF j, row, new
    <2>2. /\ cats' \in [CatIds -> CatRow] /\ cats'[j.cat] = new /\ row = cats[j.cat]
          /\ \A d \in CatIds : d # j.cat => cats'[d] = cats[d]
        BY <2>1 DEF CatInv, row
    <2>3. /\ jobs' \in [Editors -> CatJob] /\ jobs'[e].pc = "idle" /\ j = jobs[e]
          /\ \A f \in Editors \ {e} : jobs'[f] = jobs[f] /\ jobs[f] \in CatJob
        BY <1>1, CatTypes DEF CatInv, j
    <2>4. ASSUME NEW f \in Editors, jobs'[f].pc # "idle" PROVE JobHolds(jobs'[f], cats')
        <3>1. f # e /\ jobs'[f] = jobs[f] /\ JobHolds(jobs[f], cats) /\ jobs[f] \in CatJob
            BY <2>3, <2>4 DEF CatInv
        <3>2. CASE jobs[f].kind = "create"
            <4>1. cats[jobs[f].cat] = NoRow
                BY <3>1, <3>2 DEF JobHolds
            <4>2. jobs[f].cat # j.cat
                <5>1. CASE j.kind = "create"
                    BY <1>1, <2>3, <2>4, <3>1, <3>2, <5>1 DEF CatInv, Creates
                <5>2. CASE j.kind # "create"
                    BY <2>1, <2>2, <4>1, <5>2
                <5> QED BY <5>1, <5>2
            <4> QED BY <2>2, <3>1, <3>2, <4>1, <4>2 DEF JobHolds
        <3>3. CASE jobs[f].kind # "create"
            <4>1. ReadOf(jobs[f].row, cats[jobs[f].cat]) => ReadOf(jobs[f].row, cats'[jobs[f].cat])
                <5>1. CASE jobs[f].cat = j.cat
                    BY <2>1, <2>2, <3>1, <5>1, CatFields DEF ReadOf
                <5>2. CASE jobs[f].cat # j.cat
                    BY <2>2, <3>1, <5>2 DEF JobHolds
                <5> QED BY <5>1, <5>2
            <4> QED BY <3>1, <3>3, <4>1 DEF JobHolds
        <3> QED BY <3>2, <3>3
    <2>5. \A f, g \in Editors : f # g /\ Creates(jobs'[f]) /\ Creates(jobs'[g])
            => jobs'[f].cat # jobs'[g].cat
        BY <2>3 DEF CatInv, Creates
    <2>6. \A d \in CatIds : IF cats'[d].state = "unused" THEN cats'[d] = NoRow ELSE cats'[d].rev >= 1
        <3>1. new.rev >= 1
            BY <2>1, CatFields
        <3> QED BY <2>1, <2>2, <3>1 DEF CatInv
    <2>7. NamesDistinct'
        <3>1. ASSUME NEW d \in CatIds \ {j.cat}, cats[d].state = "live", new.state = "live"
              PROVE  cats[d].name # new.name
            BY <2>1, <3>1 DEF Taken
        <3> QED BY <2>2, <3>1 DEF CatInv, NamesDistinct
    <2> QED BY <1>1, <2>2, <2>3, <2>4, <2>5, <2>6, <2>7 DEF CatInv
<1> QED BY <1>2, <1>3

LEMMA CategoriesStart == CategoriesInit => CatInv
<1> SUFFICES ASSUME CategoriesInit PROVE CatInv
    OBVIOUS
<1>1. cats \in [CatIds -> CatRow] /\ jobs \in [Editors -> CatJob] /\ catAsked \in Nat
    BY CatTypes DEF CategoriesInit
<1>2. /\ \A c \in CatIds : cats[c] = NoRow
      /\ \A e \in Editors : jobs[e].pc = "idle"
    BY CatTypes DEF CategoriesInit
<1> QED BY <1>1, <1>2 DEF CatInv, Creates, NamesDistinct, NoRow

LEMMA CategoriesStay == CatInv /\ [CategoriesNext]_catVars => CatInv'
<1> SUFFICES ASSUME CatInv, [CategoriesNext]_catVars PROVE CatInv'
    OBVIOUS
<1>1. CASE UNCHANGED catVars
    BY <1>1 DEF catVars, CatInv, JobHolds, NamesDistinct
<1> QED BY <1>1, AskCategoryKeeps, ReadCategoryKeeps, CheckNameKeeps, CommitCategoryKeeps DEF CategoriesNext

LEMMA CategoryStep == CatInv /\ [CategoriesNext]_catVars => LabelsStay /\ NoLostEdit
<1> SUFFICES ASSUME CatInv, [CategoriesNext]_catVars PROVE LabelsStay /\ NoLostEdit
    OBVIOUS
<1>1. CASE cats' = cats
    BY <1>1 DEF LabelsStay, NoLostEdit
<1>2. ASSUME NEW e \in Editors, CommitCategory(e), Fits(jobs[e], cats[jobs[e].cat])
      PROVE  LabelsStay /\ NoLostEdit
    <2> DEFINE j == jobs[e]
               row == cats[j.cat]
               new == Written(j, row)
    <2>1. /\ j.cat \in CatIds /\ row \in CatRow
          /\ j.kind = "create" <=> row = NoRow
          /\ j.kind # "create" => new.name = (IF j.kind = "patch" THEN j.name ELSE row.name)
          /\ j.kind # "create" => j.row = row
          /\ j.kind = "patch" => row.state = "live"
          /\ j.kind = "archive" => row.state = "live"
          /\ j.kind = "remove" => row.state # "removed" /\ new.state = "removed"
          /\ cats' = [cats EXCEPT ![j.cat] = new]
        BY <1>2, NewCategory
    <2>2. j.pc = "write" /\ j.kind \in {"create", "patch", "archive", "remove"} /\ NoRow.state = "unused"
        BY <1>2, CatFields DEF CommitCategory, CatInv, NoRow
    <2> HIDE DEF new
    <2>3. cats'[j.cat] = new /\ \A d \in CatIds : d # j.cat => cats'[d] = cats[d]
        BY <2>1 DEF CatInv
    <2>4. LabelsStay
        BY <2>1, <2>2, <2>3 DEF LabelsStay
    <2>5. NoLostEdit
        BY <2>1, <2>2, <2>3 DEF NoLostEdit
    <2> QED BY <2>4, <2>5
<1>3. \/ cats' = cats
      \/ \E e \in Editors : CommitCategory(e) /\ Fits(jobs[e], cats[jobs[e].cat])
    BY DEF CategoriesNext, catVars, AskCategory, ReadCategory, CheckName, CommitCategory
<1> QED BY <1>1, <1>2, <1>3

\* However the requests of any number of editors interleave, two categories in use
\* never share a name, no edit is lost, and a label is never rewritten
\* (cloudflare_project_api._category_create, _category_patch, _category_delete).
THEOREM CategoriesAreSound == CategoriesSpec => CategoriesHold
<1>1. CategoriesSpec => []CatInv
    BY CategoriesStart, CategoriesStay, PTL DEF CategoriesSpec
<1>2. CatInv => CatTypeOK /\ NamesDistinct
    BY DEF CatInv, CatTypeOK, CatRow, CatJob
<1> QED BY <1>1, <1>2, CategoryStep, PTL DEF CategoriesSpec, CategoriesHold

-----------------------------------------------------------------------------
(* Reviews. What is reserved is asked for once at most: the call that a      *)
(* review may still make counts as made.                                     *)

Owed(k) == IF review.pc = "asking" /\ MonthOf(review.now) = k THEN 1 ELSE 0

JevInv ==
    /\ JevTypeOK
    /\ review.pc = "reserving" => job[Reviewer].kind = "reserve" /\ job[Reviewer].now = review.now
    /\ \A k \in Months : calls[k] + Owed(k) <= reserved[k]

LEMMA MonthsAre == \A t \in Minutes : t \in Nat /\ MonthOf(t) \in Months /\ MonthOf(t) \in Nat
<1>1. \A a \in Nat, b \in Nat \ {0} : a \div b \in Nat
    OBVIOUS
<1> QED BY <1>1, PlanAssumption DEF MonthOf, Months, Minutes

LEMMA IdleIs == Idle \in Job /\ Idle.pc = "idle" /\ NoReview.pc = "idle"
BY PlanAssumption DEF Idle, Job, Kinds, Account, Minutes, NoReview

LEMMA PlanFields ==
    ASSUME PlanTypeOK
    PROVE  /\ clock \in Minutes /\ account \in Account
           /\ \A w \in Workers : /\ job[w] \in Job /\ job[w].now \in Minutes /\ job[w].kind \in Kinds
                                 /\ job[w].account \in Account
           /\ usage # Null =>
                /\ usage.projects \in Nat /\ usage.records \in Nat /\ usage.month \in Nat
                /\ usage.writes \in Nat /\ usage.minute \in Nat /\ usage.minuteWrites \in Nat /\ usage.jev \in Nat
BY DEF PlanTypeOK, Job, Usage

LEMMA ReceiveStep ==
    ASSUME PlanTypeOK, NEW w \in Workers, NEW kind \in Kinds, Receive(w, kind)
    PROVE  /\ PlanTypeOK' /\ UNCHANGED <<tables, clock, history>>
           /\ job'[w].kind = kind /\ job'[w].now = clock
           /\ \A v \in Workers \ {w} : job'[v] = job[v]
<1> DEFINE k == [Idle EXCEPT !.pc = "read", !.kind = kind, !.now = clock, !.account = account]
<1>1. job' = [job EXCEPT ![w] = k] /\ UNCHANGED <<tables, clock, history>>
    BY DEF Receive
<1>2. k \in Job /\ k.now = clock /\ k.kind = kind
    BY IdleIs, PlanFields DEF Job
<1> HIDE DEF k
<1> QED BY <1>1, <1>2 DEF PlanTypeOK, tables, history

LEMMA InspectStep ==
    ASSUME PlanTypeOK, NEW w \in Workers, Inspect(w)
    PROVE  /\ PlanTypeOK' /\ UNCHANGED <<tables, clock, history>>
           /\ job'[w].kind = job[w].kind /\ job'[w].now = job[w].now
           /\ \A v \in Workers \ {w} : job'[v] = job[v]
<1> DEFINE j == job[w]
           a == SeenIn(j, "minute")
           b == SeenIn(j, "month")
           k == [j EXCEPT !.pc = "priced", !.minuteSeen = a, !.monthSeen = b]
<1>1. job' = [job EXCEPT ![w] = k] /\ UNCHANGED <<tables, clock, history>>
    BY DEF Inspect, PlanTypeOK
<1>2. j \in Job /\ a \in Nat /\ b \in Nat
    BY PlanFields DEF SeenIn
<1> HIDE DEF a, b
<1>3. k \in Job /\ k.now = j.now /\ k.kind = j.kind
    BY <1>2 DEF Job
<1> HIDE DEF k
<1> QED BY <1>1, <1>3 DEF PlanTypeOK, tables, history

LEMMA IdleStep ==
    ASSUME PlanTypeOK, NEW w \in Workers, job' = [job EXCEPT ![w] = Idle], UNCHANGED <<tables, clock, history>>
    PROVE  PlanTypeOK' /\ \A v \in Workers \ {w} : job'[v] = job[v]
BY IdleIs DEF PlanTypeOK, tables, history

LEMMA CommitStep ==
    ASSUME PlanTypeOK, NEW w \in Workers, Commit(w)
    PROVE  /\ PlanTypeOK' /\ UNCHANGED <<account, clock>>
           /\ \A v \in Workers \ {w} : job'[v] = job[v]
           /\ reserved' = [reserved EXCEPT ![MonthOf(job[w].now)] = @ + Adds(job[w], "reserve")]
           /\ Adds(job[w], "reserve") \in {0, 1}
<1> DEFINE j == job[w]
           new == Upsert(j)
<1>1. /\ DomainFence(j) /\ usage' = new /\ projects' = projects + Adds(j, "project")
      /\ records' = records + RecordDelta(j) /\ charged' = [charged EXCEPT ![j.now] = @ + Write(j)]
      /\ reserved' = [reserved EXCEPT ![MonthOf(j.now)] = @ + Adds(j, "reserve")]
      /\ job' = [job EXCEPT ![w] = Idle] /\ UNCHANGED <<account, clock>>
    BY DEF Commit
<1>2. /\ j \in Job /\ j.now \in Minutes /\ j.now \in Nat /\ MonthOf(j.now) \in Months /\ MonthOf(j.now) \in Nat
    BY PlanFields, MonthsAre
<1>3. /\ Write(j) \in {0, 1} /\ \A kind : Adds(j, kind) \in {0, 1}
      /\ JevDelta(j) = Adds(j, "reserve") * JevCost /\ JevDelta(j) \in Nat
    BY PlanAssumption DEF Write, Adds, JevDelta
<1>4. records + RecordDelta(j) \in Nat
    BY <1>1 DEF PlanTypeOK, DomainFence, RecordDelta, Adds
<1>5. /\ new.projects \in Nat /\ new.records \in Nat /\ new.month \in Nat /\ new.minute \in Nat
      /\ new.writes \in Nat /\ new.minuteWrites \in Nat /\ new.jev \in Nat
    <2>1. new.month = MonthOf(j.now) /\ new.minute = j.now /\ new.records = records + RecordDelta(j)
        BY DEF Upsert
    <2>2. new.projects = (IF usage = Null THEN projects ELSE usage.projects) + Adds(j, "project")
        BY DEF Upsert
    <2>3. new.writes = (IF usage # Null /\ usage.month = MonthOf(j.now) THEN usage.writes ELSE 0) + Write(j)
        BY DEF Upsert
    <2>4. new.minuteWrites = (IF usage # Null /\ usage.minute = j.now THEN usage.minuteWrites ELSE 0) + Write(j)
        BY DEF Upsert
    <2>5. new.jev = (IF usage # Null /\ usage.month = MonthOf(j.now) THEN usage.jev ELSE 0) + JevDelta(j)
        BY DEF Upsert
    <2> HIDE DEF new
    <2> QED BY <1>2, <1>3, <1>4, <2>1, <2>2, <2>3, <2>4, <2>5, PlanFields DEF PlanTypeOK
<1>6. new \in Usage
    <2>1. new = [projects |-> new.projects, records |-> new.records, month |-> new.month, writes |-> new.writes,
                 minute |-> new.minute, minuteWrites |-> new.minuteWrites, jev |-> new.jev]
        BY DEF Upsert
    <2> HIDE DEF new
    <2> QED BY <1>5, <2>1 DEF Usage
<1> HIDE DEF new
<1>7. /\ projects' \in Nat /\ records' \in Nat
      /\ charged' \in [Minutes -> Nat] /\ reserved' \in [Months -> Nat] /\ job' \in [Workers -> Job]
    BY <1>1, <1>2, <1>3, <1>4, IdleIs DEF PlanTypeOK
<1> QED BY <1>1, <1>3, <1>6, <1>7, PlanFields DEF PlanTypeOK

LEMMA EnvironmentStep ==
    ASSUME PlanTypeOK, Environment
    PROVE  PlanTypeOK' /\ UNCHANGED <<job, reserved>>
<1>1. ASSUME NEW until \in Ends, ChangePlan(until) PROVE PlanTypeOK' /\ UNCHANGED <<job, reserved>>
    BY <1>1, PlanAssumption DEF ChangePlan, PlanTypeOK, Account, history
<1>2. ASSUME NEW enabled \in BOOLEAN, SetJev(enabled) PROVE PlanTypeOK' /\ UNCHANGED <<job, reserved>>
    BY <1>2 DEF SetJev, PlanTypeOK, Account, history
<1>3. ASSUME Tick PROVE PlanTypeOK' /\ UNCHANGED <<job, reserved>>
    BY <1>3, PlanAssumption DEF Tick, PlanTypeOK, Minutes, tables, history
<1> QED BY <1>1, <1>2, <1>3 DEF Environment

(* The rest of the state.                                                    *)
ReviewType == [pc : {"idle", "reserving", "asking", "answered", "checked"}, now : Minutes,
               account : Account, src : Subjects, hints : Hints, twin : Row \cup {Null}]
EventType == [src : Subjects, hints : Hints, twin : Row \cup {Null}, decided : BOOLEAN]

LEMMA ReviewFields ==
    /\ NoReview \in ReviewType
    /\ \A r \in ReviewType : /\ r.now \in Minutes /\ r.account \in Account /\ r.src \in Subjects
                             /\ r.hints \in Hints /\ r.twin \in Row \cup {Null}
    /\ \A h \in Hints : h.category \in BOOLEAN /\ h.answered \in BOOLEAN /\ (h.category => h.answered)
<1>1. NoHints \in Hints
    BY DEF NoHints, Hints
<1>2. Idle.account \in Account /\ 0 \in Minutes
    BY PlanAssumption DEF Idle, Account, Minutes
<1> QED BY <1>1, <1>2 DEF NoReview, ReviewType, Hints, Subjects

LEMMA JevTypes ==
    JevTypeOK <=> /\ PlanTypeOK
                  /\ source \in Row /\ twin \in Row /\ category \in BOOLEAN
                  /\ review \in ReviewType
                  /\ events \subseteq EventType
                  /\ calls \in [Months -> Nat]
BY DEF JevTypeOK, ReviewType, EventType

(* A step of anybody else: reservations only grow, the reviewer's slot stays. *)
LEMMA OthersKeepReview ==
    ASSUME JevInv, PlanTypeOK', source' \in Row, twin' \in Row, category' \in BOOLEAN,
           UNCHANGED <<review, events, calls>>, job'[Reviewer] = job[Reviewer],
           \A k \in Months : reserved[k] <= reserved'[k]
    PROVE  JevInv'
<1>1. JevTypeOK'
    BY DEF JevInv, JevTypeOK
<1>2. \A k \in Months : calls'[k] + Owed(k)' <= reserved'[k]
    <2>1. ASSUME NEW k \in Months PROVE calls[k] + Owed(k) <= reserved'[k]
        <3>1. calls[k] \in Nat /\ Owed(k) \in Nat /\ reserved[k] \in Nat /\ reserved'[k] \in Nat
            BY DEF JevInv, JevTypeOK, PlanTypeOK, Owed
        <3> QED BY <3>1 DEF JevInv
    <2> QED BY <2>1 DEF Owed
<1> QED BY <1>1, <1>2 DEF JevInv

LEMMA RequestKeeps == ASSUME JevInv, NEW w \in Workers, Request(w) PROVE JevInv'
<1>1. PlanTypeOK /\ source \in Row /\ twin \in Row /\ category \in BOOLEAN /\ Reviewer \in Workers \ {w}
      /\ reserved \in [Months -> Nat]
    BY ReviewerAssumption DEF Request, JevInv, JevTypeOK, PlanTypeOK
<1>2. CASE /\ (\E kind \in Kinds : Receive(w, kind)) \/ Inspect(w) \/ Abandon(w)
           /\ UNCHANGED <<reviewTables, review, calls>>
    <2>1. UNCHANGED <<reviewTables, review, calls>>
        BY <1>2
    <2>2. PlanTypeOK' /\ job'[Reviewer] = job[Reviewer] /\ UNCHANGED history
        BY <1>1, <1>2, ReceiveStep, InspectStep, IdleStep DEF Abandon
    <2> QED BY <1>1, <2>1, <2>2, OthersKeepReview DEF reviewTables, history, PlanTypeOK
<1>3. CASE Commit(w) /\ Touch(job[w].kind) /\ UNCHANGED <<events, review, calls>>
    <2>1. PlanTypeOK' /\ job'[Reviewer] = job[Reviewer]
        BY <1>1, <1>3, CommitStep
    <2>2. \A k \in Months : reserved[k] <= reserved'[k]
        BY <1>1, <1>3, CommitStep
    <2>3. source' \in Row /\ twin' \in Row /\ category' \in BOOLEAN
        <3>1. Revised(source) \in Row /\ Revised(twin) \in Row /\ Removed(source) \in Row /\ Removed(twin) \in Row
            <4>1. ASSUME NEW r \in Row, NEW n, n = [r EXCEPT !.rev = @ + 1] PROVE n \in Row
                BY <4>1 DEF Row
            <4>2. ASSUME NEW r \in Row, NEW n, n = [r EXCEPT !.rev = @ + 1, !.live = FALSE] PROVE n \in Row
                <5>1. r = [rev |-> r.rev, live |-> r.live] /\ r.rev + 1 \in Nat
                    BY DEF Row
                <5>2. n = [rev |-> r.rev + 1, live |-> FALSE]
                    BY <4>2, <5>1
                <5> QED BY <5>1, <5>2 DEF Row
            <4> QED BY <1>1, <4>1, <4>2 DEF Revised, Removed
        <3> QED BY <1>1, <1>3, <3>1 DEF Touch
    <2> QED BY <1>3, <2>1, <2>2, <2>3, OthersKeepReview
<1> QED BY <1>2, <1>3 DEF Request

LEMMA AroundKeeps == ASSUME JevInv, Environment, UNCHANGED <<reviewTables, review, calls>> PROVE JevInv'
<1>1. PlanTypeOK' /\ UNCHANGED <<job, reserved>> /\ reserved \in [Months -> Nat]
    BY EnvironmentStep DEF JevInv, JevTypeOK, PlanTypeOK
<1> QED BY <1>1, OthersKeepReview DEF JevInv, JevTypeOK, reviewTables

(* What begins, a review or a suggestion, holds an unpriced reservation.     *)
LEMMA BegunKeeps ==
    ASSUME JevInv, review.pc = "idle", Receive(Reviewer, "reserve"), UNCHANGED <<reviewTables, calls>>,
           NEW src \in Subjects,
           review' = [NoReview EXCEPT !.pc = "reserving", !.now = clock, !.account = account, !.src = src]
    PROVE  JevInv'
<1>1. PlanTypeOK /\ Reviewer \in Workers /\ "reserve" \in Kinds
    BY ReviewerAssumption DEF JevInv, JevTypeOK, Kinds
<1>2. /\ PlanTypeOK' /\ UNCHANGED <<tables, clock, history>>
      /\ job'[Reviewer].kind = "reserve" /\ job'[Reviewer].now = clock
    BY <1>1, ReceiveStep
<1>3. review' \in ReviewType /\ review'.pc = "reserving" /\ review'.now = clock
    BY <1>1, ReviewFields, PlanFields DEF ReviewType
<1>4. JevTypeOK'
    BY <1>2, <1>3, JevTypes DEF JevInv, reviewTables, ReviewType, JevTypeOK
<1>5. \A k \in Months : calls'[k] + Owed(k)' <= reserved'[k]
    BY <1>2, <1>3 DEF JevInv, Owed, history
<1> QED BY <1>2, <1>3, <1>4, <1>5 DEF JevInv

LEMMA ReadSourceKeeps == ASSUME JevInv, ReadSource PROVE JevInv'
<1>1. source.rev \in Subjects
    BY DEF JevInv, JevTypeOK, Row, Subjects
<1> QED BY <1>1, BegunKeeps DEF ReadSource

LEMMA ReadDraftKeeps == ASSUME JevInv, ReadDraft PROVE JevInv'
<1>1. Null \in Subjects
    BY DEF Subjects
<1> QED BY <1>1, BegunKeeps DEF ReadDraft

LEMMA PriceKeeps == ASSUME JevInv, Price PROVE JevInv'
<1>1. /\ PlanTypeOK' /\ UNCHANGED <<tables, clock, history>>
      /\ job'[Reviewer].kind = job[Reviewer].kind /\ job'[Reviewer].now = job[Reviewer].now
    BY InspectStep, ReviewerAssumption DEF JevInv, JevTypeOK, Price
<1>2. JevTypeOK'
    BY <1>1 DEF JevInv, Price, reviewTables, JevTypeOK
<1> QED BY <1>1, <1>2 DEF JevInv, Price, Owed, history

LEMMA ReserveKeeps == ASSUME JevInv, Reserve PROVE JevInv'
<1>1. /\ PlanTypeOK /\ Reviewer \in Workers /\ review \in ReviewType /\ review.pc = "reserving"
      /\ job[Reviewer].kind = "reserve" /\ job[Reviewer].now = review.now
    BY JevTypes, ReviewerAssumption DEF JevInv, Reserve
<1>2. /\ PlanTypeOK'
      /\ reserved' = [reserved EXCEPT ![MonthOf(review.now)] = @ + 1]
    BY <1>1, CommitStep DEF Reserve, Adds
<1>3. ASSUME NEW r, r = [review EXCEPT !.pc = "asking"], review' = r PROVE JevInv'
    <2>1. r \in ReviewType /\ r.pc = "asking" /\ r.now = review.now
        BY <1>1, <1>3 DEF ReviewType
    <2>2. JevTypeOK'
        BY <1>2, <1>3, <2>1 DEF ReviewType, JevInv, Reserve, reviewTables, JevTypeOK
    <2>3. ASSUME NEW k \in Months PROVE calls'[k] + Owed(k)' <= reserved'[k]
        <3>1. calls[k] \in Nat /\ reserved[k] \in Nat /\ calls[k] <= reserved[k]
            BY <1>1 DEF JevInv, JevTypeOK, PlanTypeOK, Owed
        <3>2. reserved'[k] = IF k = MonthOf(review.now) THEN reserved[k] + 1 ELSE reserved[k]
            BY <1>1, <1>2 DEF PlanTypeOK
        <3> QED BY <1>3, <2>1, <3>1, <3>2 DEF Owed, Reserve
    <2> QED BY <1>3, <2>1, <2>2, <2>3 DEF JevInv
<1> QED BY <1>3 DEF Reserve

LEMMA AskKeeps == ASSUME JevInv, NEW hints \in Hints, Ask(hints) PROVE JevInv'
<1>1. /\ review \in ReviewType /\ review.pc = "asking" /\ MonthOf(review.now) \in Months
      /\ calls' = [calls EXCEPT ![MonthOf(review.now)] = @ + 1] /\ calls \in [Months -> Nat]
    BY JevTypes, ReviewFields, MonthsAre DEF JevInv, Ask
<1>2. ASSUME NEW r, r = [review EXCEPT !.pc = "answered", !.hints = hints], review' = r PROVE JevInv'
    <2>1. r \in ReviewType /\ r.pc = "answered"
        BY <1>1, <1>2 DEF ReviewType
    <2>2. PlanTypeOK' /\ UNCHANGED reserved /\ UNCHANGED reviewTables
        BY DEF Ask, planVars, tables, history, JevInv, JevTypeOK, PlanTypeOK
    <2>3. JevTypeOK'
        BY <1>1, <1>2, <2>1, <2>2 DEF ReviewType, JevInv, reviewTables, JevTypeOK
    <2>4. ASSUME NEW k \in Months PROVE calls'[k] + Owed(k)' <= reserved'[k]
        <3>1. calls[k] \in Nat /\ reserved[k] \in Nat /\ calls[k] + Owed(k) <= reserved[k]
            BY DEF JevInv, JevTypeOK, PlanTypeOK
        <3>2. calls'[k] = IF k = MonthOf(review.now) THEN calls[k] + 1 ELSE calls[k]
            BY <1>1
        <3> QED BY <1>1, <1>2, <2>1, <2>2, <3>1, <3>2 DEF Owed
    <2> QED BY <1>2, <2>1, <2>3, <2>4 DEF JevInv
<1> QED BY <1>2 DEF Ask

(* A step of the review that asks for nothing.                               *)
LEMMA ReviewGoesOn ==
    ASSUME JevInv, PlanTypeOK', reserved' = reserved, calls' = calls, UNCHANGED <<source, twin, category>>,
           review' \in ReviewType, review'.pc \in {"idle", "answered", "checked"}, events' \subseteq EventType
    PROVE  JevInv'
<1>1. JevTypeOK'
    BY DEF JevInv, JevTypeOK, ReviewType, EventType
<1>2. ASSUME NEW k \in Months PROVE calls'[k] + Owed(k)' <= reserved'[k]
    <2>1. calls[k] \in Nat /\ reserved[k] \in Nat /\ calls[k] + Owed(k) <= reserved[k]
        BY DEF JevInv, JevTypeOK, PlanTypeOK
    <2> QED BY <2>1 DEF Owed
<1> QED BY <1>1, <1>2 DEF JevInv

LEMMA ReadAgainKeeps == ASSUME JevInv, ReadAgain PROVE JevInv'
<1>1. /\ review \in ReviewType /\ category \in BOOLEAN /\ twin \in Row /\ events \subseteq EventType
      /\ PlanTypeOK
    BY JevTypes DEF JevInv
<1> DEFINE r == [review EXCEPT !.pc = "checked", !.hints.category = @ /\ (Reviewing => category),
                               !.twin = FoundTwin]
<1>2. r \in ReviewType /\ r.pc = "checked"
    <2>1. ASSUME NEW h, h = [review.hints EXCEPT !.category = @ /\ (Reviewing => category)] PROVE h \in Hints
        BY <1>1, <2>1, ReviewFields DEF Hints
    <2>2. [review.hints EXCEPT !.category = @ /\ (Reviewing => category)] \in Hints
        BY <2>1
    <2> QED BY <1>1, <2>2, ReviewFields DEF ReviewType, FoundTwin
<1>3. UNCHANGED <<planVars, reviewTables, calls>> /\ review' = r
    BY DEF ReadAgain
<1> HIDE DEF r
<1> QED BY <1>1, <1>2, <1>3, ReviewGoesOn DEF planVars, tables, history, reviewTables, PlanTypeOK

LEMMA PublishKeeps == ASSUME JevInv, Publish PROVE JevInv'
<1>1. /\ review \in ReviewType /\ events \subseteq EventType /\ PlanTypeOK
    BY JevTypes DEF JevInv
<1>2. Event \in EventType
    BY <1>1, ReviewFields DEF Event, EventType
<1> QED BY <1>1, <1>2, ReviewGoesOn, ReviewFields, IdleIs DEF Publish, planVars, tables, history, PlanTypeOK

LEMMA GiveUpKeeps == ASSUME JevInv, GiveUp PROVE JevInv'
<1>1. PlanTypeOK /\ events \subseteq EventType
    BY JevTypes DEF JevInv
<1>2. PlanTypeOK'
    <2>1. CASE job' = [job EXCEPT ![Reviewer] = Idle]
        BY <1>1, <2>1, IdleStep, ReviewerAssumption DEF GiveUp
    <2>2. CASE job' = job
        BY <1>1, <2>2 DEF GiveUp, PlanTypeOK, tables, history
    <2> QED BY <2>1, <2>2 DEF GiveUp
<1> QED BY <1>1, <1>2, ReviewGoesOn, ReviewFields, IdleIs DEF GiveUp, history, reviewTables

LEMMA DecideKeeps == ASSUME JevInv, NEW e \in events, Decide(e) PROVE JevInv'
<1>1. /\ PlanTypeOK /\ e \in EventType /\ events \subseteq EventType
    BY JevTypes DEF JevInv
<1>2. ASSUME NEW d, d = [e EXCEPT !.decided = TRUE] PROVE d \in EventType
    BY <1>1, <1>2 DEF EventType
<1>3. events' \subseteq EventType
    BY <1>1, <1>2 DEF Decide
<1>4. PlanTypeOK' /\ UNCHANGED <<reserved, calls, source, twin, category, review, job>>
    BY <1>1 DEF Decide, planVars, tables, history, PlanTypeOK
<1>5. JevTypeOK'
    BY <1>3, <1>4 DEF JevInv, JevTypeOK, EventType
<1> QED BY <1>4, <1>5 DEF JevInv, Owed

LEMMA JevStarts == JevInit => JevInv
<1> SUFFICES ASSUME JevInit PROVE JevInv
    OBVIOUS
<1>1. PlanTypeOK
    <2>1. PlanInit /\ Ends \subseteq Nat
        BY PlanAssumption DEF JevInit
    <2>2. account \in Account /\ usage \in Usage \cup {Null}
        BY <2>1 DEF PlanInit, Account
    <2>3. projects \in Nat /\ records \in Nat
        BY <2>1 DEF PlanInit
    <2>4. clock \in Minutes /\ job \in [Workers -> Job] /\ charged \in [Minutes -> Nat] /\ reserved \in [Months -> Nat]
        BY PlanAssumption, IdleIs DEF JevInit, PlanInit, Minutes
    <2> QED BY <2>2, <2>3, <2>4 DEF PlanTypeOK
<1>2. JevTypeOK
    BY <1>1, JevTypes, ReviewFields DEF JevInit, Row
<1>3. \A k \in Months : calls[k] + Owed(k) <= reserved[k]
    BY IdleIs DEF JevInit, PlanInit, Owed
<1> QED BY <1>2, <1>3, IdleIs DEF JevInv, JevInit

LEMMA JevStays == JevInv /\ [JevNext]_jevVars => JevInv'
<1> SUFFICES ASSUME JevInv, [JevNext]_jevVars PROVE JevInv'
    OBVIOUS
<1>1. CASE UNCHANGED jevVars
    BY <1>1 DEF jevVars, planVars, tables, history, reviewTables, JevInv, JevTypeOK, PlanTypeOK, Owed
<1> QED BY <1>1, RequestKeeps, AroundKeeps, ReadSourceKeeps, ReadDraftKeeps, PriceKeeps, ReserveKeeps, AskKeeps,
           ReadAgainKeeps, PublishKeeps, GiveUpKeeps, DecideKeeps DEF JevNext

(* What a batch publishes was read before; the batch compares it again.      *)
LEMMA PublishedIsTrue ==
    ASSUME [JevNext]_jevVars
    PROVE  \A e \in events' \ events :
             /\ ~e.decided /\ e.src # Null =>
                    source.live /\ source.rev = e.src /\ (e.hints.category => category)
             /\ ~e.decided /\ e.twin # Null => twin.live /\ twin.rev = e.twin.rev
             /\ e.decided => category
<1>1. CASE events' = events
    BY <1>1
<1>2. CASE Publish
    <2>1. \A e \in events' \ events : e = Event
        BY <1>2 DEF Publish
    <2>2. ~Event.decided /\ Event.src = review.src /\ Event.twin = review.twin /\ Event.hints = review.hints
        BY DEF Event
    <2> QED BY <1>2, <2>1, <2>2 DEF Publish, SourceUnchanged, Reviewing, TwinHolds, Same
<1>3. ASSUME NEW d \in events, Decide(d), NEW e \in events' \ events PROVE e.decided /\ category
    <2>1. e = [d EXCEPT !.decided = TRUE] /\ category
        BY <1>3 DEF Decide
    <2> QED BY <2>1
<1>4. events' = events \/ Publish \/ \E d \in events : Decide(d)
    BY DEF JevNext, jevVars, reviewTables, Request, ReadSource, ReadDraft, Price, Reserve, ReadAgain, GiveUp, Ask
<1> QED BY <1>1, <1>2, <1>3, <1>4

\* Whatever changes while the provider is asked, no review asks for more than the
\* allowance had counted, and none publishes a hint that is not true of the rows in
\* its own batch (cloudflare_jev_review._review, _evaluate).
THEOREM ReviewsAreSound == JevSpec => ReviewsHold
<1>1. JevSpec => []JevInv
    BY JevStarts, JevStays, PTL DEF JevSpec
<1>2. JevInv => JevConsistent
    <2>1. ASSUME JevInv, NEW k \in Months PROVE calls[k] <= reserved[k]
        <3>1. calls[k] \in Nat /\ reserved[k] \in Nat /\ Owed(k) \in {0, 1} /\ calls[k] + Owed(k) <= reserved[k]
            BY <2>1 DEF JevInv, JevTypeOK, PlanTypeOK, Owed
        <3> QED BY <3>1
    <2> QED BY <2>1 DEF JevInv, JevConsistent, PaidBeforeAsked
<1>3. JevSpec => PublishedHintsHold
    BY PublishedIsTrue, PTL DEF JevSpec, PublishedHintsHold
<1> QED BY <1>1, <1>2, <1>3, PTL DEF ReviewsHold

-----------------------------------------------------------------------------
(* Admission counters. A row that can still be asked about counts what was   *)
(* admitted; what has no row belongs to a window that is over.               *)

Channels == {"read", "write", "security"}
RateKeys == RateBuckets \X (Sources \cup Channels)
MailKeys == MailBuckets \X (Addresses \cup Sources \cup {"all"})

Sends3 == {"send", "sendIp", "sendAll"}
KindOf(s) == IF s[1] \in Sends3 THEN "send" ELSE "verify"
Base(s, t) == PeriodOf(KindOf(s), t)
Gap(s) == WindowOf(KindOf(s))

TallyInv ==
    /\ DOMAIN tally \subseteq (RateKeys \cup MailKeys) \X Nat
    /\ \A s \in RateKeys \cup MailKeys, p \in Nat : <<s, p>> \in DOMAIN tally =>
         tally[<<s, p>>] \in Nat /\ tally[<<s, p>>] <= Limit[s[1]]

PreviewInv ==
    /\ rateClock \in Nat
    /\ DOMAIN rates \subseteq RateKeys /\ IsFiniteSet(DOMAIN rates) /\ Cardinality(DOMAIN rates) <= RateRows
    /\ \A s \in DOMAIN rates :
         /\ rates[s] \in [minute : Nat, calls : Nat] /\ rates[s].minute <= rateClock
         /\ <<s, rates[s].minute>> \in DOMAIN tally /\ tally[<<s, rates[s].minute>>] = rates[s].calls
    /\ \A s \in RateKeys, p \in Nat : <<s, p>> \in DOMAIN tally =>
         /\ p <= rateClock
         /\ p = rateClock => s \in DOMAIN rates /\ rates[s].minute = p

MailInv ==
    /\ mailClock \in Nat
    /\ DOMAIN mails \subseteq MailKeys /\ IsFiniteSet(DOMAIN mails) /\ Cardinality(DOMAIN mails) <= MailRows
    /\ \A s \in DOMAIN mails :
         /\ mails[s].last \in Nat /\ mails[s].last <= mailClock /\ mails[s].calls \in Nat
         /\ mails[s].period = Base(s, mails[s].last)
         /\ mails[s].expires \in Nat /\ mails[s].period + Gap(s) <= mails[s].expires
         /\ s[1] = "send" => mails[s].last + Minute <= mails[s].expires
         /\ <<s, mails[s].period>> \in DOMAIN tally /\ tally[<<s, mails[s].period>>] = mails[s].calls
    /\ \A s \in MailKeys, p \in Nat : <<s, p>> \in DOMAIN tally =>
         (s \in DOMAIN mails /\ mails[s].period = p) \/ p + Gap(s) <= mailClock

SentInv ==
    /\ DOMAIN lastSent = Addresses
    /\ \A a \in Addresses : lastSent[a] # Never =>
         /\ lastSent[a] \in Nat
         /\ \/ <<"send", a>> \in DOMAIN mails /\ mails[<<"send", a>>].last = lastSent[a]
            \/ lastSent[a] + Minute <= mailClock

RateInv == TallyInv /\ PreviewInv /\ MailInv /\ SentInv

LEMMA RateNumbers ==
    /\ Minute \in Nat \ {0} /\ Hour \in Nat \ {0} /\ Minute <= Hour
    /\ RateRows \in Nat /\ MailRows \in Nat /\ Sweep \in Nat /\ MaxTick \in Nat
    /\ \A kind : WindowOf(kind) \in Nat \ {0}
    /\ \A s \in RateKeys : Limit[s[1]] \in Nat /\ 1 <= Limit[s[1]]
    /\ \A s \in MailKeys : Limit[s[1]] \in Nat /\ 1 <= Limit[s[1]]
    /\ \A s \in RateKeys : s \notin MailKeys
BY RateAssumption DEF RateKeys, MailKeys, RateBuckets, MailBuckets, WindowOf

LEMMA Windows ==
    ASSUME NEW w \in Nat \ {0}, NEW s \in Nat, NEW t \in Nat, s <= t
    PROVE  LET p == (s \div w) * w
               q == (t \div w) * w
           IN  /\ p \in Nat /\ q \in Nat /\ q <= t /\ t < q + w
               /\ p # q => p + w <= t
<1> DEFINE a == s \div w
           b == t \div w
<1>1. a \in Nat /\ b \in Nat /\ s % w \in Nat /\ t % w \in Nat /\ t % w < w
    OBVIOUS
<1>2. s = w * a + (s % w) /\ t = w * b + (t % w)
    OBVIOUS
<1> HIDE DEF a, b
<1>3. a * w \in Nat /\ b * w \in Nat /\ a * w = w * a /\ b * w = w * b
    BY <1>1
<1>4. ASSUME a + 1 <= b PROVE a * w + w <= b * w
    <2>1. (a + 1) * w <= b * w
        BY <1>1, <1>4, SMTT(30)
    <2>2. (a + 1) * w = a * w + w
        BY <1>1
    <2> QED BY <2>1, <2>2
<1>5. ASSUME b + 1 <= a PROVE FALSE
    <2>1. (b + 1) * w <= a * w
        BY <1>1, <1>5, SMTT(30)
    <2>2. (b + 1) * w = b * w + w
        BY <1>1
    <2> QED BY <1>1, <1>2, <1>3, <2>1, <2>2
<1>6. a = b \/ a + 1 <= b
    BY <1>1, <1>5
<1>7. b * w <= t /\ t < b * w + w
    BY <1>1, <1>2, <1>3
<1>8. a * w # b * w => a * w + w <= t
    BY <1>1, <1>3, <1>4, <1>6, <1>7
<1> QED BY <1>3, <1>7, <1>8 DEF a, b

LEMMA Periods ==
    ASSUME NEW kind, NEW s \in Nat, NEW t \in Nat, s <= t
    PROVE  /\ PeriodOf(kind, s) \in Nat /\ PeriodOf(kind, t) \in Nat
           /\ PeriodOf(kind, t) <= t /\ t < PeriodOf(kind, t) + WindowOf(kind)
           /\ PeriodOf(kind, s) # PeriodOf(kind, t) => PeriodOf(kind, s) + WindowOf(kind) <= t
BY RateNumbers, Windows DEF PeriodOf

LEMMA CountedIs ==
    ASSUME NEW subjects, NEW p, NEW c, c = Counted(subjects, p)
    PROVE  /\ \A k \in DOMAIN c : k \in DOMAIN tally \/ \E s \in subjects : k = <<s, p>>
           /\ \A s, q : <<s, q>> \in DOMAIN c <=> <<s, q>> \in DOMAIN tally \/ (s \in subjects /\ q = p)
           /\ \A s, q : <<s, q>> \in DOMAIN c =>
                  c[<<s, q>>] = (IF <<s, q>> \in DOMAIN tally THEN tally[<<s, q>>] ELSE 0)
                                   + (IF s \in subjects /\ q = p THEN 1 ELSE 0)
<1> DEFINE d == DOMAIN tally \cup {<<s, p>> : s \in subjects}
<1>1. c = [k \in d |-> (IF k \in DOMAIN tally THEN tally[k] ELSE 0) + (IF k[1] \in subjects /\ k[2] = p THEN 1 ELSE 0)]
    BY DEF Counted
<1>5. \A k \in d : k \in DOMAIN tally \/ \E s \in subjects : k = <<s, p>>
    OBVIOUS
<1>2. \A s, q : <<s, q>> \in d <=> <<s, q>> \in DOMAIN tally \/ (s \in subjects /\ q = p)
    OBVIOUS
<1> HIDE DEF d
<1>3. DOMAIN c = d
    BY <1>1
<1>4. ASSUME NEW s, NEW q, <<s, q>> \in d
      PROVE  c[<<s, q>>] = (IF <<s, q>> \in DOMAIN tally THEN tally[<<s, q>>] ELSE 0)
                        + (IF s \in subjects /\ q = p THEN 1 ELSE 0)
    BY <1>1, <1>4
<1> QED BY <1>2, <1>3, <1>4, <1>5

LEMMA RateRow ==
    ASSUME PreviewInv, NEW s \in DOMAIN rates
    PROVE  /\ s \in RateKeys /\ rates[s].minute \in Nat /\ rates[s].calls \in Nat /\ rates[s].minute <= rateClock
           /\ rates[s] = [minute |-> rates[s].minute, calls |-> rates[s].calls]
BY DEF PreviewInv

(* The turn of the preview's limiter.                                        *)
LEMMA AdmitKeeps ==
    ASSUME RateInv, NEW subjects \in SUBSET RateKeys, IsFiniteSet(subjects), NEW now \in Nat, Admit(subjects, now)
    PROVE  RateInv' /\ rateClock <= rateClock' /\ UNCHANGED <<mailClock, lastSent>>
<1> DEFINE m == CurrentMinute(now)
           table == Remembered(m)
<1>1. now \div Minute \in Nat
    <2>1. \A a \in Nat, b \in Nat \ {0} : a \div b \in Nat
        OBVIOUS
    <2> QED BY <2>1, RateNumbers
<1>2. m \in Nat /\ rateClock <= m /\ rateClock \in Nat /\ rateClock' = m
    BY <1>1 DEF Admit, RateInv, PreviewInv, CurrentMinute, Later2
<1>3. /\ DOMAIN table \subseteq DOMAIN rates /\ \A s \in DOMAIN table : table[s] = rates[s]
      /\ m = rateClock => table = rates
    BY <1>2 DEF Remembered
<1>4. /\ UNCHANGED <<mails, mailClock, lastSent>>
      /\ \/ rates' = table /\ tally' = tally
         \/ /\ ~Exhausted(table, subjects, m) /\ ~(Cardinality(DOMAIN table \cup subjects) > RateRows)
            /\ rates' = Bumped(table, subjects, m) /\ tally' = Counted(subjects, m)
    BY DEF Admit
<1> HIDE DEF m, table
<1>5. \A s \in DOMAIN rates : rates[s].minute = m => s \in DOMAIN table
    BY <1>2, <1>3, RateRow DEF RateInv
<1>6. \A s \in RateKeys : <<s, m>> \in DOMAIN tally => s \in DOMAIN table /\ table[s].minute = m
    BY <1>2, <1>3 DEF RateInv, PreviewInv
<1>7. IsFiniteSet(DOMAIN rates) /\ IsFiniteSet(DOMAIN table) /\ Cardinality(DOMAIN table) <= RateRows
    <2>1. IsFiniteSet(DOMAIN rates) /\ Cardinality(DOMAIN rates) <= RateRows
        BY DEF RateInv, PreviewInv
    <2>2. IsFiniteSet(DOMAIN table) /\ Cardinality(DOMAIN table) <= Cardinality(DOMAIN rates)
        BY <1>3, <2>1, FS_Subset
    <2> QED BY <2>1, <2>2, FS_CardinalityType, RateNumbers
<1>8. CASE rates' = table /\ tally' = tally
    <2>1. TallyInv' /\ MailInv' /\ SentInv'
        BY <1>4, <1>8 DEF RateInv, TallyInv, MailInv, SentInv
    <2>2. \A s \in DOMAIN rates' : rates'[s] = rates[s] /\ s \in DOMAIN rates
        BY <1>3, <1>8
    <2>3. \A s \in RateKeys, p \in Nat : <<s, p>> \in DOMAIN tally' =>
             p <= rateClock' /\ (p = rateClock' => s \in DOMAIN rates' /\ rates'[s].minute = p)
        <3>1. ASSUME NEW s \in RateKeys, NEW p \in Nat, <<s, p>> \in DOMAIN tally
              PROVE  p <= m /\ (p = m => s \in DOMAIN table /\ table[s].minute = p)
            BY <1>2, <1>6, <3>1 DEF RateInv, PreviewInv
        <3> QED BY <1>2, <1>8, <3>1
    <2>4. \A s \in DOMAIN rates : rates[s].minute <= m
        BY <1>2, RateRow DEF RateInv
    <2>5. PreviewInv'
        BY <1>2, <1>3, <1>7, <1>8, <2>2, <2>3, <2>4 DEF RateInv, PreviewInv
    <2> QED BY <1>2, <1>4, <2>1, <2>5 DEF RateInv
<1>9. CASE /\ ~Exhausted(table, subjects, m) /\ ~(Cardinality(DOMAIN table \cup subjects) > RateRows)
           /\ rates' = Bumped(table, subjects, m) /\ tally' = Counted(subjects, m)
    <2> DEFINE seen(s) == s \in DOMAIN table /\ table[s].minute = m
    <2>1. /\ DOMAIN rates' = DOMAIN table \cup subjects
          /\ \A s \in DOMAIN table \ subjects : rates'[s] = rates[s]
          /\ \A s \in subjects : rates'[s] = [minute |-> m, calls |-> IF seen(s) THEN table[s].calls + 1 ELSE 1]
        <3>1. rates' = Bumped(table, subjects, m)
            BY <1>9
        <3>2. /\ DOMAIN Bumped(table, subjects, m) = DOMAIN table \cup subjects
              /\ \A s \in DOMAIN table \ subjects : Bumped(table, subjects, m)[s] = table[s]
              /\ \A s \in subjects : Bumped(table, subjects, m)[s] =
                    [minute |-> m, calls |-> IF s \in DOMAIN table /\ table[s].minute = m THEN table[s].calls + 1 ELSE 1]
            BY DEF Bumped
        <3> QED BY <1>3, <3>1, <3>2
    <2>2. \A s \in DOMAIN table : rates[s] \in [minute : Nat, calls : Nat] /\ table[s] = rates[s] /\ s \in DOMAIN rates
        BY <1>3 DEF RateInv, PreviewInv
    <2>3. ASSUME NEW s \in subjects, seen(s)
          PROVE  rates'[s] = [minute |-> m, calls |-> rates[s].calls + 1] /\ rates[s].calls \in Nat
                 /\ <<s, m>> \in DOMAIN tally /\ tally[<<s, m>>] = rates[s].calls /\ rates[s].calls < Limit[s[1]]
        <3>1. <<s, m>> \in DOMAIN tally /\ tally[<<s, m>>] = rates[s].calls
            BY <2>2, <2>3 DEF RateInv, PreviewInv
        <3>2. ~(table[s].calls >= Limit[s[1]])
            BY <1>9, <2>3 DEF Exhausted
        <3>3. table[s] = [minute |-> m, calls |-> rates[s].calls] /\ rates[s].calls \in Nat
            BY <2>2, <2>3
        <3>4. rates'[s] = [minute |-> m, calls |-> table[s].calls + 1]
            BY <2>1, <2>3
        <3>5. s \in RateKeys
            OBVIOUS
        <3> HIDE DEF seen
        <3> QED BY <3>1, <3>2, <3>3, <3>4, <3>5, RateNumbers
    <2>4. ASSUME NEW s \in subjects, ~seen(s)
          PROVE  rates'[s] = [minute |-> m, calls |-> 1] /\ <<s, m>> \notin DOMAIN tally
        <3>1. s \in RateKeys
            OBVIOUS
        <3> QED BY <1>6, <2>1, <2>4, <3>1
    <2> HIDE DEF seen
    <2>11. tally' = Counted(subjects, m)
        BY <1>9
    <2>12. /\ \A k \in DOMAIN tally' : k \in DOMAIN tally \/ \E s \in subjects : k = <<s, m>>
           /\ \A s, q : <<s, q>> \in DOMAIN tally' <=> <<s, q>> \in DOMAIN tally \/ (s \in subjects /\ q = m)
           /\ \A s, q : <<s, q>> \in DOMAIN tally' =>
                  tally'[<<s, q>>] = (IF <<s, q>> \in DOMAIN tally THEN tally[<<s, q>>] ELSE 0)
                                       + (IF s \in subjects /\ q = m THEN 1 ELSE 0)
        BY <2>11, CountedIs
    <2>5. \A s, q : <<s, q>> \in DOMAIN tally' <=> <<s, q>> \in DOMAIN tally \/ (s \in subjects /\ q = m)
        BY <2>12
    <2>13. \A s, q : <<s, q>> \in DOMAIN tally' =>
              tally'[<<s, q>>] = (IF <<s, q>> \in DOMAIN tally THEN tally[<<s, q>>] ELSE 0)
                                   + (IF s \in subjects /\ q = m THEN 1 ELSE 0)
        BY <2>12
    <2>6. \A s \in subjects : /\ rates'[s].minute = m /\ rates'[s] \in [minute : Nat, calls : Nat]
                              /\ <<s, m>> \in DOMAIN tally' /\ tally'[<<s, m>>] = rates'[s].calls
                              /\ rates'[s].calls \in Nat /\ rates'[s].calls <= Limit[s[1]]
        <3>1. ASSUME NEW s \in subjects
              PROVE  /\ rates'[s].minute = m /\ rates'[s] \in [minute : Nat, calls : Nat]
                     /\ <<s, m>> \in DOMAIN tally' /\ tally'[<<s, m>>] = rates'[s].calls
                     /\ rates'[s].calls \in Nat /\ rates'[s].calls <= Limit[s[1]]
            <4>5. s \in RateKeys
                OBVIOUS
            <4>6. <<s, m>> \in DOMAIN tally' <=> <<s, m>> \in DOMAIN tally \/ (s \in subjects /\ m = m)
                BY <2>5
            <4>1. s \in RateKeys /\ Limit[s[1]] \in Nat /\ 1 <= Limit[s[1]] /\ <<s, m>> \in DOMAIN tally'
                BY <4>5, <4>6, RateNumbers
            <4>4. tally'[<<s, m>>] = (IF <<s, m>> \in DOMAIN tally THEN tally[<<s, m>>] ELSE 0) + 1
                <5>1. tally'[<<s, m>>] = (IF <<s, m>> \in DOMAIN tally THEN tally[<<s, m>>] ELSE 0)
                                            + (IF s \in subjects /\ m = m THEN 1 ELSE 0)
                    BY <2>13, <4>1
                <5> QED BY <5>1
            <4>2. CASE seen(s)
                <5>1. /\ rates'[s] = [minute |-> m, calls |-> rates[s].calls + 1] /\ rates[s].calls \in Nat
                      /\ <<s, m>> \in DOMAIN tally /\ tally[<<s, m>>] = rates[s].calls /\ rates[s].calls < Limit[s[1]]
                    BY <2>3, <4>2
                <5> QED BY <1>2, <4>1, <4>4, <5>1
            <4>3. CASE ~seen(s)
                <5>1. rates'[s] = [minute |-> m, calls |-> 1] /\ <<s, m>> \notin DOMAIN tally
                    BY <2>4, <4>3
                <5> QED BY <1>2, <4>1, <4>4, <5>1
            <4> QED BY <4>2, <4>3
        <3> QED BY <3>1
    <2>8. ASSUME NEW s, NEW p, <<s, p>> \in DOMAIN tally, ~(s \in subjects /\ p = m), tally[<<s, p>>] \in Nat
          PROVE  <<s, p>> \in DOMAIN tally' /\ tally'[<<s, p>>] = tally[<<s, p>>]
        <3>1. <<s, p>> \in DOMAIN tally' <=> <<s, p>> \in DOMAIN tally \/ (s \in subjects /\ p = m)
            BY <2>5
        <3>2. tally'[<<s, p>>] = (IF <<s, p>> \in DOMAIN tally THEN tally[<<s, p>>] ELSE 0)
                                   + (IF s \in subjects /\ p = m THEN 1 ELSE 0)
            BY <2>13, <2>8, <3>1
        <3> QED BY <2>8, <3>1, <3>2
    <2>7. TallyInv'
        <3>1. DOMAIN tally' \subseteq (RateKeys \cup MailKeys) \X Nat
            BY <1>2, <2>12 DEF RateInv, TallyInv
        <3>2. ASSUME NEW s \in RateKeys \cup MailKeys, NEW p \in Nat, <<s, p>> \in DOMAIN tally'
              PROVE  tally'[<<s, p>>] \in Nat /\ tally'[<<s, p>>] <= Limit[s[1]]
            <4>1. CASE s \in subjects /\ p = m
                BY <2>6, <4>1
            <4>2. CASE ~(s \in subjects /\ p = m)
                <5>1. <<s, p>> \in DOMAIN tally /\ tally[<<s, p>>] \in Nat /\ tally[<<s, p>>] <= Limit[s[1]]
                    BY <2>5, <3>2, <4>2 DEF RateInv, TallyInv
                <5> QED BY <2>8, <4>2, <5>1
            <4> QED BY <4>1, <4>2
        <3> QED BY <3>1, <3>2 DEF TallyInv
    <2>9. MailInv'
        <3>1. \A s \in MailKeys, p \in Nat : <<s, p>> \in DOMAIN tally' <=> <<s, p>> \in DOMAIN tally
            <4>1. ASSUME NEW s \in MailKeys, NEW p \in Nat
                  PROVE  <<s, p>> \in DOMAIN tally' <=> <<s, p>> \in DOMAIN tally
                <5>1. s \notin subjects
                    BY RateNumbers
                <5>2. <<s, p>> \in DOMAIN tally' <=> <<s, p>> \in DOMAIN tally \/ (s \in subjects /\ p = m)
                    BY <2>5
                <5> QED BY <5>1, <5>2
            <4> QED BY <4>1
        <3>2. ASSUME NEW s \in DOMAIN mails
              PROVE  <<s, mails[s].period>> \in DOMAIN tally' /\ tally'[<<s, mails[s].period>>] = mails[s].calls
            <4>1. s \in MailKeys /\ s \notin subjects /\ <<s, mails[s].period>> \in DOMAIN tally
                  /\ tally[<<s, mails[s].period>>] = mails[s].calls /\ mails[s].calls \in Nat
                BY RateNumbers DEF RateInv, MailInv
            <4> QED BY <2>8, <4>1
        <3> QED BY <1>4, <3>1, <3>2 DEF RateInv, MailInv
    <2>10. PreviewInv'
        <3>1. IsFiniteSet(DOMAIN rates') /\ Cardinality(DOMAIN rates') <= RateRows /\ DOMAIN rates' \subseteq RateKeys
            <4>1. IsFiniteSet(DOMAIN table \cup subjects)
                BY <1>7, FS_Union
            <4>2. Cardinality(DOMAIN table \cup subjects) \in Nat
                BY <4>1, FS_CardinalityType
            <4>3. DOMAIN rates \subseteq RateKeys
                BY DEF RateInv, PreviewInv
            <4> QED BY <1>3, <1>9, <2>1, <4>1, <4>2, <4>3, RateNumbers
        <3>2. ASSUME NEW s \in DOMAIN rates'
              PROVE  /\ rates'[s] \in [minute : Nat, calls : Nat] /\ rates'[s].minute <= rateClock'
                     /\ <<s, rates'[s].minute>> \in DOMAIN tally' /\ tally'[<<s, rates'[s].minute>>] = rates'[s].calls
            <4>1. CASE s \in subjects
                <5>1. /\ rates'[s].minute = m /\ rates'[s] \in [minute : Nat, calls : Nat]
                      /\ <<s, m>> \in DOMAIN tally' /\ tally'[<<s, m>>] = rates'[s].calls
                    BY <2>6, <4>1
                <5> QED BY <1>2, <5>1
            <4>2. CASE s \notin subjects
                <5>1. s \in DOMAIN rates /\ rates'[s] = rates[s] /\ rates[s] \in [minute : Nat, calls : Nat]
                    BY <2>1, <2>2, <3>2, <4>2
                <5>2. /\ rates[s].minute <= m /\ rates[s].calls \in Nat
                      /\ <<s, rates[s].minute>> \in DOMAIN tally /\ tally[<<s, rates[s].minute>>] = rates[s].calls
                    BY <1>2, <5>1 DEF RateInv, PreviewInv
                <5>3. <<s, rates[s].minute>> \in DOMAIN tally' /\ tally'[<<s, rates[s].minute>>] = rates[s].calls
                    BY <2>8, <4>2, <5>2
                <5> QED BY <1>2, <5>1, <5>2, <5>3
            <4> QED BY <4>1, <4>2
        <3>3. ASSUME NEW s \in RateKeys, NEW p \in Nat, <<s, p>> \in DOMAIN tally'
              PROVE  p <= m /\ (p = m => s \in DOMAIN rates' /\ rates'[s].minute = p)
            <4>1. CASE s \in subjects /\ p = m
                <5>1. rates'[s].minute = m /\ s \in DOMAIN rates'
                    BY <2>1, <2>6, <4>1
                <5> QED BY <1>2, <4>1, <5>1
            <4>2. CASE ~(s \in subjects /\ p = m)
                <5>1. <<s, p>> \in DOMAIN tally
                    BY <2>5, <3>3, <4>2
                <5>2. p <= m
                    BY <1>2, <5>1 DEF RateInv, PreviewInv
                <5>3. p = m => s \notin subjects /\ s \in DOMAIN table /\ table[s].minute = m
                    BY <1>6, <4>2, <5>1
                <5> QED BY <2>1, <2>2, <5>2, <5>3
            <4> QED BY <4>1, <4>2
        <3> QED BY <1>2, <3>1, <3>2, <3>3 DEF PreviewInv
    <2> QED BY <1>2, <1>4, <2>7, <2>9, <2>10 DEF RateInv, SentInv
<1> QED BY <1>4, <1>8, <1>9

LEMMA MailSubjectsAre ==
    ASSUME NEW kind \in {"send", "verify"}, NEW a \in Addresses, NEW from \in Sources
    PROVE  LET S == MailSubjects(kind, a, from)
           IN  /\ S \subseteq MailKeys /\ IsFiniteSet(S)
               /\ \A s \in S : KindOf(s) = kind /\ (s[1] = "send" => s = <<"send", a>>)
               /\ kind = "send" => <<"send", a>> \in S
               /\ \A s \in RateKeys : s \notin S
               /\ \A b \in Addresses : <<"send", b>> \in S => b = a /\ kind = "send"
<1> DEFINE S == MailSubjects(kind, a, from)
<1>1. \A x, y, z : IsFiniteSet({x, y, z}) /\ IsFiniteSet({x, y})
    <2> TAKE x, y, z
    <2>1. IsFiniteSet({}) 
        BY FS_EmptySet
    <2>2. IsFiniteSet({z}) /\ IsFiniteSet({y})
        BY FS_Singleton
    <2>3. IsFiniteSet({y} \cup {z}) /\ IsFiniteSet({x} \cup {y})
        BY <2>2, FS_Union, FS_Singleton
    <2>4. IsFiniteSet({x} \cup ({y} \cup {z}))
        BY <2>3, FS_Union, FS_Singleton
    <2>5. {x} \cup ({y} \cup {z}) = {x, y, z} /\ {x} \cup {y} = {x, y}
        OBVIOUS
    <2> QED BY <2>3, <2>4, <2>5
<1>2. IsFiniteSet(S)
    <2>1. IsFiniteSet({<<"send", a>>, <<"sendIp", from>>, <<"sendAll", "all">>})
        BY <1>1
    <2>2. IsFiniteSet({<<"verify", a>>, <<"verifyIp", from>>})
        BY <1>1
    <2> QED BY <2>1, <2>2 DEF MailSubjects
<1>3. S \subseteq MailKeys
    BY DEF MailSubjects, MailKeys, MailBuckets
<1>4. \A s \in S : KindOf(s) = kind /\ (s[1] = "send" => s = <<"send", a>>)
    BY DEF MailSubjects, KindOf, Sends3
<1>5. kind = "send" => <<"send", a>> \in S
    BY DEF MailSubjects
<1>6. \A s \in RateKeys : s \notin S
    BY <1>3, RateNumbers
<1>7. \A b \in Addresses : <<"send", b>> \in S => b = a /\ kind = "send"
    BY DEF MailSubjects
<1> QED BY <1>2, <1>3, <1>4, <1>5, <1>6, <1>7

LEMMA MailRow ==
    ASSUME MailInv, NEW s \in DOMAIN mails
    PROVE  /\ s \in MailKeys /\ mailClock \in Nat
           /\ mails[s].last \in Nat /\ mails[s].last <= mailClock /\ mails[s].calls \in Nat
           /\ mails[s].period = Base(s, mails[s].last) /\ mails[s].period \in Nat /\ Gap(s) \in Nat
           /\ mails[s].expires \in Nat /\ mails[s].period + Gap(s) <= mails[s].expires
           /\ s[1] = "send" => mails[s].last + Minute <= mails[s].expires
           /\ <<s, mails[s].period>> \in DOMAIN tally /\ tally[<<s, mails[s].period>>] = mails[s].calls
<1>1. /\ s \in MailKeys /\ mailClock \in Nat
      /\ mails[s].last \in Nat /\ mails[s].last <= mailClock /\ mails[s].calls \in Nat
      /\ mails[s].period = Base(s, mails[s].last)
      /\ mails[s].expires \in Nat /\ mails[s].period + Gap(s) <= mails[s].expires
      /\ s[1] = "send" => mails[s].last + Minute <= mails[s].expires
      /\ <<s, mails[s].period>> \in DOMAIN tally /\ tally[<<s, mails[s].period>>] = mails[s].calls
    BY DEF MailInv
<1>2. Base(s, mails[s].last) \in Nat
    BY <1>1, Periods DEF Base
<1>3. Gap(s) \in Nat
    BY RateNumbers DEF Gap
<1> QED BY <1>1, <1>2, <1>3

(* The turn of the mail limiter.                                             *)
LEMMA EmailKeeps ==
    ASSUME RateInv, NEW kind \in {"send", "verify"}, NEW a \in Addresses, NEW from \in Sources, NEW now \in Nat,
           Email(kind, a, from, now)
    PROVE  /\ RateInv' /\ mailClock <= mailClock' /\ UNCHANGED rateClock
           /\ \A b \in Addresses : lastSent'[b] # lastSent[b] /\ lastSent[b] # Never =>
                lastSent'[b] >= lastSent[b] + Minute
<1> DEFINE t == Later2(now, mailClock)
           S == MailSubjects(kind, a, from)
           p == PeriodOf(kind, t)
           w == WindowOf(kind)
<1>1. UNCHANGED <<rates, rateClock>>
    BY DEF Email
<1>pick. PICK swept \in Swept(S, t) :
          LET kept == DOMAIN mails \ swept IN
          IF Spent(kind, S, t) \/ Cooling(kind, a, t) \/ Cardinality(kept \cup S) > MailRows
          THEN UNCHANGED <<mails, mailClock, tally, lastSent>>
          ELSE /\ mails' = [s \in kept \cup S |-> IF s \in S THEN NewMailRow(kind, s, t) ELSE mails[s]]
               /\ mailClock' = t
               /\ tally' = Counted(S, p)
               /\ lastSent' = IF kind = "send" THEN [lastSent EXCEPT ![a] = t] ELSE lastSent
    BY DEF Email
<1> DEFINE kept == DOMAIN mails \ swept
<1>2. t \in Nat /\ mailClock \in Nat /\ mailClock <= t
    BY DEF RateInv, MailInv, Later2
<1>3. p \in Nat /\ p <= t /\ t < p + w /\ w \in Nat \ {0}
    BY <1>2, Periods, RateNumbers
<1>4. /\ S \subseteq MailKeys /\ IsFiniteSet(S)
      /\ \A s \in S : KindOf(s) = kind /\ (s[1] = "send" => s = <<"send", a>>)
      /\ kind = "send" => <<"send", a>> \in S
      /\ \A s \in RateKeys : s \notin S
      /\ \A b \in Addresses : <<"send", b>> \in S => b = a /\ kind = "send"
    BY MailSubjectsAre
<1>5. \A s \in S : Gap(s) = w /\ \A u : Base(s, u) = PeriodOf(kind, u)
    BY <1>4 DEF Gap, Base
<1>6. \A s \in swept : s \in DOMAIN mails /\ s \notin S /\ mails[s].expires <= t
    BY <1>pick DEF Swept
<1>7. CASE UNCHANGED <<mails, mailClock, tally, lastSent>>
    BY <1>1, <1>2, <1>7 DEF RateInv, TallyInv, PreviewInv, MailInv, SentInv
<1>8. CASE /\ ~Spent(kind, S, t) /\ ~Cooling(kind, a, t) /\ ~(Cardinality(kept \cup S) > MailRows)
           /\ mails' = [s \in kept \cup S |-> IF s \in S THEN NewMailRow(kind, s, t) ELSE mails[s]]
           /\ mailClock' = t
           /\ tally' = Counted(S, p)
           /\ lastSent' = IF kind = "send" THEN [lastSent EXCEPT ![a] = t] ELSE lastSent
    <2> DEFINE same(s) == s \in DOMAIN mails /\ mails[s].period = p
    <2>1. /\ DOMAIN mails' = kept \cup S
          /\ \A s \in kept \ S : mails'[s] = mails[s]
          /\ \A s \in S : mails'[s] = NewMailRow(kind, s, t)
        BY <1>8
    <2>2. ASSUME NEW s \in S
          PROVE  mails'[s] = [period |-> p, calls |-> IF same(s) THEN mails[s].calls + 1 ELSE 1,
                              last |-> t, expires |-> Expiry(kind, s, t)]
        BY <2>1 DEF NewMailRow
    <2>3. ASSUME NEW s \in S
          PROVE  /\ Expiry(kind, s, t) \in Nat /\ p + w <= Expiry(kind, s, t)
                 /\ s[1] = "send" => t + Minute <= Expiry(kind, s, t)
        BY <1>2, <1>3, RateNumbers DEF Expiry, Later2
    <2>4. ASSUME NEW s \in S, s \in DOMAIN mails
          PROVE  mails[s].period \in Nat /\ (mails[s].period = p \/ mails[s].period + w <= t)
        <3>1. /\ mails[s].last \in Nat /\ mails[s].last <= mailClock /\ mails[s].period \in Nat
              /\ mails[s].period = Base(s, mails[s].last)
            BY <2>4, MailRow DEF RateInv
        <3>2. mails[s].last <= t /\ mails[s].period = PeriodOf(kind, mails[s].last)
            BY <1>2, <1>5, <3>1
        <3>3. PeriodOf(kind, mails[s].last) # p => PeriodOf(kind, mails[s].last) + w <= t
            BY <1>2, <3>1, <3>2, Periods
        <3> QED BY <3>1, <3>2, <3>3
    <2>5. ASSUME NEW s \in MailKeys, NEW q \in Nat, <<s, q>> \in DOMAIN tally
          PROVE  (s \in DOMAIN mails /\ mails[s].period = q) \/ q + Gap(s) <= t
        <3>1. (s \in DOMAIN mails /\ mails[s].period = q) \/ q + Gap(s) <= mailClock
            BY <2>5 DEF RateInv, MailInv
        <3>2. Gap(s) \in Nat
            BY RateNumbers DEF Gap
        <3> QED BY <1>2, <3>1, <3>2
    <2>6. ASSUME NEW s \in S, <<s, p>> \in DOMAIN tally
          PROVE  same(s)
        <3>1. s \in MailKeys /\ Gap(s) = w
            BY <1>4, <1>5
        <3> HIDE DEF t, S, p, w
        <3> QED BY <1>2, <1>3, <2>5, <2>6, <3>1
    <2> HIDE DEF t, p, w, kept, S
    <2>7. tally' = Counted(S, p)
        BY <1>8
    <2>8. /\ \A k \in DOMAIN tally' : k \in DOMAIN tally \/ \E s \in S : k = <<s, p>>
          /\ \A s, q : <<s, q>> \in DOMAIN tally' <=> <<s, q>> \in DOMAIN tally \/ (s \in S /\ q = p)
          /\ \A s, q : <<s, q>> \in DOMAIN tally' =>
                 tally'[<<s, q>>] = (IF <<s, q>> \in DOMAIN tally THEN tally[<<s, q>>] ELSE 0)
                                      + (IF s \in S /\ q = p THEN 1 ELSE 0)
        BY <2>7, CountedIs
    <2>9. \A s, q : <<s, q>> \in DOMAIN tally' <=> <<s, q>> \in DOMAIN tally \/ (s \in S /\ q = p)
        BY <2>8
    <2>10. \A s, q : <<s, q>> \in DOMAIN tally' =>
              tally'[<<s, q>>] = (IF <<s, q>> \in DOMAIN tally THEN tally[<<s, q>>] ELSE 0)
                                   + (IF s \in S /\ q = p THEN 1 ELSE 0)
        BY <2>8
    <2>11. ASSUME NEW s, NEW q, <<s, q>> \in DOMAIN tally, ~(s \in S /\ q = p), tally[<<s, q>>] \in Nat
           PROVE  <<s, q>> \in DOMAIN tally' /\ tally'[<<s, q>>] = tally[<<s, q>>]
        <3>1. <<s, q>> \in DOMAIN tally' <=> <<s, q>> \in DOMAIN tally \/ (s \in S /\ q = p)
            BY <2>9
        <3>2. tally'[<<s, q>>] = (IF <<s, q>> \in DOMAIN tally THEN tally[<<s, q>>] ELSE 0)
                                   + (IF s \in S /\ q = p THEN 1 ELSE 0)
            BY <2>10, <2>11, <3>1
        <3> QED BY <2>11, <3>1, <3>2
    <2>12. \A s \in S : /\ mails'[s].period = p /\ mails'[s].last = t /\ mails'[s].expires = Expiry(kind, s, t)
                        /\ <<s, p>> \in DOMAIN tally' /\ tally'[<<s, p>>] = mails'[s].calls
                        /\ mails'[s].calls \in Nat /\ mails'[s].calls <= Limit[s[1]]
        <3>1. ASSUME NEW s \in S
              PROVE  /\ mails'[s].period = p /\ mails'[s].last = t /\ mails'[s].expires = Expiry(kind, s, t)
                     /\ <<s, p>> \in DOMAIN tally' /\ tally'[<<s, p>>] = mails'[s].calls
                     /\ mails'[s].calls \in Nat /\ mails'[s].calls <= Limit[s[1]]
            <4>1. s \in MailKeys
                BY <1>4
            <4>2. <<s, p>> \in DOMAIN tally' <=> <<s, p>> \in DOMAIN tally \/ (s \in S /\ p = p)
                BY <2>9
            <4>3. Limit[s[1]] \in Nat /\ 1 <= Limit[s[1]] /\ <<s, p>> \in DOMAIN tally'
                BY <4>1, <4>2, RateNumbers
            <4>4. tally'[<<s, p>>] = (IF <<s, p>> \in DOMAIN tally THEN tally[<<s, p>>] ELSE 0) + 1
                <5>1. tally'[<<s, p>>] = (IF <<s, p>> \in DOMAIN tally THEN tally[<<s, p>>] ELSE 0)
                                            + (IF s \in S /\ p = p THEN 1 ELSE 0)
                    BY <2>10, <4>3
                <5> QED BY <5>1
            <4>5. mails'[s] = [period |-> p, calls |-> IF same(s) THEN mails[s].calls + 1 ELSE 1,
                               last |-> t, expires |-> Expiry(kind, s, t)]
                BY <2>2
            <4>6. CASE same(s)
                <5>1. /\ mails[s].calls \in Nat /\ <<s, p>> \in DOMAIN tally
                      /\ tally[<<s, p>>] = mails[s].calls
                    BY <4>6, MailRow DEF RateInv
                <5>2. ~(mails[s].calls >= Limit[s[1]])
                    BY <1>8, <4>6 DEF Spent, p
                <5> HIDE DEF same
                <5>3. mails'[s].period = p /\ mails'[s].calls = mails[s].calls + 1 /\ mails'[s].last = t
                      /\ mails'[s].expires = Expiry(kind, s, t)
                    BY <4>5, <4>6
                <5> QED BY <4>3, <4>4, <5>1, <5>2, <5>3
            <4>7. CASE ~same(s)
                <5>1. <<s, p>> \notin DOMAIN tally
                    BY <2>6, <4>7
                <5> HIDE DEF same
                <5>3. mails'[s].period = p /\ mails'[s].calls = 1 /\ mails'[s].last = t
                      /\ mails'[s].expires = Expiry(kind, s, t)
                    BY <4>5, <4>7
                <5> QED BY <4>3, <4>4, <5>1, <5>3
            <4> QED BY <4>6, <4>7
        <3> QED BY <3>1
    <2> HIDE DEF same
    <2>13. TallyInv'
        <3>1. DOMAIN tally' \subseteq (RateKeys \cup MailKeys) \X Nat
            BY <1>3, <1>4, <2>8 DEF RateInv, TallyInv
        <3>2. ASSUME NEW s \in RateKeys \cup MailKeys, NEW q \in Nat, <<s, q>> \in DOMAIN tally'
              PROVE  tally'[<<s, q>>] \in Nat /\ tally'[<<s, q>>] <= Limit[s[1]]
            <4>1. CASE s \in S /\ q = p
                BY <2>12, <4>1
            <4>2. CASE ~(s \in S /\ q = p)
                <5>1. <<s, q>> \in DOMAIN tally
                    BY <2>9, <3>2, <4>2
                <5>2. tally[<<s, q>>] \in Nat /\ tally[<<s, q>>] <= Limit[s[1]]
                    BY <5>1 DEF RateInv, TallyInv
                <5> QED BY <2>11, <4>2, <5>1, <5>2
            <4> QED BY <4>1, <4>2
        <3> QED BY <3>1, <3>2 DEF TallyInv
    <2>14. PreviewInv'
        <3>1. ASSUME NEW s \in RateKeys, NEW q \in Nat
              PROVE  <<s, q>> \in DOMAIN tally' <=> <<s, q>> \in DOMAIN tally
            <4>1. s \notin S
                BY <1>4
            <4>2. <<s, q>> \in DOMAIN tally' <=> <<s, q>> \in DOMAIN tally \/ (s \in S /\ q = p)
                BY <2>9
            <4> QED BY <4>1, <4>2
        <3>2. ASSUME NEW s \in DOMAIN rates
              PROVE  <<s, rates[s].minute>> \in DOMAIN tally' /\ tally'[<<s, rates[s].minute>>] = rates[s].calls
            <4>1. s \in RateKeys /\ s \notin S /\ rates[s].calls \in Nat
                BY <1>4, RateRow DEF RateInv
            <4>2. <<s, rates[s].minute>> \in DOMAIN tally /\ tally[<<s, rates[s].minute>>] = rates[s].calls
                BY DEF RateInv, PreviewInv
            <4> QED BY <2>11, <4>1, <4>2
        <3> QED BY <1>1, <3>1, <3>2 DEF RateInv, PreviewInv
    <2>15. MailInv'
        <3>1. IsFiniteSet(DOMAIN mails') /\ Cardinality(DOMAIN mails') <= MailRows /\ DOMAIN mails' \subseteq MailKeys
            <4>1. IsFiniteSet(DOMAIN mails) /\ DOMAIN mails \subseteq MailKeys
                BY DEF RateInv, MailInv
            <4>2. kept \subseteq DOMAIN mails
                BY DEF kept
            <4>3. IsFiniteSet(kept \cup S)
                BY <1>4, <4>1, <4>2, FS_Subset, FS_Union
            <4>4. Cardinality(kept \cup S) \in Nat
                BY <4>3, FS_CardinalityType
            <4> QED BY <1>4, <1>8, <2>1, <4>1, <4>2, <4>3, <4>4, RateNumbers
        <3>2. ASSUME NEW s \in DOMAIN mails'
              PROVE  /\ mails'[s].last \in Nat /\ mails'[s].last <= mailClock' /\ mails'[s].calls \in Nat
                     /\ mails'[s].period = Base(s, mails'[s].last)
                     /\ mails'[s].expires \in Nat /\ mails'[s].period + Gap(s) <= mails'[s].expires
                     /\ s[1] = "send" => mails'[s].last + Minute <= mails'[s].expires
                     /\ <<s, mails'[s].period>> \in DOMAIN tally' /\ tally'[<<s, mails'[s].period>>] = mails'[s].calls
            <4>1. CASE s \in S
                <5>1. /\ mails'[s].period = p /\ mails'[s].last = t /\ mails'[s].expires = Expiry(kind, s, t)
                      /\ <<s, p>> \in DOMAIN tally' /\ tally'[<<s, p>>] = mails'[s].calls
                      /\ mails'[s].calls \in Nat
                    BY <2>12, <4>1
                <5>2. /\ Expiry(kind, s, t) \in Nat /\ p + w <= Expiry(kind, s, t)
                      /\ s[1] = "send" => t + Minute <= Expiry(kind, s, t)
                    BY <2>3, <4>1
                <5>3. Gap(s) = w /\ Base(s, t) = p
                    BY <1>5, <4>1 DEF p
                <5> QED BY <1>2, <1>8, <5>1, <5>2, <5>3
            <4>2. CASE s \notin S
                <5>1. s \in DOMAIN mails /\ mails'[s] = mails[s]
                    BY <2>1, <3>2, <4>2 DEF kept
                <5>2. /\ mails[s].last \in Nat /\ mails[s].last <= mailClock /\ mails[s].calls \in Nat
                      /\ mails[s].period = Base(s, mails[s].last)
                      /\ mails[s].expires \in Nat /\ mails[s].period + Gap(s) <= mails[s].expires
                      /\ s[1] = "send" => mails[s].last + Minute <= mails[s].expires
                      /\ <<s, mails[s].period>> \in DOMAIN tally /\ tally[<<s, mails[s].period>>] = mails[s].calls
                    BY <5>1, MailRow DEF RateInv
                <5>3. <<s, mails[s].period>> \in DOMAIN tally' /\ tally'[<<s, mails[s].period>>] = mails[s].calls
                    BY <2>11, <4>2, <5>2
                <5> QED BY <1>2, <1>8, <5>1, <5>2, <5>3
            <4> QED BY <4>1, <4>2
        <3>3. ASSUME NEW s \in MailKeys, NEW q \in Nat, <<s, q>> \in DOMAIN tally'
              PROVE  (s \in DOMAIN mails' /\ mails'[s].period = q) \/ q + Gap(s) <= t
            <4>1. CASE s \in S /\ q = p
                BY <2>1, <2>12, <4>1
            <4>2. CASE s \in S /\ q # p
                <5>1. <<s, q>> \in DOMAIN tally
                    BY <2>9, <3>3, <4>2
                <5>2. (s \in DOMAIN mails /\ mails[s].period = q) \/ q + Gap(s) <= t
                    BY <2>5, <5>1
                <5>3. Gap(s) = w
                    BY <1>5, <4>2
                <5> QED BY <2>4, <4>2, <5>2, <5>3
            <4>3. CASE s \notin S
                <5>1. <<s, q>> \in DOMAIN tally
                    BY <2>9, <3>3, <4>3
                <5>2. (s \in DOMAIN mails /\ mails[s].period = q) \/ q + Gap(s) <= t
                    BY <2>5, <5>1
                <5>3. CASE s \in DOMAIN mails /\ mails[s].period = q /\ s \in swept
                    <6>1. /\ mails[s].expires \in Nat /\ q + Gap(s) <= mails[s].expires /\ Gap(s) \in Nat
                        BY <5>3, MailRow DEF RateInv
                    <6>2. mails[s].expires <= t
                        BY <1>6, <5>3
                    <6> QED BY <1>2, <6>1, <6>2
                <5>4. CASE s \in DOMAIN mails /\ mails[s].period = q /\ s \notin swept
                    BY <2>1, <4>3, <5>4 DEF kept
                <5> QED BY <5>2, <5>3, <5>4
            <4> QED BY <4>1, <4>2, <4>3
        <3>4. mailClock' = t
            BY <1>8
        <3> QED BY <1>2, <3>1, <3>2, <3>3, <3>4 DEF MailInv
    <2>16. ASSUME NEW b \in Addresses, lastSent[b] # Never
           PROVE  /\ lastSent[b] \in Nat
                  /\ \/ <<"send", b>> \in DOMAIN mails /\ mails[<<"send", b>>].last = lastSent[b]
                     \/ lastSent[b] + Minute <= t
        <3>1. /\ lastSent[b] \in Nat
              /\ \/ <<"send", b>> \in DOMAIN mails /\ mails[<<"send", b>>].last = lastSent[b]
                 \/ lastSent[b] + Minute <= mailClock
            BY <2>16 DEF RateInv, SentInv
        <3> QED BY <1>2, <3>1, RateNumbers
    <2>17. /\ DOMAIN lastSent' = Addresses
           /\ \A b \in Addresses : lastSent'[b] = IF kind = "send" /\ b = a THEN t ELSE lastSent[b]
        <3>1. DOMAIN lastSent = Addresses
            BY DEF RateInv, SentInv
        <3> QED BY <1>8, <3>1
    <2>18. SentInv'
        <3>1. ASSUME NEW b \in Addresses, lastSent'[b] # Never
              PROVE  /\ lastSent'[b] \in Nat
                     /\ \/ <<"send", b>> \in DOMAIN mails' /\ mails'[<<"send", b>>].last = lastSent'[b]
                        \/ lastSent'[b] + Minute <= t
            <4>1. CASE kind = "send" /\ b = a
                <5>1. lastSent'[b] = t /\ <<"send", b>> \in S
                    BY <1>4, <2>17, <4>1
                <5> QED BY <1>2, <2>1, <2>12, <5>1
            <4>2. CASE ~(kind = "send" /\ b = a)
                <5>1. lastSent'[b] = lastSent[b] /\ <<"send", b>> \notin S
                    BY <1>4, <2>17, <4>2
                <5>2. /\ lastSent[b] \in Nat
                      /\ \/ <<"send", b>> \in DOMAIN mails /\ mails[<<"send", b>>].last = lastSent[b]
                         \/ lastSent[b] + Minute <= t
                    BY <2>16, <3>1, <5>1
                <5>3. CASE <<"send", b>> \in DOMAIN mails /\ mails[<<"send", b>>].last = lastSent[b] /\ <<"send", b>> \in swept
                    <6>1. /\ mails[<<"send", b>>].expires \in Nat /\ lastSent[b] + Minute <= mails[<<"send", b>>].expires
                        BY <5>3, MailRow DEF RateInv
                    <6>2. mails[<<"send", b>>].expires <= t
                        BY <1>6, <5>3
                    <6> QED BY <1>2, <5>1, <5>2, <6>1, <6>2, RateNumbers
                <5>4. CASE <<"send", b>> \in DOMAIN mails /\ mails[<<"send", b>>].last = lastSent[b] /\ <<"send", b>> \notin swept
                    <6>1. <<"send", b>> \in kept \ S
                        BY <5>1, <5>4 DEF kept
                    <6> QED BY <2>1, <5>1, <5>2, <5>4, <6>1
                <5> QED BY <5>1, <5>2, <5>3, <5>4
            <4> QED BY <4>1, <4>2
        <3>2. mailClock' = t
            BY <1>8
        <3> QED BY <2>17, <3>1, <3>2 DEF SentInv
    <2>19. ASSUME NEW b \in Addresses, lastSent'[b] # lastSent[b], lastSent[b] # Never
           PROVE  lastSent'[b] >= lastSent[b] + Minute
        <3>1. kind = "send" /\ b = a /\ lastSent'[b] = t
            BY <2>17, <2>19
        <3>2. /\ lastSent[b] \in Nat
              /\ \/ <<"send", b>> \in DOMAIN mails /\ mails[<<"send", b>>].last = lastSent[b]
                 \/ lastSent[b] + Minute <= t
            BY <2>16, <2>19
        <3>3. <<"send", b>> \in DOMAIN mails => ~(mails[<<"send", b>>].last + Minute > t)
            BY <1>8, <3>1 DEF Cooling
        <3> QED BY <1>2, <3>1, <3>2, <3>3, RateNumbers
    <2> QED BY <1>1, <1>2, <1>8, <2>13, <2>14, <2>15, <2>18, <2>19 DEF RateInv
<1> QED BY <1>pick, <1>7, <1>8

LEMMA RateStart == RateInit => RateInv
<1> SUFFICES ASSUME RateInit PROVE RateInv
    OBVIOUS
<1>1. DOMAIN tally = {} /\ DOMAIN rates = {} /\ DOMAIN mails = {} /\ rateClock = 0 /\ mailClock = 0
    BY DEF RateInit
<1>2. IsFiniteSet({}) /\ Cardinality({}) = 0
    BY FS_EmptySet
<1>3. TallyInv
    BY <1>1 DEF TallyInv
<1>4. PreviewInv
    BY <1>1, <1>2, RateNumbers DEF PreviewInv
<1>5. MailInv
    BY <1>1, <1>2, RateNumbers DEF MailInv
<1>6. SentInv
    BY DEF RateInit, SentInv
<1> QED BY <1>3, <1>4, <1>5, <1>6 DEF RateInv

(* What a turn of either limiter keeps, and what it may do.                  *)
RateTurn ==
    /\ rateClock' >= rateClock /\ mailClock' >= mailClock
    /\ \A a \in Addresses : lastSent'[a] # lastSent[a] /\ lastSent[a] # Never => lastSent'[a] >= lastSent[a] + Minute

LEMMA RateKeeps == RateInv /\ [RateNext]_rateVars => RateInv' /\ (RateTurn \/ UNCHANGED rateVars)
<1> SUFFICES ASSUME RateInv, [RateNext]_rateVars PROVE RateInv' /\ (RateTurn \/ UNCHANGED rateVars)
    OBVIOUS
<1>1. rateClock \in Nat /\ mailClock \in Nat
    BY DEF RateInv, PreviewInv, MailInv
<1>2. ASSUME NEW subjects \in SUBSET RateKeys, IsFiniteSet(subjects), NEW now \in Nat, Admit(subjects, now)
      PROVE  RateInv' /\ RateTurn
    <2>1. RateInv' /\ rateClock <= rateClock' /\ UNCHANGED <<mailClock, lastSent>>
        BY <1>2, AdmitKeeps
    <2>2. rateClock' \in Nat
        BY <2>1 DEF RateInv, PreviewInv
    <2> QED BY <1>1, <2>1, <2>2 DEF RateTurn
<1>3. Times \subseteq Nat
    BY RateNumbers DEF Times
<1>4. ASSUME NEW from \in Sources, NEW credential \in BOOLEAN, NEW signIn \in BOOLEAN, NEW now \in Times,
             Ingress(from, credential, signIn, now)
      PROVE  RateInv' /\ RateTurn
    <2> DEFINE A == {<<"ip", from>>}
               B == IF credential THEN {<<"credential", from>>} ELSE {}
               C == IF signIn THEN {<<"oauth", from>>} ELSE {}
    <2>1. IsFiniteSet(A) /\ IsFiniteSet(B) /\ IsFiniteSet(C)
        BY FS_Singleton, FS_EmptySet
    <2>2. A \in SUBSET RateKeys /\ B \in SUBSET RateKeys /\ C \in SUBSET RateKeys
        BY DEF RateKeys, RateBuckets
    <2>3. Admit(A \cup B \cup C, now)
        BY <1>4 DEF Ingress
    <2> HIDE DEF A, B, C
    <2>4. IsFiniteSet(A \cup B)
        BY <2>1, FS_Union
    <2>5. IsFiniteSet(A \cup B \cup C) /\ A \cup B \cup C \in SUBSET RateKeys
        BY <2>1, <2>2, <2>4, FS_Union
    <2> QED BY <1>2, <1>3, <2>3, <2>5
<1>5. ASSUME NEW channel \in {"read", "write", "security"}, NEW now \in Times, ActorCall(channel, now)
      PROVE  RateInv' /\ RateTurn
    <2>1. IsFiniteSet({<<"actor", channel>>})
        BY FS_Singleton
    <2>2. {<<"actor", channel>>} \in SUBSET RateKeys
        BY DEF RateKeys, RateBuckets, Channels
    <2> QED BY <1>2, <1>3, <1>5, <2>1, <2>2 DEF ActorCall
<1>6. ASSUME NEW kind \in {"send", "verify"}, NEW a \in Addresses, NEW from \in Sources, NEW now \in Times,
             Email(kind, a, from, now)
      PROVE  RateInv' /\ RateTurn
    <2>1. /\ RateInv' /\ mailClock <= mailClock' /\ UNCHANGED rateClock
          /\ \A b \in Addresses : lastSent'[b] # lastSent[b] /\ lastSent[b] # Never =>
               lastSent'[b] >= lastSent[b] + Minute
        BY <1>3, <1>6, EmailKeeps
    <2>2. mailClock' \in Nat
        BY <2>1 DEF RateInv, MailInv
    <2> QED BY <1>1, <2>1, <2>2 DEF RateTurn
<1>7. CASE RateNext
    <2>1. CASE PreviewCalls
        BY <1>4, <1>5, <2>1 DEF PreviewCalls
    <2>2. CASE MailCalls
        BY <1>6, <2>2 DEF MailCalls
    <2> QED BY <1>7, <2>1, <2>2 DEF RateNext
<1>8. CASE UNCHANGED rateVars
    BY <1>8 DEF rateVars, RateInv, TallyInv, PreviewInv, MailInv, SentInv
<1> QED BY <1>7, <1>8

LEMMA RatesInvariant == RateSpec => []RateInv
<1>1. RateInv /\ [RateNext]_rateVars => RateInv'
    BY RateKeeps
<1> QED BY RateStart, <1>1, PTL DEF RateSpec

\* No bucket admits more calls in a window than its limit and the tables stay within
\* their bounds, however late calls arrive and rows are forgotten or swept; no clock
\* runs backwards, and two mails to one address are a minute apart
\* (PreviewRateLimiter._check, EmailRateLimiter.email).
THEOREM RatesAreSound == RateSpec => RatesHold
<1>1. RateInv => /\ \A k \in DOMAIN tally : tally[k] <= Limit[k[1][1]]
                 /\ Cardinality(DOMAIN rates) <= RateRows /\ Cardinality(DOMAIN mails) <= MailRows
    <2> SUFFICES ASSUME RateInv
                 PROVE  /\ \A k \in DOMAIN tally : tally[k] <= Limit[k[1][1]]
                        /\ Cardinality(DOMAIN rates) <= RateRows /\ Cardinality(DOMAIN mails) <= MailRows
        OBVIOUS
    <2>1. ASSUME NEW k \in DOMAIN tally
          PROVE  tally[k] <= Limit[k[1][1]]
        <3>1. PICK s \in RateKeys \cup MailKeys, p \in Nat : k = <<s, p>>
            BY DEF RateInv, TallyInv
        <3>2. tally[<<s, p>>] <= Limit[s[1]]
            BY <3>1 DEF RateInv, TallyInv
        <3>3. k[1] = s
            BY <3>1
        <3> QED BY <3>1, <3>2, <3>3
    <2> QED BY <2>1 DEF RateInv, PreviewInv, MailInv
<1>2. RateInv /\ [RateNext]_rateVars => [RateTurn]_rateVars
    BY RateKeeps
<1> QED BY RatesInvariant, <1>1, <1>2, PTL DEF RatesHold, RateSpec, RateTurn

-----------------------------------------------------------------------------
(* Walks. The rows of a page are the least ranked of those that are left.    *)

LEMMA LeastIs == \A T \in SUBSET Nat : T # {} => \E u \in T : \A v \in T : u <= v
<1>1. IsWellFoundedOn(OpToRel(<, Nat), Nat)
    BY NatLessThanWellFounded
<1>2. ASSUME NEW T \in SUBSET Nat, T # {} PROVE \E u \in T : \A v \in T : u <= v
    <2>1. PICK u \in T : \A v \in T : ~(<<v, u>> \in OpToRel(<, Nat))
        BY <1>1, <1>2, WFMin
    <2>2. \A v \in T : ~(v < u)
        BY <2>1 DEF OpToRel
    <2> QED BY <2>2
<1> QED BY <1>2

LEMMA LargestIs ==
    ASSUME NEW T \in SUBSET Nat, T # {}, NEW B \in Nat, \A v \in T : v <= B
    PROVE  \E u \in T : \A v \in T : v <= u
<1> DEFINE U == {u \in Nat : \A v \in T : v <= u}
<1>1. PICK u \in U : \A x \in U : u <= x
    <2>1. U \in SUBSET Nat /\ B \in U
        OBVIOUS
    <2> QED BY <2>1, LeastIs
<1>2. CASE u \in T
    BY <1>1, <1>2
<1>3. CASE u \notin T
    <2>1. \A v \in T : v < u
        BY <1>1, <1>3
    <2>2. PICK v \in T : TRUE
        OBVIOUS
    <2>3. u - 1 \in Nat
        BY <1>1, <2>1, <2>2
    <2>4. \A x \in T : x <= u - 1
        BY <1>1, <2>1
    <2>5. u - 1 \in U
        BY <2>3, <2>4
    <2> QED BY <1>1, <2>5
<1> QED BY <1>2, <1>3

LEMMA PageIs ==
    ASSUME NEW a, a.cursor \in Nat, IsFiniteSet(Later(a)), NEW B \in Nat,
           \A i \in Later(a) : Rank(a.op, i) \in Nat /\ a.cursor < Rank(a.op, i) /\ Rank(a.op, i) <= B
    PROVE  /\ Page(a) \subseteq Later(a) /\ Reached(a) \in Nat /\ a.cursor <= Reached(a)
           /\ \A i \in Later(a) : i \in Page(a) <=> Rank(a.op, i) <= Reached(a)
           /\ Cardinality(Later(a)) <= PageSize => Page(a) = Later(a)
           /\ /\ \A i, j \in Later(a) : Rank(a.op, i) = Rank(a.op, j) => i = j
              /\ Cardinality(Page(a)) # PageSize
              => Page(a) = Later(a)
<1> DEFINE L == Later(a)
           P == Page(a)
           rk(i) == Rank(a.op, i)
           bf(i) == Before(a, i)
<1>1. PageSize \in Nat \ {0}
    BY AccessAssumption
<1>2. \A i : bf(i) = {j \in L : rk(j) < rk(i)}
    BY DEF Before
<1>3. P = {i \in L : Cardinality(bf(i)) < PageSize}
    BY DEF Page
<1>4. /\ IsFiniteSet(L)
      /\ \A i \in L : rk(i) \in Nat /\ a.cursor < rk(i) /\ rk(i) <= B
    OBVIOUS
<1>5. Reached(a) = IF P = {} THEN a.cursor ELSE CHOOSE r \in {rk(i) : i \in P} : \A i \in P : rk(i) <= r
    BY DEF Reached
<1> HIDE DEF L, P, rk, bf
<1>6. \A i \in L : IsFiniteSet(bf(i)) /\ Cardinality(bf(i)) \in Nat /\ bf(i) \subseteq L /\ i \notin bf(i)
    <2> TAKE i \in L
    <2>1. bf(i) \subseteq L /\ i \notin bf(i)
        BY <1>2, <1>4
    <2>2. IsFiniteSet(bf(i))
        BY <1>4, <2>1, FS_Subset
    <2> QED BY <2>1, <2>2, FS_CardinalityType
<1>7. ASSUME NEW i \in L, NEW j \in P, rk(i) <= rk(j)
      PROVE  i \in P
    <2>1. j \in L /\ Cardinality(bf(j)) < PageSize
        BY <1>3
    <2>2. bf(i) \subseteq bf(j)
        BY <1>2, <1>4, <1>7, <2>1
    <2>3. Cardinality(bf(i)) <= Cardinality(bf(j))
        BY <1>6, <2>1, <2>2, FS_Subset
    <2>4. Cardinality(bf(i)) < PageSize
        BY <1>1, <1>6, <2>1, <2>3
    <2> QED BY <1>3, <2>4
<1>8. P \subseteq L
    BY <1>3
<1>9. CASE P = {}
    <2>1. L = {}
        <3> SUFFICES ASSUME L # {} PROVE FALSE
            OBVIOUS
        <3>1. {rk(i) : i \in L} \in SUBSET Nat /\ {rk(i) : i \in L} # {}
            BY <1>4
        <3>2. PICK u \in {rk(i) : i \in L} : \A v \in {rk(i) : i \in L} : u <= v
            BY <3>1, LeastIs
        <3>3. PICK i \in L : u = rk(i)
            BY <3>2
        <3>4. \A j \in L : rk(i) <= rk(j)
            BY <3>2, <3>3
        <3>5. bf(i) = {}
            BY <1>2, <1>4, <3>3, <3>4
        <3>6. Cardinality(bf(i)) = 0
            BY <3>5, FS_EmptySet
        <3>7. i \in P
            BY <1>1, <1>3, <3>6
        <3> QED BY <1>9, <3>7
    <2> QED BY <1>5, <1>9, <2>1 DEF L, P, rk
<1>10. CASE P # {}
    <2> DEFINE T == {rk(i) : i \in P}
    <2>1. T \in SUBSET Nat /\ T # {} /\ \A v \in T : v <= B
        BY <1>4, <1>8, <1>10
    <2>2. \E u \in T : \A v \in T : v <= u
        <3> HIDE DEF T
        <3> QED BY <2>1, LargestIs
    <2>3. Reached(a) \in T /\ \A i \in P : rk(i) <= Reached(a)
        <3>1. \E u \in T : \A i \in P : rk(i) <= u
            BY <2>2
        <3>2. Reached(a) = CHOOSE r \in T : \A i \in P : rk(i) <= r
            BY <1>5, <1>10
        <3> HIDE DEF T
        <3> QED BY <3>1, <3>2
    <2>4. PICK m \in P : Reached(a) = rk(m)
        BY <2>3
    <2>5. m \in L /\ rk(m) \in Nat /\ a.cursor < rk(m)
        BY <1>4, <1>8
    <2>6. \A i \in L : i \in P <=> rk(i) <= rk(m)
        BY <1>7, <2>3, <2>4
    <2>7. ASSUME Cardinality(L) <= PageSize
          PROVE  P = L
        <3>1. ASSUME NEW i \in L PROVE i \in P
            <4>1. bf(i) # L
                BY <1>6
            <4>2. Cardinality(bf(i)) <= Cardinality(L) /\ Cardinality(bf(i)) # Cardinality(L) /\ Cardinality(L) \in Nat
                BY <1>4, <1>6, <4>1, FS_Subset, FS_CardinalityType
            <4>3. Cardinality(bf(i)) < PageSize
                BY <1>1, <1>6, <2>7, <4>2
            <4> QED BY <1>3, <4>3
        <3> QED BY <1>8, <3>1
    <2>8. ASSUME \A i, j \in L : rk(i) = rk(j) => i = j, P # L
          PROVE  Cardinality(P) = PageSize
        <3>1. \E i \in L : i \notin P
            BY <1>8, <2>8
        <3> DEFINE V == {rk(i) : i \in L \ P}
        <3>2. V \in SUBSET Nat /\ V # {}
            BY <1>4, <3>1
        <3>3. PICK u \in V : \A v \in V : u <= v
            BY <3>2, LeastIs
        <3>4. PICK i \in L \ P : u = rk(i)
            BY <3>3
        <3>5. \A j \in L \ P : rk(i) <= rk(j)
            BY <3>3, <3>4
        <3> HIDE DEF V
        <3>6. bf(i) = P
            <4>1. \A j \in bf(i) : j \in P
                BY <1>2, <1>4, <3>4, <3>5
            <4>2. \A j \in P : j \in bf(i)
                BY <1>2, <1>4, <1>7, <1>8, <3>4
            <4> QED BY <4>1, <4>2
        <3>7. Cardinality(P) >= PageSize /\ IsFiniteSet(P) /\ Cardinality(P) \in Nat
            <4>1. IsFiniteSet(bf(i)) /\ Cardinality(bf(i)) \in Nat
                BY <1>6, <3>4
            <4>2. ~(Cardinality(bf(i)) < PageSize)
                BY <1>3, <3>4
            <4> QED BY <1>1, <3>6, <4>1, <4>2
        <3>8. bf(m) = P \ {m}
            <4>1. \A j \in L : rk(j) < rk(m) <=> j \in P /\ j # m
                BY <1>4, <2>5, <2>6, <2>8
            <4> QED BY <1>2, <1>8, <4>1
        <3>9. Cardinality(bf(m)) = Cardinality(P) - 1
            BY <3>7, <3>8, FS_RemoveElement
        <3>10. Cardinality(bf(m)) < PageSize
            BY <1>3, <2>4
        <3> QED BY <1>1, <3>7, <3>9, <3>10
    <2> QED BY <1>8, <2>4, <2>5, <2>6, <2>7, <2>8 DEF L, P, rk
<1> QED BY <1>9, <1>10

-----------------------------------------------------------------------------
(* The rows, and what a request in flight has decided and listed.            *)

Held == {"person", "guest", "batch", "commit"}
Going == Held \cup {"credential"}
Walking == Going \cup {"next"}
Paged == {"list", "export", "activity"}

RowsTyped ==
    /\ person \in [Persons -> [rev : Nat, login : BOOLEAN]]
    /\ signed \in [Persons -> Nat \cup {None}]
    /\ guest \in [role : GuestRoles, rev : Nat, removed : BOOLEAN]
    /\ tokens \in [Tokens -> Token \cup {None}]
    /\ entries \in [Ids -> EntryRow \cup {None}]
    /\ feed \in [EventIds -> FeedRow \cup {None}]
    /\ gone \in BOOLEAN /\ hour \in Hours

Shaped(a) ==
    /\ a = [pc |-> a.pc, op |-> a.op, cred |-> a.cred, now |-> a.now, want |-> a.want, seen |-> a.seen,
            cursor |-> a.cursor, anchor |-> a.anchor, out |-> a.out, due |-> a.due]
    /\ a.seen = [credential |-> a.seen.credential, person |-> a.seen.person,
                 host |-> a.seen.host, guest |-> a.seen.guest]

AskTyped(a) ==
    /\ Shaped(a)
    /\ a.pc \in Walking \cup {"idle", "done", "refused"} /\ a.op \in Reads \cup {"keys", "issue", "revoke"}
    /\ a.cred \in Credentials /\ a.now \in Nat /\ a.cursor \in Nat
    /\ a.out \in Seq(SUBSET EventIds) /\ a.due \subseteq EventIds
    /\ a.pc \in {"idle", "refused"} => a.out = <<>>
    /\ a.pc \in Walking /\ a.op \notin Paged => a.out = <<>>
    /\ a.pc \in Going /\ a.op \notin Reads => a.cred.kind = "session"
    /\ a.pc \in Going /\ a.op = "issue" => a.want \in [scopes : Wishes, pools : Covers]
    /\ a.pc \in Going /\ a.op = "revoke" => a.want \in Tokens
    /\ a.pc = "commit" => a.op \in {"issue", "revoke"}
    /\ a.pc = "next" => a.op \in {"list", "activity"}

(* What was decided by is what the credential's row still says, but for the  *)
(* revocation; the member row is compared again in the batch.                *)
AuthHeld(a) ==
    /\ a.pc \in Held /\ KeyUsed(a) => tokens[a.cred.id] # None /\ a.seen.credential = tokens[a.cred.id]
    /\ a.pc \in {"guest", "batch", "commit"} =>
         /\ ~KeyUsed(a) => a.seen.person.login
         /\ a.op = "activity" => a.want \in PoolsOf(a)
    /\ a.pc \in {"batch", "commit"} /\ Elsewhere(a) =>
         /\ ~a.seen.guest.removed /\ Scope(a.op) \in RoleScopes[a.seen.guest.role]
         /\ KeyUsed(a) => a.seen.credential.rev = a.seen.guest.rev
    /\ a.pc = "commit" =>
         /\ a.op = "issue" => a.want.scopes \subseteq RoleScopes[RoleOf(a)]
         /\ a.op = "revoke" => tokens[a.want] # None /\ tokens[a.want].of = Actor(a)

Listed(a, i) == \E n \in DOMAIN a.out : i \in a.out[n]
Once(a, i) == \A m, n \in DOMAIN a.out : i \in a.out[m] /\ i \in a.out[n] => m = n

EntryKept(a, i) ==
    /\ i \in Ids /\ entries[i] # None /\ entries[i].live
    /\ Offered(a, entries[i].pool) /\ (entries[i].pool = "project" => ~gone)

(* The cursor separates what was listed from what is still to come.          *)
WalkHeld(a) ==
    /\ a.pc \in Walking /\ a.op \in Paged =>
         /\ a.out = <<>> => a.cursor = 0 /\ a.due = {}
         /\ \A i \in a.due : Once(a, i) /\ (Listed(a, i) <=> Rank(a.op, i) <= a.cursor)
         /\ a.op \in {"list", "export"} => \A i \in a.due : EntryKept(a, i)
         /\ a.op \in {"list", "activity"} =>
              \A i \in EventIds : Once(a, i) /\ (Listed(a, i) => Rank(a.op, i) <= a.cursor)
         /\ a.op = "activity" => \A i \in EventIds : Listed(a, i) \/ i \in a.due => feed[i] # None
    /\ a.pc = "done" /\ a.op \in Reads => \A i \in a.due : Listed(a, i) /\ Once(a, i)
    /\ a.pc = "done" /\ a.op \in {"list", "activity"} => \A i \in EventIds : Once(a, i)

AskInv(a) == AskTyped(a) /\ AuthHeld(a) /\ WalkHeld(a)

AccessInv == RowsTyped /\ AskInv(ask)

LEMMA AccessConstants ==
    /\ MaxId \in Nat /\ PageSize \in Nat \ {0} /\ MaxEvent \in Nat /\ MaxId <= MaxEvent /\ MaxHour \in Nat
    /\ Ids \subseteq EventIds /\ IsFiniteSet(EventIds)
    /\ Host \in Persons /\ Guest \in Persons
<1>1. IsFiniteSet(1..MaxEvent)
    BY AccessAssumption, FS_Interval
<1> QED BY <1>1, AccessAssumption DEF Ids, EventIds, Persons

LEMMA RankIs ==
    /\ \A i : Rank("list", i) = i
    /\ \A i : Rank("export", i) = entries[i].day * (MaxId + 1) + i
    /\ \A i : Rank("activity", i) = (MaxHour - feed[i].at) * (MaxEvent + 1) + (MaxEvent + 1 - i)
BY DEF Rank

(* Nothing of a refused request is left.                                     *)
LEMMA Refused ==
    ASSUME NEW a, ask' = Refuse(a)
    PROVE  AskInv(ask)' /\ ask'.out = <<>>
<1>1. ask' = [pc |-> "refused", op |-> "list", cred |-> [kind |-> "session", id |-> Host], now |-> 0,
           want |-> None, seen |-> NoneSeen, cursor |-> 0, anchor |-> 0, out |-> <<>>, due |-> {}]
    BY DEF Refuse, Unasked
<1>2. Shaped(ask)'
    BY <1>1 DEF Shaped, NoneSeen
<1>3. [kind |-> "session", id |-> Host] \in Credentials
    BY AccessConstants DEF Credentials
<1>4. AskTyped(ask)'
    BY <1>1, <1>2, <1>3 DEF AskTyped, Walking, Going, Held, Reads, Paged
<1>5. AuthHeld(ask)'
    BY <1>1 DEF AuthHeld, Held
<1>6. WalkHeld(ask)'
    BY <1>1 DEF WalkHeld, Walking, Going, Held
<1> QED BY <1>1, <1>4, <1>5, <1>6 DEF AskInv

LEMMA Finished ==
    ASSUME ask.pc \in Going, AskTyped(ask), ask.op \notin Reads, ask' = Finish(ask)
    PROVE  AskInv(ask)' /\ ask'.out = <<>>
<1>1. ask' = [pc |-> "done", op |-> ask.op, cred |-> [kind |-> "session", id |-> Host], now |-> 0,
           want |-> None, seen |-> NoneSeen, cursor |-> 0, anchor |-> 0, out |-> <<>>, due |-> ask.due]
    BY DEF Finish, Unasked, AskTyped, Going, Walking, Reads, Paged
<1>2. Shaped(ask)'
    BY <1>1 DEF Shaped, NoneSeen
<1>3. [kind |-> "session", id |-> Host] \in Credentials
    BY AccessConstants DEF Credentials
<1>4. AskTyped(ask)'
    BY <1>1, <1>2, <1>3 DEF AskTyped, Walking, Going, Held, Paged, Reads
<1>5. AuthHeld(ask)'
    BY <1>1 DEF AuthHeld, Held
<1>6. WalkHeld(ask)'
    BY <1>1 DEF WalkHeld, Walking, Going, Held, Reads
<1> QED BY <1>1, <1>4, <1>5, <1>6 DEF AskInv

(* A step of the request that only goes on.                                  *)
LEMMA WalkCarries ==
    ASSUME UNCHANGED stored, WalkHeld(ask), ask.pc \in Walking, ask'.pc \in Walking, ask'.op = ask.op,
           ask'.cred = ask.cred, ask'.cursor = ask.cursor, ask'.out = ask.out, ask'.due = ask.due
    PROVE  WalkHeld(ask)'
<1>1. UNCHANGED <<tokens, entries, gone, feed>>
    BY DEF stored
<1>2. ask'.pc # "done"
    BY DEF Walking, Going, Held
<1>3. \A i : (Once(ask, i)' <=> Once(ask, i)) /\ (Listed(ask, i)' <=> Listed(ask, i))
    BY DEF Once, Listed
<1>4. \A i : Rank(ask.op, i)' = Rank(ask.op, i)
    BY <1>1 DEF Rank
<1>5. \A i : EntryKept(ask, i)' <=> EntryKept(ask, i)
    BY <1>1 DEF EntryKept, Offered, KeyUsed
<1> QED BY <1>1, <1>2, <1>3, <1>4, <1>5 DEF WalkHeld

LEMMA Going5 == \A pc \in Going : pc \in Walking /\ pc \notin {"idle", "refused", "done", "next"}
BY DEF Going, Walking, Held

LEMMA AskShaped == AccessInv => Shaped(ask)
BY DEF AccessInv, AskInv, AskTyped

-----------------------------------------------------------------------------
(* The steps of a request that read and decide.                              *)

AuthorityStep ==
    /\ Len(ask'.out) > Len(ask.out) =>
         /\ Authorized(ask)
         /\ LET served == ask'.out[Len(ask'.out)]
                pools == {IF ask.op = "activity" THEN feed[i].pool ELSE entries[i].pool : i \in served}
            IN \A pool \in pools : Offered(ask, pool) /\ (pool = "project" => ~gone)
    /\ \A t \in Tokens : tokens'[t] # tokens[t] =>
         /\ Authorized(ask)
         /\ IF tokens[t] = None
            THEN LET holder == tokens'[t].of IN
                 /\ holder = ask.cred.id
                 /\ tokens'[t].scopes \subseteq RoleScopes[IF holder = Host THEN "owner" ELSE guest.role]
                 /\ holder # Host => tokens'[t].rev = guest.rev
            ELSE tokens[t].of = ask.cred.id /\ tokens'[t] = [tokens[t] EXCEPT !.revoked = TRUE]

LEMMA QuietStep ==
    ASSUME AskTyped(ask), UNCHANGED tokens, ask'.out = ask.out \/ ask'.out = <<>>
    PROVE  AuthorityStep
<1>1. Len(ask.out) \in Nat /\ Len(<<>>) = 0
    BY DEF AskTyped
<1>2. ~(Len(ask'.out) > Len(ask.out))
    BY <1>1
<1> QED BY <1>2 DEF AuthorityStep

LEMMA RowsStay ==
    ASSUME RowsTyped, UNCHANGED <<stored, hour>>
    PROVE  RowsTyped' /\ UNCHANGED tokens
BY DEF RowsTyped, stored

LEMMA CallStep ==
    ASSUME AccessInv, NEW op \in Reads \cup {"keys", "issue", "revoke"}, NEW cred \in Credentials, Call(op, cred)
    PROVE  AccessInv' /\ AuthorityStep
<1>1. PICK want \in CASE op = "activity" -> Pools
                      [] op = "issue" -> [scopes : Wishes, pools : Covers]
                      [] op = "revoke" -> Tokens
                      [] OTHER -> {None} :
         ask' = [Unasked EXCEPT !.pc = "credential", !.op = op, !.cred = cred, !.now = hour, !.want = want]
    BY DEF Call
<1>2. /\ op = "issue" => want \in [scopes : Wishes, pools : Covers]
      /\ op = "revoke" => want \in Tokens
    BY <1>1
<1>3. ask' = [pc |-> "credential", op |-> op, cred |-> cred, now |-> hour, want |-> want, seen |-> NoneSeen,
              cursor |-> 0, anchor |-> 0, out |-> <<>>, due |-> {}]
    BY <1>1 DEF Unasked
<1>4. UNCHANGED <<stored, hour>> /\ (op \notin Reads => cred.kind = "session") /\ hour \in Nat
    <2>1. hour \in 0..MaxHour
        BY DEF AccessInv, RowsTyped, Hours
    <2>2. UNCHANGED <<stored, hour>> /\ (op \notin Reads => cred.kind = "session")
        BY DEF Call
    <2> QED BY <2>1, <2>2, AccessConstants
<1>5. RowsTyped' /\ UNCHANGED tokens
    BY <1>4, RowsStay DEF AccessInv
<1>6. Shaped(ask)'
    BY <1>3 DEF Shaped, NoneSeen
<1>7. AskTyped(ask)'
    BY <1>2, <1>3, <1>4, <1>6 DEF AskTyped, Walking, Going, Held, Paged
<1>8. AuthHeld(ask)'
    BY <1>3 DEF AuthHeld, Held
<1>9. WalkHeld(ask)'
    BY <1>3 DEF WalkHeld, Listed, Once
<1>10. AuthorityStep
    BY <1>3, <1>5, QuietStep DEF AccessInv, AskInv
<1> QED BY <1>5, <1>7, <1>8, <1>9, <1>10 DEF AccessInv, AskInv

LEMMA Filled ==
    ASSUME NEW r, Shaped(r), NEW pc, NEW x
    PROVE  /\ [r EXCEPT !.pc = pc, !.seen.credential = x] =
                [pc |-> pc, op |-> r.op, cred |-> r.cred, now |-> r.now, want |-> r.want,
                 seen |-> [credential |-> x, person |-> r.seen.person, host |-> r.seen.host, guest |-> r.seen.guest],
                 cursor |-> r.cursor, anchor |-> r.anchor, out |-> r.out, due |-> r.due]
           /\ [r EXCEPT !.pc = pc, !.seen.person = x] =
                [pc |-> pc, op |-> r.op, cred |-> r.cred, now |-> r.now, want |-> r.want,
                 seen |-> [credential |-> r.seen.credential, person |-> x, host |-> r.seen.host, guest |-> r.seen.guest],
                 cursor |-> r.cursor, anchor |-> r.anchor, out |-> r.out, due |-> r.due]
<1> DEFINE q == [r EXCEPT !.pc = pc]
<1>1. q = [pc |-> pc, op |-> r.op, cred |-> r.cred, now |-> r.now, want |-> r.want,
           seen |-> [credential |-> r.seen.credential, person |-> r.seen.person, host |-> r.seen.host, guest |-> r.seen.guest],
           cursor |-> r.cursor, anchor |-> r.anchor, out |-> r.out, due |-> r.due]
    BY DEF Shaped
<1>2. /\ [r EXCEPT !.pc = pc, !.seen.credential = x] = [q EXCEPT !.seen.credential = x]
      /\ [r EXCEPT !.pc = pc, !.seen.person = x] = [q EXCEPT !.seen.person = x]
    OBVIOUS
<1> HIDE DEF q
<1>3. [q EXCEPT !.seen.credential = x] =
         [pc |-> pc, op |-> r.op, cred |-> r.cred, now |-> r.now, want |-> r.want,
          seen |-> [credential |-> x, person |-> r.seen.person, host |-> r.seen.host, guest |-> r.seen.guest],
          cursor |-> r.cursor, anchor |-> r.anchor, out |-> r.out, due |-> r.due]
    BY <1>1
<1>4. [q EXCEPT !.seen.person = x] =
         [pc |-> pc, op |-> r.op, cred |-> r.cred, now |-> r.now, want |-> r.want,
          seen |-> [credential |-> r.seen.credential, person |-> x, host |-> r.seen.host, guest |-> r.seen.guest],
          cursor |-> r.cursor, anchor |-> r.anchor, out |-> r.out, due |-> r.due]
    BY <1>1
<1> QED BY <1>2, <1>3, <1>4

(* A step that fills in some of what was seen and goes on to the next.       *)
LEMMA Onward ==
    ASSUME AccessInv, UNCHANGED <<stored, hour>>, ask.pc \in Walking, NEW pc \in Going, NEW now \in Nat, NEW seen,
           seen = [credential |-> seen.credential, person |-> seen.person, host |-> seen.host, guest |-> seen.guest],
           ask' = [pc |-> pc, op |-> ask.op, cred |-> ask.cred, now |-> now, want |-> ask.want, seen |-> seen,
                   cursor |-> ask.cursor, anchor |-> ask.anchor, out |-> ask.out, due |-> ask.due],
           ask.pc = "next" \/ ask.pc \in Going, ask.pc = "next" => ask.op \in {"list", "activity"},
           pc = "commit" => ask.op \in {"issue", "revoke"},
           ask.pc = "next" => ask.op \in Paged
    PROVE  /\ RowsTyped' /\ AskTyped(ask)' /\ WalkHeld(ask)' /\ AuthorityStep
           /\ UNCHANGED tokens
<1>1. ask' = [pc |-> pc, op |-> ask.op, cred |-> ask.cred, now |-> now, want |-> ask.want, seen |-> seen,
              cursor |-> ask.cursor, anchor |-> ask.anchor, out |-> ask.out, due |-> ask.due]
    OBVIOUS
<1>2. RowsTyped' /\ UNCHANGED tokens
    BY RowsStay DEF AccessInv
<1>3. Shaped(ask)'
    BY <1>1 DEF Shaped
<1>4. pc \in Walking /\ pc \notin {"idle", "refused", "done", "next"}
    BY Going5
<1>5. AskTyped(ask)'
    BY <1>1, <1>3, <1>4 DEF AskTyped, AccessInv, AskInv, Paged, Reads
<1>6. WalkHeld(ask)'
    BY <1>1, <1>4, WalkCarries DEF AccessInv, AskInv
<1>7. AuthorityStep
    BY <1>1, <1>2, QuietStep DEF AccessInv, AskInv
<1> QED BY <1>1, <1>2, <1>5, <1>6, <1>7

LEMMA RefuseStep ==
    ASSUME AccessInv, UNCHANGED <<stored, hour>>, NEW a, ask' = Refuse(a)
    PROVE  AccessInv' /\ AuthorityStep
<1>1. RowsTyped' /\ UNCHANGED tokens
    BY RowsStay DEF AccessInv
<1>2. AskInv(ask)' /\ ask'.out = <<>>
    BY Refused
<1>3. AuthorityStep
    BY <1>1, <1>2, QuietStep DEF AccessInv, AskInv
<1> QED BY <1>1, <1>2, <1>3 DEF AccessInv

LEMMA ReadCredentialStep ==
    ASSUME AccessInv, ReadCredential
    PROVE  AccessInv' /\ AuthorityStep
<1>1. ask.pc = "credential" /\ UNCHANGED <<stored, hour>>
    BY DEF ReadCredential
<1>2. CASE ~CredentialUsable(ask, CredentialRow(ask))
    BY <1>1, <1>2, RefuseStep DEF ReadCredential
<1>3. CASE CredentialUsable(ask, CredentialRow(ask))
    <2> DEFINE seen == [credential |-> CredentialRow(ask), person |-> ask.seen.person,
                        host |-> ask.seen.host, guest |-> ask.seen.guest]
    <2>1. ask' = [ask EXCEPT !.pc = "person", !.seen.credential = CredentialRow(ask)]
        BY <1>3 DEF ReadCredential
    <2>2. ask' = [pc |-> "person", op |-> ask.op, cred |-> ask.cred, now |-> ask.now, want |-> ask.want, seen |-> seen,
                cursor |-> ask.cursor, anchor |-> ask.anchor, out |-> ask.out, due |-> ask.due]
        <3>1. Shaped(ask)
            BY DEF AccessInv, AskInv, AskTyped
        <3> QED BY <2>1, <3>1, Filled, ZenonT(30)
    <2>3. ask.now \in Nat /\ "person" \in Going /\ ask.pc \in Walking
        BY <1>1 DEF AccessInv, AskInv, AskTyped, Going, Held, Walking
    <2>4. /\ RowsTyped' /\ AskTyped(ask)' /\ WalkHeld(ask)' /\ AuthorityStep
          /\ ask' = [pc |-> "person", op |-> ask.op, cred |-> ask.cred, now |-> ask.now, want |-> ask.want, seen |-> seen,
                     cursor |-> ask.cursor, anchor |-> ask.anchor, out |-> ask.out, due |-> ask.due]
          /\ UNCHANGED tokens
        <3>1. seen = [credential |-> seen.credential, person |-> seen.person, host |-> seen.host, guest |-> seen.guest]
            OBVIOUS
        <3>2. ask.pc \in Going
            BY <1>1 DEF Going
        <3> HIDE DEF seen
        <3> QED BY <1>1, <2>2, <2>3, <3>1, <3>2, Onward
    <2>5. AuthHeld(ask)'
        <3>1. ask'.pc = "person" /\ ask'.cred = ask.cred /\ ask'.seen.credential = CredentialRow(ask)
            BY <2>4
        <3>2. KeyUsed(ask) => tokens[ask.cred.id] # None /\ CredentialRow(ask) = tokens[ask.cred.id]
            BY <1>3 DEF CredentialUsable, CredentialRow
        <3>3. KeyUsed(ask)' <=> KeyUsed(ask)
            BY <3>1 DEF KeyUsed
        <3> QED BY <2>4, <3>1, <3>2, <3>3 DEF AuthHeld
    <2> QED BY <2>4, <2>5 DEF AccessInv, AskInv
<1> QED BY <1>2, <1>3

LEMMA ReadPersonStep ==
    ASSUME AccessInv, ReadPerson
    PROVE  AccessInv' /\ AuthorityStep
<1> DEFINE found == person[Actor(ask)]
           pc == IF Elsewhere(ask) THEN "guest" ELSE "batch"
<1>1. ask.pc = "person" /\ UNCHANGED <<stored, hour>>
    BY DEF ReadPerson
<1>2. CASE (~KeyUsed(ask) /\ ~found.login) \/ (ask.op = "activity" /\ ask.want \notin PoolsOf(ask))
    BY <1>1, <1>2, RefuseStep DEF ReadPerson
<1>3. CASE ~((~KeyUsed(ask) /\ ~found.login) \/ (ask.op = "activity" /\ ask.want \notin PoolsOf(ask)))
    <2> DEFINE seen == [credential |-> ask.seen.credential, person |-> found,
                        host |-> ask.seen.host, guest |-> ask.seen.guest]
    <2>1. ask' = [ask EXCEPT !.pc = pc, !.seen.person = found]
        BY <1>3 DEF ReadPerson
    <2>3. ask.now \in Nat /\ pc \in Going /\ ask.pc \in Walking /\ ask.pc \in Going /\ pc \in {"guest", "batch"} /\ ask.pc # "next"
        BY <1>1 DEF AccessInv, AskInv, AskTyped, Going, Held, Walking
    <2>6. seen = [credential |-> seen.credential, person |-> seen.person, host |-> seen.host, guest |-> seen.guest]
        OBVIOUS
    <2> HIDE DEF pc, found
    <2>2. ask' = [pc |-> pc, op |-> ask.op, cred |-> ask.cred, now |-> ask.now, want |-> ask.want, seen |-> seen,
                cursor |-> ask.cursor, anchor |-> ask.anchor, out |-> ask.out, due |-> ask.due]
        <3>1. Shaped(ask)
            BY DEF AccessInv, AskInv, AskTyped
        <3> QED BY <2>1, <3>1, Filled, ZenonT(30)
    <2>4. /\ RowsTyped' /\ AskTyped(ask)' /\ WalkHeld(ask)' /\ AuthorityStep
          /\ ask' = [pc |-> pc, op |-> ask.op, cred |-> ask.cred, now |-> ask.now, want |-> ask.want, seen |-> seen,
                     cursor |-> ask.cursor, anchor |-> ask.anchor, out |-> ask.out, due |-> ask.due]
          /\ UNCHANGED tokens
        <3> HIDE DEF seen
        <3> QED BY <1>1, <2>2, <2>3, <2>6, Onward
    <2>5. AuthHeld(ask)'
        <3>1. /\ ask'.pc = pc /\ ask'.cred = ask.cred /\ ask'.op = ask.op /\ ask'.want = ask.want
              /\ ask'.seen.credential = ask.seen.credential /\ ask'.seen.person = found
            BY <2>4
        <3>2. KeyUsed(ask) => tokens[ask.cred.id] # None /\ ask.seen.credential = tokens[ask.cred.id]
            BY <1>1 DEF AccessInv, AskInv, AuthHeld, Held
        <3>3. KeyUsed(ask)' <=> KeyUsed(ask)
            BY <3>1 DEF KeyUsed
        <3>4. PoolsOf(ask)' = PoolsOf(ask) /\ (Elsewhere(ask)' <=> Elsewhere(ask))
            BY <3>1 DEF KeyUsed, PoolsOf, Elsewhere, Actor
        <3>5. pc = "batch" => ~Elsewhere(ask)
            BY DEF pc
        <3> QED BY <1>3, <2>3, <2>4, <3>1, <3>2, <3>3, <3>4, <3>5 DEF AuthHeld
    <2> QED BY <2>4, <2>5 DEF AccessInv, AskInv
<1> QED BY <1>2, <1>3

LEMMA ReadGuestStep ==
    ASSUME AccessInv, ReadGuest
    PROVE  AccessInv' /\ AuthorityStep
<1> DEFINE bad == \/ guest.removed
                  \/ KeyUsed(ask) /\ ask.seen.credential.rev # guest.rev
                  \/ Scope(ask.op) \notin RoleScopes[guest.role]
<1>1. ask.pc = "guest" /\ UNCHANGED <<stored, hour>>
    BY DEF ReadGuest
<1>2. CASE bad
    BY <1>1, <1>2, RefuseStep DEF ReadGuest
<1>3. CASE ~bad
    <2> DEFINE seen == [credential |-> ask.seen.credential, person |-> ask.seen.person,
                        host |-> person[Host], guest |-> guest]
    <2>1. ask' = [ask EXCEPT !.pc = "batch", !.seen.host = person[Host], !.seen.guest = guest]
        BY <1>3 DEF ReadGuest
    <2>2. ask' = [pc |-> "batch", op |-> ask.op, cred |-> ask.cred, now |-> ask.now, want |-> ask.want, seen |-> seen,
                cursor |-> ask.cursor, anchor |-> ask.anchor, out |-> ask.out, due |-> ask.due]
        <3> DEFINE q == [ask EXCEPT !.pc = "batch"]
                   h == [q EXCEPT !.seen.host = person[Host]]
        <3>1. q = [pc |-> "batch", op |-> ask.op, cred |-> ask.cred, now |-> ask.now, want |-> ask.want,
                   seen |-> [credential |-> ask.seen.credential, person |-> ask.seen.person,
                             host |-> ask.seen.host, guest |-> ask.seen.guest],
                   cursor |-> ask.cursor, anchor |-> ask.anchor, out |-> ask.out, due |-> ask.due]
            BY AskShaped DEF Shaped
        <3>2. ask' = [h EXCEPT !.seen.guest = guest]
            BY <2>1
        <3> HIDE DEF q
        <3>3. h = [pc |-> "batch", op |-> ask.op, cred |-> ask.cred, now |-> ask.now, want |-> ask.want,
                   seen |-> [credential |-> ask.seen.credential, person |-> ask.seen.person,
                             host |-> person[Host], guest |-> ask.seen.guest],
                   cursor |-> ask.cursor, anchor |-> ask.anchor, out |-> ask.out, due |-> ask.due]
            BY <3>1
        <3> HIDE DEF h
        <3> QED BY <3>2, <3>3
    <2>3. ask.now \in Nat /\ "batch" \in Going /\ ask.pc \in Walking /\ ask.pc \in Going
        BY <1>1 DEF AccessInv, AskInv, AskTyped, Going, Held, Walking
    <2>6. seen = [credential |-> seen.credential, person |-> seen.person, host |-> seen.host, guest |-> seen.guest]
        OBVIOUS
    <2>4. /\ RowsTyped' /\ AskTyped(ask)' /\ WalkHeld(ask)' /\ AuthorityStep
          /\ ask' = [pc |-> "batch", op |-> ask.op, cred |-> ask.cred, now |-> ask.now, want |-> ask.want, seen |-> seen,
                     cursor |-> ask.cursor, anchor |-> ask.anchor, out |-> ask.out, due |-> ask.due]
          /\ UNCHANGED tokens
        <3> HIDE DEF seen
        <3> QED BY <1>1, <2>2, <2>3, <2>6, Onward
    <2>5. AuthHeld(ask)'
        <3>1. /\ ask'.pc = "batch" /\ ask'.cred = ask.cred /\ ask'.op = ask.op /\ ask'.want = ask.want
              /\ ask'.seen.credential = ask.seen.credential /\ ask'.seen.person = ask.seen.person
              /\ ask'.seen.guest = guest
            BY <2>4
        <3>2. /\ KeyUsed(ask) => tokens[ask.cred.id] # None /\ ask.seen.credential = tokens[ask.cred.id]
              /\ ~KeyUsed(ask) => ask.seen.person.login
              /\ ask.op = "activity" => ask.want \in PoolsOf(ask)
            BY <1>1 DEF AccessInv, AskInv, AuthHeld, Held
        <3>3. KeyUsed(ask)' <=> KeyUsed(ask)
            BY <3>1 DEF KeyUsed
        <3>4. PoolsOf(ask)' = PoolsOf(ask)
            BY <3>1 DEF KeyUsed, PoolsOf
        <3>5. /\ ~ask'.seen.guest.removed /\ Scope(ask'.op) \in RoleScopes[ask'.seen.guest.role]
              /\ KeyUsed(ask)' => ask'.seen.credential.rev = ask'.seen.guest.rev
            BY <1>3, <3>1, <3>3
        <3>6. ask'.pc # "commit"
            BY <3>1
        <3> HIDE DEF bad
        <3> QED BY <2>4, <3>1, <3>2, <3>3, <3>4, <3>5, <3>6 DEF AuthHeld
    <2> QED BY <2>4, <2>5 DEF AccessInv, AskInv
<1> QED BY <1>2, <1>3

LEMMA NextPageStep ==
    ASSUME AccessInv, NextPage, ask.op \in {"list", "activity"}
    PROVE  AccessInv' /\ AuthorityStep
<1>1. ask.pc = "next" /\ UNCHANGED <<stored, hour>> /\ hour \in Nat
    <2>1. ask.pc = "next" /\ UNCHANGED <<stored, hour>>
        BY DEF NextPage
    <2>2. hour \in 0..MaxHour
        BY DEF AccessInv, RowsTyped, Hours
    <2> QED BY <2>1, <2>2, AccessConstants
<1>2. ask' = [pc |-> "credential", op |-> ask.op, cred |-> ask.cred, now |-> hour, want |-> ask.want, seen |-> NoneSeen,
              cursor |-> ask.cursor, anchor |-> ask.anchor, out |-> ask.out, due |-> ask.due]
    <2> DEFINE q == [ask EXCEPT !.pc = "credential"]
               h == [q EXCEPT !.now = hour]
    <2>1. q = [pc |-> "credential", op |-> ask.op, cred |-> ask.cred, now |-> ask.now, want |-> ask.want, seen |-> ask.seen,
               cursor |-> ask.cursor, anchor |-> ask.anchor, out |-> ask.out, due |-> ask.due]
        BY AskShaped DEF Shaped
    <2>2. ask' = [h EXCEPT !.seen = NoneSeen]
        <3>1. ask' = [ask EXCEPT !.pc = "credential", !.now = hour, !.seen = NoneSeen]
            BY DEF NextPage
        <3>2. [ask EXCEPT !.pc = "credential", !.now = hour, !.seen = NoneSeen] = [h EXCEPT !.seen = NoneSeen]
            OBVIOUS
        <3> HIDE DEF h
        <3> QED BY <3>1, <3>2
    <2> HIDE DEF q
    <2>3. h = [pc |-> "credential", op |-> ask.op, cred |-> ask.cred, now |-> hour, want |-> ask.want, seen |-> ask.seen,
               cursor |-> ask.cursor, anchor |-> ask.anchor, out |-> ask.out, due |-> ask.due]
        BY <2>1
    <2> HIDE DEF h, NoneSeen
    <2> QED BY <2>2, <2>3
<1>3. "credential" \in Going /\ ask.pc \in Walking /\ ask.op \in Paged
    BY <1>1 DEF Going, Walking, Paged
<1>4. NoneSeen = [credential |-> NoneSeen.credential, person |-> NoneSeen.person,
                  host |-> NoneSeen.host, guest |-> NoneSeen.guest]
    BY DEF NoneSeen
<1>5. /\ RowsTyped' /\ AskTyped(ask)' /\ WalkHeld(ask)' /\ AuthorityStep
      /\ ask'.pc = "credential"
    <2>1. /\ RowsTyped' /\ AskTyped(ask)' /\ WalkHeld(ask)' /\ AuthorityStep
          /\ ask' = [pc |-> "credential", op |-> ask.op, cred |-> ask.cred, now |-> hour, want |-> ask.want, seen |-> NoneSeen,
                     cursor |-> ask.cursor, anchor |-> ask.anchor, out |-> ask.out, due |-> ask.due]
        <3> HIDE DEF NoneSeen
        <3> QED BY <1>1, <1>2, <1>3, <1>4, Onward
    <2> QED BY <2>1
<1>6. AuthHeld(ask)'
    BY <1>5 DEF AuthHeld, Held
<1> QED BY <1>5, <1>6 DEF AccessInv, AskInv

-----------------------------------------------------------------------------
(* What a batch that validates may rely on, and the management of keys.      *)

LEMMA StandsNow ==
    ASSUME AccessInv, ask.pc \in {"batch", "commit"}, Validated(ask)
    PROVE  Authorized(ask) /\ \A pool \in PoolsOf(ask) : Offered(ask, pool)
<1>1. /\ KeyUsed(ask) => tokens[ask.cred.id] # None /\ ask.seen.credential = tokens[ask.cred.id]
      /\ ~KeyUsed(ask) => ask.seen.person.login
      /\ Elsewhere(ask) => /\ ~ask.seen.guest.removed /\ Scope(ask.op) \in RoleScopes[ask.seen.guest.role]
                           /\ KeyUsed(ask) => ask.seen.credential.rev = ask.seen.guest.rev
    BY DEF AccessInv, AskInv, AuthHeld, Held
<1>2. /\ person[Actor(ask)] = ask.seen.person
      /\ CredentialUsable(ask, CredentialRow(ask))
      /\ Elsewhere(ask) => guest = ask.seen.guest
    BY DEF Validated, MembershipSame
<1>3. (IF KeyUsed(ask) THEN CredentialRow(ask).of ELSE ask.cred.id) = Actor(ask)
    BY <1>1 DEF CredentialRow, Actor
<1>4. KeyUsed(ask) => CredentialRow(ask) = ask.seen.credential
    BY <1>1 DEF CredentialRow
<1>5. ~KeyUsed(ask) => person[Actor(ask)].login
    BY <1>1, <1>2
<1>6. Elsewhere(ask) => /\ ~guest.removed /\ Scope(ask.op) \in RoleScopes[guest.role]
                        /\ KeyUsed(ask) => CredentialRow(ask).rev = guest.rev
    BY <1>1, <1>2, <1>4
<1>7. Authorized(ask)
    <2> HIDE DEF CredentialRow, CredentialUsable, KeyUsed, Actor
    <2> QED BY <1>2, <1>3, <1>5, <1>6 DEF Authorized, Elsewhere
<1>8. \A pool \in PoolsOf(ask) : Offered(ask, pool)
    BY <1>1 DEF PoolsOf, Offered
<1> QED BY <1>7, <1>8

LEMMA FinishStep ==
    ASSUME AccessInv, UNCHANGED <<stored, hour>>, ask.pc \in Going, ask.op \notin Reads, ask' = Finish(ask)
    PROVE  AccessInv' /\ AuthorityStep
<1>1. RowsTyped' /\ UNCHANGED tokens
    BY RowsStay DEF AccessInv
<1>2. AskInv(ask)' /\ ask'.out = <<>>
    BY Finished DEF AccessInv, AskInv
<1>3. AuthorityStep
    BY <1>1, <1>2, QuietStep DEF AccessInv, AskInv
<1> QED BY <1>1, <1>2, <1>3 DEF AccessInv

LEMMA ListKeysStep ==
    ASSUME AccessInv, ListKeys
    PROVE  AccessInv' /\ AuthorityStep
<1>1. ask.pc \in Going /\ ask.op \notin Reads /\ UNCHANGED <<stored, hour>>
    BY DEF ListKeys, Going, Held, Reads
<1>2. ask' = Finish(ask) \/ ask' = Refuse(ask)
    BY DEF ListKeys
<1> QED BY <1>1, <1>2, FinishStep, RefuseStep

LEMMA CheckStep ==
    ASSUME AccessInv, ask.pc = "batch", ask.op \in {"issue", "revoke"}, UNCHANGED <<stored, hour>>,
           ask' = [ask EXCEPT !.pc = "commit"],
           ask.op = "issue" => ask.want.scopes \subseteq RoleScopes[RoleOf(ask)],
           ask.op = "revoke" => tokens[ask.want] # None /\ tokens[ask.want].of = Actor(ask)
    PROVE  AccessInv' /\ AuthorityStep
<1>1. ask' = [pc |-> "commit", op |-> ask.op, cred |-> ask.cred, now |-> ask.now, want |-> ask.want, seen |-> ask.seen,
              cursor |-> ask.cursor, anchor |-> ask.anchor, out |-> ask.out, due |-> ask.due]
    BY AskShaped DEF Shaped
<1>2. /\ ask.now \in Nat /\ "commit" \in Going /\ ask.pc \in Going /\ ask.pc \in Walking /\ ask.pc # "next"
      /\ ask.seen = [credential |-> ask.seen.credential, person |-> ask.seen.person,
                     host |-> ask.seen.host, guest |-> ask.seen.guest]
    BY DEF AccessInv, AskInv, AskTyped, Shaped, Going, Held, Walking
<1>3. RowsTyped' /\ AskTyped(ask)' /\ WalkHeld(ask)' /\ AuthorityStep /\ UNCHANGED tokens
    BY <1>1, <1>2, Onward
<1>4. /\ ask'.pc = "commit" /\ ask'.op = ask.op /\ ask'.cred = ask.cred /\ ask'.want = ask.want /\ ask'.seen = ask.seen
    BY <1>1
<1>5. /\ KeyUsed(ask)' <=> KeyUsed(ask)
      /\ PoolsOf(ask)' = PoolsOf(ask) /\ Actor(ask)' = Actor(ask)
      /\ (Elsewhere(ask)' <=> Elsewhere(ask)) /\ RoleOf(ask)' = RoleOf(ask)
    BY <1>4 DEF KeyUsed, PoolsOf, Elsewhere, Actor, RoleOf
<1>6. /\ KeyUsed(ask) => tokens[ask.cred.id] # None /\ ask.seen.credential = tokens[ask.cred.id]
      /\ ~KeyUsed(ask) => ask.seen.person.login
      /\ Elsewhere(ask) => /\ ~ask.seen.guest.removed /\ Scope(ask.op) \in RoleScopes[ask.seen.guest.role]
                           /\ KeyUsed(ask) => ask.seen.credential.rev = ask.seen.guest.rev
    BY DEF AccessInv, AskInv, AuthHeld, Held
<1>7. AuthHeld(ask)'
    BY <1>3, <1>4, <1>5, <1>6 DEF AuthHeld
<1> QED BY <1>3, <1>7 DEF AccessInv, AskInv

LEMMA CheckIssueStep ==
    ASSUME AccessInv, CheckIssue
    PROVE  AccessInv' /\ AuthorityStep
<1>1. ask.pc = "batch" /\ ask.op = "issue" /\ UNCHANGED <<stored, hour>>
    BY DEF CheckIssue
<1>2. CASE Validated(ask) /\ ask.want.scopes \subseteq RoleScopes[RoleOf(ask)]
    <2>1. ask' = [ask EXCEPT !.pc = "commit"]
        BY <1>2 DEF CheckIssue
    <2> QED BY <1>1, <1>2, <2>1, CheckStep
<1>3. CASE ~(Validated(ask) /\ ask.want.scopes \subseteq RoleScopes[RoleOf(ask)])
    BY <1>1, <1>3, RefuseStep DEF CheckIssue
<1> QED BY <1>2, <1>3

LEMMA CheckRevokeStep ==
    ASSUME AccessInv, CheckRevoke
    PROVE  AccessInv' /\ AuthorityStep
<1> DEFINE fine == /\ Validated(ask) /\ tokens[ask.want] # None /\ tokens[ask.want].of = Actor(ask)
                   /\ ~tokens[ask.want].revoked
<1>1. ask.pc = "batch" /\ ask.op = "revoke" /\ UNCHANGED <<stored, hour>>
    BY DEF CheckRevoke
<1>2. CASE fine
    <2>1. ask' = [ask EXCEPT !.pc = "commit"]
        BY <1>2 DEF CheckRevoke
    <2> QED BY <1>1, <1>2, <2>1, CheckStep
<1>3. CASE ~fine
    BY <1>1, <1>3, RefuseStep DEF CheckRevoke
<1> QED BY <1>2, <1>3

LEMMA CommitIssueStep ==
    ASSUME AccessInv, CommitIssue
    PROVE  AccessInv' /\ AuthorityStep
<1>1. /\ ask.pc = "commit" /\ ask.op = "issue"
      /\ UNCHANGED <<person, signed, guest, entries, gone, feed, hour>>
    BY DEF CommitIssue
<1>2. PICK t \in Tokens :
         /\ tokens[t] = None
         /\ IF WriteGuard(ask)
            THEN tokens' = [tokens EXCEPT ![t] = NewToken(ask)] /\ ask' = Finish(ask)
            ELSE UNCHANGED tokens /\ ask' = Refuse(ask)
    BY DEF CommitIssue
<1>3. CASE ~WriteGuard(ask)
    BY <1>1, <1>2, <1>3, RefuseStep DEF stored
<1>4. CASE WriteGuard(ask)
    <2>1. Validated(ask) /\ tokens' = [tokens EXCEPT ![t] = NewToken(ask)] /\ ask' = Finish(ask)
        BY <1>2, <1>4 DEF WriteGuard
    <2>2. /\ ~KeyUsed(ask) /\ ask.cred.id \in Persons /\ ask.now \in Nat
          /\ ask.want \in [scopes : Wishes, pools : Covers] /\ ask.pc \in Going /\ ask.op \notin Reads
        BY <1>1 DEF AccessInv, AskInv, AskTyped, Going, Held, Reads, KeyUsed, Credentials
    <2>3. Actor(ask) = ask.cred.id /\ (Elsewhere(ask) <=> ask.cred.id # Host)
        BY <1>1, <2>2 DEF Actor, Elsewhere
    <2>4. Elsewhere(ask) => guest = ask.seen.guest
        BY <2>1 DEF Validated, MembershipSame
    <2>5. /\ NewToken(ask).of = ask.cred.id /\ NewToken(ask).scopes = ask.want.scopes
          /\ NewToken(ask).rev = IF Elsewhere(ask) THEN ask.seen.guest.rev ELSE 1
        BY <2>3 DEF NewToken
    <2>6. NewToken(ask) \in Token
        <3>1. ask.want.scopes \in SUBSET RoleScopes["owner"] /\ ask.want.pools \in SUBSET Pools
            BY <2>2, AccessAssumption DEF Pools
        <3>2. ask.now + Life \in Nat
            BY <2>2, AccessAssumption
        <3>3. (IF Elsewhere(ask) THEN ask.seen.guest.rev ELSE 1) \in Nat
            <4>1. guest.rev \in Nat
                BY DEF AccessInv, RowsTyped
            <4> QED BY <2>4, <4>1
        <3> HIDE DEF Elsewhere
        <3> QED BY <2>2, <2>3, <3>1, <3>2, <3>3 DEF NewToken, Token
    <2>7. tokens \in [Tokens -> Token \cup {None}]
        BY DEF AccessInv, RowsTyped
    <2>8. tokens' \in [Tokens -> Token \cup {None}] /\ tokens'[t] = NewToken(ask)
          /\ \A u \in Tokens : u # t => tokens'[u] = tokens[u]
        BY <2>1, <2>6, <2>7
    <2>9. RowsTyped'
        BY <1>1, <2>8 DEF AccessInv, RowsTyped
    <2>10. AskInv(ask)' /\ ask'.out = <<>>
        BY <2>1, <2>2, Finished DEF AccessInv, AskInv
    <2>11. Authorized(ask)
        BY <1>1, <2>1, StandsNow
    <2>12. ask.want.scopes \subseteq RoleScopes[IF ask.cred.id = Host THEN "owner" ELSE guest.role]
        <3>1. ask.want.scopes \subseteq RoleScopes[RoleOf(ask)]
            BY <1>1 DEF AccessInv, AskInv, AuthHeld
        <3>2. RoleOf(ask) = IF ask.cred.id = Host THEN "owner" ELSE guest.role
            BY <2>3, <2>4 DEF RoleOf
        <3> QED BY <3>1, <3>2
    <2>13. ask.cred.id # Host => NewToken(ask).rev = guest.rev
        BY <2>3, <2>4, <2>5
    <2>14. ~(Len(ask'.out) > Len(ask.out))
        <3>1. Len(ask.out) \in Nat /\ Len(<<>>) = 0
            BY DEF AccessInv, AskInv, AskTyped
        <3> QED BY <2>10, <3>1
    <2>15. AuthorityStep
        <3>1. ASSUME NEW u \in Tokens, tokens'[u] # tokens[u]
              PROVE  /\ Authorized(ask)
                     /\ tokens[u] = None /\ tokens'[u].of = ask.cred.id
                     /\ tokens'[u].scopes \subseteq RoleScopes[IF tokens'[u].of = Host THEN "owner" ELSE guest.role]
                     /\ tokens'[u].of # Host => tokens'[u].rev = guest.rev
            <4>1. u = t /\ tokens'[u] = NewToken(ask)
                BY <2>8, <3>1
            <4> HIDE DEF NewToken
            <4> QED BY <1>2, <2>5, <2>11, <2>12, <2>13, <4>1
        <3> QED BY <2>14, <3>1 DEF AuthorityStep
    <2> QED BY <2>9, <2>10, <2>15 DEF AccessInv
<1> QED BY <1>3, <1>4

LEMMA CommitRevokeStep ==
    ASSUME AccessInv, CommitRevoke
    PROVE  AccessInv' /\ AuthorityStep
<1>1. /\ ask.pc = "commit" /\ ask.op = "revoke"
      /\ UNCHANGED <<person, signed, guest, entries, gone, feed, hour>>
    BY DEF CommitRevoke
<1> DEFINE may == WriteGuard(ask) /\ ~tokens[ask.want].revoked
<1>2. CASE ~may
    <2>1. UNCHANGED tokens /\ ask' = Refuse(ask)
        BY <1>2 DEF CommitRevoke
    <2> QED BY <1>1, <2>1, RefuseStep DEF stored
<1>3. CASE may
    <2>1. Validated(ask) /\ tokens' = [tokens EXCEPT ![ask.want].revoked = TRUE] /\ ask' = Finish(ask)
        BY <1>3 DEF CommitRevoke, WriteGuard
    <2>2. /\ ~KeyUsed(ask) /\ ask.want \in Tokens /\ ask.pc \in Going /\ ask.op \notin Reads
        BY <1>1 DEF AccessInv, AskInv, AskTyped, Going, Held, Reads, KeyUsed
    <2>3. tokens[ask.want] # None /\ tokens[ask.want].of = ask.cred.id
        BY <1>1, <2>2 DEF AccessInv, AskInv, AuthHeld, Actor
    <2>4. tokens \in [Tokens -> Token \cup {None}]
        BY DEF AccessInv, RowsTyped
    <2>5. tokens[ask.want] \in Token
        BY <2>2, <2>3, <2>4
    <2>6. [tokens[ask.want] EXCEPT !.revoked = TRUE] \in Token
        <3>1. ASSUME NEW r \in Token PROVE [r EXCEPT !.revoked = TRUE] \in Token
            BY DEF Token
        <3> QED BY <2>5, <3>1
    <2>7. tokens' \in [Tokens -> Token \cup {None}] /\ tokens'[ask.want] = [tokens[ask.want] EXCEPT !.revoked = TRUE]
          /\ \A u \in Tokens : u # ask.want => tokens'[u] = tokens[u]
        BY <2>1, <2>2, <2>4, <2>6
    <2>8. RowsTyped'
        BY <1>1, <2>7 DEF AccessInv, RowsTyped
    <2>9. AskInv(ask)' /\ ask'.out = <<>>
        BY <2>1, <2>2, Finished DEF AccessInv, AskInv
    <2>10. Authorized(ask)
        BY <1>1, <2>1, StandsNow
    <2>11. ~(Len(ask'.out) > Len(ask.out))
        <3>1. Len(ask.out) \in Nat /\ Len(<<>>) = 0
            BY DEF AccessInv, AskInv, AskTyped
        <3> QED BY <2>9, <3>1
    <2>12. AuthorityStep
        <3>1. ASSUME NEW u \in Tokens, tokens'[u] # tokens[u]
              PROVE  /\ Authorized(ask) /\ tokens[u] # None
                     /\ tokens[u].of = ask.cred.id /\ tokens'[u] = [tokens[u] EXCEPT !.revoked = TRUE]
            <4>1. u = ask.want
                BY <2>7, <3>1
            <4> QED BY <2>3, <2>7, <2>10, <4>1
        <3> QED BY <2>11, <3>1 DEF AuthorityStep
    <2> QED BY <2>8, <2>9, <2>12 DEF AccessInv
<1> QED BY <1>2, <1>3

-----------------------------------------------------------------------------
(* The batches that serve a page.                                            *)

RankBound == 2 * (MaxId + 1) + MaxId + MaxHour * (MaxEvent + 1) + MaxEvent + 1

LEMMA RankFits ==
    ASSUME RowsTyped, NEW a, a.op \in Paged, NEW i \in Shown(a)
    PROVE  /\ i \in EventIds /\ Rank(a.op, i) \in Nat /\ 0 < Rank(a.op, i) /\ Rank(a.op, i) <= RankBound
           /\ a.op \in {"list", "export"} => i \in Ids /\ EntryShown(a, i) /\ entries[i] \in EntryRow
           /\ a.op = "activity" => EventShown(a, i) /\ feed[i] \in FeedRow
<1>1. /\ MaxId \in Nat /\ MaxEvent \in Nat /\ MaxId <= MaxEvent /\ MaxHour \in Nat /\ Ids \subseteq EventIds
    BY AccessConstants
<1>2. \A u, m, v \in Nat : u <= m => u * v \in Nat /\ u * v <= m * v
    BY SMTT(30)
<1>3. MaxHour * (MaxEvent + 1) \in Nat
    BY <1>1, <1>2
<1>4. CASE a.op = "list"
    <2>1. i \in Ids /\ EntryShown(a, i) /\ entries[i] \in EntryRow
        BY <1>4 DEF Shown, EntryShown, RowsTyped
    <2>2. Rank(a.op, i) = i /\ i \in 1..MaxId
        BY <1>4, <2>1, RankIs DEF Ids
    <2> QED BY <1>1, <1>3, <1>4, <2>1, <2>2 DEF RankBound
<1>5. CASE a.op = "export"
    <2>1. i \in Ids /\ EntryShown(a, i) /\ entries[i] \in EntryRow
        BY <1>5 DEF Shown, EntryShown, RowsTyped
    <2>2. Rank(a.op, i) = entries[i].day * (MaxId + 1) + i /\ i \in 1..MaxId
        BY <1>5, <2>1, RankIs DEF Ids
    <2>3. entries[i].day = 1 \/ entries[i].day = 2
        BY <2>1 DEF EntryRow
    <2>4. Rank(a.op, i) = (MaxId + 1) + i \/ Rank(a.op, i) = 2 * (MaxId + 1) + i
        BY <1>1, <2>2, <2>3
    <2> HIDE DEF EntryShown
    <2> QED BY <1>1, <1>3, <1>5, <2>1, <2>2, <2>4 DEF RankBound
<1>6. CASE a.op = "activity"
    <2>1. i \in EventIds /\ EventShown(a, i) /\ feed[i] \in FeedRow
        BY <1>6 DEF Shown, EventShown, RowsTyped
    <2>2. Rank(a.op, i) = (MaxHour - feed[i].at) * (MaxEvent + 1) + (MaxEvent + 1 - i) /\ i \in 1..MaxEvent
        BY <1>6, <2>1, RankIs DEF EventIds
    <2>3. feed[i].at \in 0..MaxHour
        BY <2>1 DEF FeedRow, Hours
    <2> DEFINE u == MaxHour - feed[i].at
               uv == u * (MaxEvent + 1)
    <2>4. u \in Nat /\ u <= MaxHour /\ MaxEvent + 1 \in Nat
        BY <1>1, <2>3
    <2> HIDE DEF u
    <2>5. uv \in Nat /\ uv <= MaxHour * (MaxEvent + 1)
        BY <1>1, <1>2, <2>4
    <2>6. Rank(a.op, i) = uv + (MaxEvent + 1 - i)
        BY <2>2 DEF u
    <2> HIDE DEF uv
    <2> QED BY <1>1, <1>3, <1>6, <2>1, <2>2, <2>5, <2>6 DEF RankBound
<1> QED BY <1>4, <1>5, <1>6 DEF Paged

LEMMA ExportsApart ==
    ASSUME RowsTyped, NEW a, a.op = "export", NEW i \in Shown(a), NEW j \in Shown(a), Rank(a.op, i) = Rank(a.op, j)
    PROVE  i = j
<1>1. MaxId \in Nat
    BY AccessConstants
<1>2. /\ i \in Ids /\ entries[i] \in EntryRow /\ j \in Ids /\ entries[j] \in EntryRow
    BY RankFits DEF Paged
<1>3. /\ i \in 1..MaxId /\ j \in 1..MaxId
      /\ entries[i].day \in 1..2 /\ entries[j].day \in 1..2
    BY <1>2 DEF Ids, EntryRow
<1>4. entries[i].day * (MaxId + 1) + i = entries[j].day * (MaxId + 1) + j
    BY RankIs
<1>5. (entries[i].day = 1 \/ entries[i].day = 2) /\ (entries[j].day = 1 \/ entries[j].day = 2)
    BY <1>3
<1> QED BY <1>1, <1>3, <1>4, <1>5

LEMMA AnchoredAs ==
    ASSUME Shaped(ask), NEW x, NEW a, a = [ask EXCEPT !.anchor = x]
    PROVE  /\ a = [pc |-> ask.pc, op |-> ask.op, cred |-> ask.cred, now |-> ask.now, want |-> ask.want,
                   seen |-> ask.seen, cursor |-> ask.cursor, anchor |-> x, out |-> ask.out, due |-> ask.due]
           /\ Shaped(a) /\ (Validated(a) <=> Validated(ask)) /\ PoolsOf(a) = PoolsOf(ask)
<1>1. a = [pc |-> ask.pc, op |-> ask.op, cred |-> ask.cred, now |-> ask.now, want |-> ask.want,
           seen |-> ask.seen, cursor |-> ask.cursor, anchor |-> x, out |-> ask.out, due |-> ask.due]
    BY DEF Shaped
<1>2. Shaped(a)
    BY <1>1 DEF Shaped
<1>3. a.cred = ask.cred /\ a.seen = ask.seen /\ a.op = ask.op /\ a.now = ask.now
    BY <1>1
<1>4. (KeyUsed(a) <=> KeyUsed(ask)) /\ Actor(a) = Actor(ask) /\ CredentialRow(a) = CredentialRow(ask)
      /\ PoolsOf(a) = PoolsOf(ask) /\ (Elsewhere(a) <=> Elsewhere(ask))
    BY <1>3 DEF KeyUsed, Actor, CredentialRow, PoolsOf, Elsewhere
<1>5. \A row : CredentialUsable(a, row) <=> CredentialUsable(ask, row)
    BY <1>3, <1>4 DEF CredentialUsable
<1>6. MembershipSame(a) <=> MembershipSame(ask)
    BY <1>3, <1>4 DEF MembershipSame
<1>7. Validated(a) <=> Validated(ask)
    BY <1>3, <1>4, <1>5, <1>6 DEF Validated
<1> QED BY <1>1, <1>2, <1>4, <1>7

SameAsk(a) ==
    /\ Shaped(a) /\ a.op = ask.op /\ a.cred = ask.cred /\ a.now = ask.now /\ a.want = ask.want
    /\ a.seen = ask.seen /\ a.out = ask.out

PageServed(a, rows, still, more) ==
    /\ UNCHANGED <<stored, hour>> /\ Shaped(ask)'
    /\ ask'.pc = more /\ ask'.op = ask.op /\ ask'.out = Append(ask.out, rows) /\ ask'.due = Due(a, still)
    /\ more # "done" => /\ ask'.cred = ask.cred /\ ask'.now = ask.now /\ ask'.want = ask.want
                        /\ ask'.seen = ask.seen /\ ask'.cursor = Reached(a)
    /\ more = "done" => ask'.cred = [kind |-> "session", id |-> Host] /\ ask'.now = 0 /\ ask'.cursor = 0

(* A page that validates: what follows it.                                   *)
LEMMA PageTaken ==
    ASSUME NEW a, SameAsk(a), NEW rows, NEW still, NEW more, Validated(a), Serve(a, rows, still, more)
    PROVE  PageServed(a, rows, still, more)
<1>0. /\ Shaped(a) /\ a.op = ask.op /\ a.cred = ask.cred /\ a.now = ask.now /\ a.want = ask.want
      /\ a.seen = ask.seen /\ a.out = ask.out
    BY DEF SameAsk
<1> DEFINE b == [pc |-> more, op |-> a.op, cred |-> a.cred, now |-> a.now, want |-> a.want, seen |-> a.seen,
                 cursor |-> Reached(a), anchor |-> a.anchor, out |-> Append(a.out, rows), due |-> Due(a, still)]
<1>1. UNCHANGED <<stored, hour>> /\ ask' = IF more = "done" THEN Finish(b) ELSE b
    <2>1. /\ UNCHANGED <<stored, hour>>
          /\ LET c == [a EXCEPT !.pc = more, !.out = Append(@, rows), !.cursor = Reached(a), !.due = Due(a, still)]
             IN  ask' = IF more = "done" THEN Finish(c) ELSE c
        <3> HIDE DEF Validated, Reached, Due
        <3> QED BY DEF Serve
    <2>3. [a EXCEPT !.pc = more, !.out = Append(@, rows), !.cursor = Reached(a), !.due = Due(a, still)] = b
        <3> DEFINE out == Append(a.out, rows)
                   x == Reached(a)
                   y == Due(a, still)
                   q == [a EXCEPT !.pc = more]
                   h == [q EXCEPT !.out = out]
                   k == [h EXCEPT !.cursor = x]
        <3>1. [a EXCEPT !.pc = more, !.out = Append(@, rows), !.cursor = Reached(a), !.due = Due(a, still)]
                  = [k EXCEPT !.due = y]
            OBVIOUS
        <3>2. q = [pc |-> more, op |-> a.op, cred |-> a.cred, now |-> a.now, want |-> a.want, seen |-> a.seen,
                   cursor |-> a.cursor, anchor |-> a.anchor, out |-> a.out, due |-> a.due]
            BY <1>0 DEF Shaped
        <3> HIDE DEF out, x, y, q
        <3>3. h = [pc |-> more, op |-> a.op, cred |-> a.cred, now |-> a.now, want |-> a.want, seen |-> a.seen,
                   cursor |-> a.cursor, anchor |-> a.anchor, out |-> out, due |-> a.due]
            BY <3>2
        <3> HIDE DEF h
        <3>4. k = [pc |-> more, op |-> a.op, cred |-> a.cred, now |-> a.now, want |-> a.want, seen |-> a.seen,
                   cursor |-> x, anchor |-> a.anchor, out |-> out, due |-> a.due]
            BY <3>3
        <3> HIDE DEF k
        <3>5. [k EXCEPT !.due = y] = [pc |-> more, op |-> a.op, cred |-> a.cred, now |-> a.now, want |-> a.want, seen |-> a.seen,
                   cursor |-> x, anchor |-> a.anchor, out |-> out, due |-> y]
            BY <3>4
        <3>6. b = [pc |-> more, op |-> a.op, cred |-> a.cred, now |-> a.now, want |-> a.want, seen |-> a.seen,
                   cursor |-> x, anchor |-> a.anchor, out |-> out, due |-> y]
            BY DEF out, x, y
        <3> HIDE DEF b
        <3> QED BY <3>1, <3>5, <3>6
    <2> HIDE DEF b
    <2> QED BY <2>1, <2>3, Zenon
<1>2. CASE more # "done"
    <2>1. ask' = b
        BY <1>1, <1>2
    <2>2. Shaped(ask)'
        BY <1>0, <2>1 DEF Shaped
    <2>3. /\ ask'.pc = more /\ ask'.op = ask.op /\ ask'.out = Append(ask.out, rows) /\ ask'.due = Due(a, still)
          /\ ask'.cred = ask.cred /\ ask'.now = ask.now /\ ask'.want = ask.want
          /\ ask'.seen = ask.seen /\ ask'.cursor = Reached(a)
        BY <1>0, <2>1
    <2> HIDE DEF b
    <2> QED BY <1>1, <1>2, <2>2, <2>3 DEF PageServed
<1>3. CASE more = "done"
    <2>1. ask' = Finish(b)
        BY <1>1, <1>3
    <2>2. ask' = [pc |-> "done", op |-> a.op, cred |-> [kind |-> "session", id |-> Host], now |-> 0,
                  want |-> None, seen |-> NoneSeen, cursor |-> 0, anchor |-> 0,
                  out |-> Append(a.out, rows), due |-> Due(a, still)]
        <3> HIDE DEF Due
        <3> QED BY <2>1 DEF Finish, Unasked
    <2>3. Shaped(ask)'
        BY <2>2 DEF Shaped, NoneSeen
    <2>4. ask'.pc = "done" /\ ask'.op = a.op /\ ask'.out = Append(a.out, rows) /\ ask'.due = Due(a, still)
          /\ ask'.cred = [kind |-> "session", id |-> Host] /\ ask'.now = 0 /\ ask'.cursor = 0
        <3> HIDE DEF Due
        <3> QED BY <2>2
    <2> HIDE DEF b
    <2> QED BY <1>0, <1>1, <1>3, <2>3, <2>4 DEF PageServed
<1> QED BY <1>2, <1>3

LEMMA ListedNext ==
    ASSUME AskTyped(ask), NEW rows \in SUBSET EventIds, ask'.out = Append(ask.out, rows)
    PROVE  /\ ask'.out \in Seq(SUBSET EventIds) /\ ask'.out # <<>>
           /\ Len(ask'.out) = Len(ask.out) + 1 /\ ask'.out[Len(ask'.out)] = rows
           /\ \A i : Listed(ask, i)' <=> Listed(ask, i) \/ i \in rows
           /\ \A i : Once(ask, i) /\ ~(Listed(ask, i) /\ i \in rows) => Once(ask, i)'
<1> DEFINE o == ask.out
           n == Len(o)
           p == ask'.out
<1>1. o \in Seq(SUBSET EventIds) /\ n \in Nat /\ p = Append(o, rows)
    BY DEF AskTyped
<1>2. /\ p \in Seq(SUBSET EventIds) /\ Len(p) = n + 1 /\ DOMAIN p = 1..(n + 1) /\ DOMAIN o = 1..n
      /\ p[n + 1] = rows /\ \A k \in 1..n : p[k] = o[k]
    BY <1>1
<1> HIDE DEF o, n, p
<1>3. p # <<>>
    BY <1>1, <1>2
<1>4. \A i : Listed(ask, i) <=> \E k \in 1..n : i \in o[k]
    BY <1>2 DEF Listed, o
<1>5. \A i : Listed(ask, i)' <=> \E k \in 1..(n + 1) : i \in p[k]
    BY <1>2 DEF Listed, p
<1>6. ASSUME NEW i PROVE Listed(ask, i)' <=> Listed(ask, i) \/ i \in rows
    <2>1. ASSUME NEW k \in 1..(n + 1), i \in p[k] PROVE (\E m \in 1..n : i \in o[m]) \/ i \in rows
        BY <1>1, <1>2, <2>1
    <2>2. ASSUME NEW k \in 1..n, i \in o[k] PROVE \E m \in 1..(n + 1) : i \in p[m]
        BY <1>1, <1>2, <2>2
    <2>3. ASSUME i \in rows PROVE \E m \in 1..(n + 1) : i \in p[m]
        BY <1>1, <1>2, <2>3
    <2> QED BY <1>4, <1>5, <2>1, <2>2, <2>3
<1>7. ASSUME NEW i, Once(ask, i), ~(Listed(ask, i) /\ i \in rows) PROVE Once(ask, i)'
    <2>1. \A k, m \in 1..n : i \in o[k] /\ i \in o[m] => k = m
        BY <1>2, <1>7 DEF Once, o
    <2>2. ~((\E k \in 1..n : i \in o[k]) /\ i \in rows)
        BY <1>4, <1>7
    <2>3. ASSUME NEW k \in 1..(n + 1), NEW m \in 1..(n + 1), i \in p[k], i \in p[m] PROVE k = m
        <3>1. CASE k \in 1..n /\ m \in 1..n
            BY <1>2, <2>1, <2>3, <3>1
        <3>2. CASE k \notin 1..n /\ m \notin 1..n
            BY <1>1, <3>2
        <3>3. CASE k \in 1..n /\ m \notin 1..n
            <4>2. m = n + 1
                BY <1>1, <3>3
            <4>3. p[m] = rows /\ p[k] = o[k]
                BY <1>2, <3>3, <4>2
            <4>1. m = n + 1 /\ i \in rows /\ i \in o[k]
                BY <2>3, <4>2, <4>3
            <4> QED BY <2>2, <3>3, <4>1
        <3>4. CASE k \notin 1..n /\ m \in 1..n
            <4>2. k = n + 1
                BY <1>1, <3>4
            <4>3. p[k] = rows /\ p[m] = o[m]
                BY <1>2, <3>4, <4>2
            <4>1. k = n + 1 /\ i \in rows /\ i \in o[m]
                BY <2>3, <4>2, <4>3
            <4> QED BY <2>2, <3>4, <4>1
        <3> QED BY <3>1, <3>2, <3>3, <3>4
    <2>4. \A k, m \in DOMAIN p : i \in p[k] /\ i \in p[m] => k = m
        BY <1>2, <2>3
    <2> QED BY <2>4 DEF Once, p
<1> QED BY <1>1, <1>2, <1>3, <1>6, <1>7 DEF o, n, p

(* What a page serves is covered by the credential.                          *)
LEMMA ServedFairly ==
    ASSUME AccessInv, ask.pc = "batch", ask.op \in Reads, Validated(ask), UNCHANGED tokens,
           NEW a, a.op = ask.op, a.want = ask.want, PoolsOf(a) = PoolsOf(ask),
           NEW rows \in SUBSET Shown(a), rows \subseteq EventIds, ask'.out = Append(ask.out, rows),
           ask.op = "activity" /\ ask.want = "project" => ~gone
    PROVE  AuthorityStep
<1>1. Authorized(ask) /\ \A pool \in PoolsOf(ask) : Offered(ask, pool)
    BY StandsNow
<1>2. ask'.out[Len(ask'.out)] = rows
    BY ListedNext DEF AccessInv, AskInv
<1> DEFINE pool(i) == IF ask.op = "activity" THEN feed[i].pool ELSE entries[i].pool
<1>3. ASSUME NEW i \in rows
      PROVE  pool(i) \in PoolsOf(ask) /\ (pool(i) = "project" => ~gone)
    <2>1. CASE ask.op = "activity"
        <3>1. EventShown(a, i) /\ ask.want \in PoolsOf(ask)
            BY <2>1 DEF Shown, AccessInv, AskInv, AuthHeld
        <3> QED BY <2>1, <3>1 DEF EventShown
    <2>2. CASE ask.op # "activity"
        <3>1. EntryShown(a, i)
            BY <2>2 DEF Shown
        <3> QED BY <2>2, <3>1 DEF EntryShown
    <2> QED BY <2>1, <2>2
<1>4. \A p \in {pool(i) : i \in rows} : Offered(ask, p) /\ (p = "project" => ~gone)
    BY <1>1, <1>3
<1> QED BY <1>1, <1>2, <1>4 DEF AuthorityStep

(* What was due and left alone is still shown.                               *)
LEMMA KeptShown ==
    ASSUME AccessInv, ask.pc = "batch", NEW i, EntryKept(ask, i)
    PROVE  EntryShown(ask, i) /\ i \in Ids
<1>1. /\ i \in Ids /\ entries[i] # None /\ entries[i].live
      /\ Offered(ask, entries[i].pool) /\ (entries[i].pool = "project" => ~gone)
    BY DEF EntryKept
<1>2. entries[i].pool \in Pools
    BY <1>1 DEF AccessInv, RowsTyped, EntryRow
<1>3. KeyUsed(ask) => ask.seen.credential = tokens[ask.cred.id]
    BY DEF AccessInv, AskInv, AuthHeld, Held
<1>4. entries[i].pool \in PoolsOf(ask)
    BY <1>1, <1>2, <1>3 DEF PoolsOf, Offered
<1> QED BY <1>1, <1>4 DEF EntryShown

LEMMA RankWhole ==
    ASSUME RowsTyped, NEW op \in {"list", "activity"}, NEW i \in EventIds, op = "activity" => feed[i] # None
    PROVE  Rank(op, i) \in Int
<1>1. MaxEvent \in Nat /\ MaxHour \in Nat /\ i \in 1..MaxEvent
    BY AccessConstants DEF EventIds
<1>2. CASE op = "list"
    BY <1>1, <1>2, RankIs
<1>3. CASE op = "activity"
    <2>1. feed[i] \in FeedRow
        BY <1>3 DEF RowsTyped
    <2>2. feed[i].at \in 0..MaxHour
        BY <2>1 DEF FeedRow, Hours
    <2>3. Rank(op, i) = (MaxHour - feed[i].at) * (MaxEvent + 1) + (MaxEvent + 1 - i)
        BY <1>3, RankIs
    <2>4. \A u, v \in Int : u * v \in Int
        OBVIOUS
    <2>5. (MaxHour - feed[i].at) * (MaxEvent + 1) \in Int
        BY <1>1, <2>2, <2>4
    <2> DEFINE w == (MaxHour - feed[i].at) * (MaxEvent + 1)
    <2>6. w \in Int /\ Rank(op, i) = w + (MaxEvent + 1 - i)
        BY <2>3, <2>5
    <2> HIDE DEF w
    <2> QED BY <1>1, <2>6
<1> QED BY <1>2, <1>3

(* A page, and the next place of the cursor.                                 *)
LEMMA PageStep ==
    ASSUME AccessInv, ask.pc = "batch", ask.op \in Paged, NEW x, NEW a, a = [ask EXCEPT !.anchor = x],
           NEW still \in SUBSET ask.due, NEW more \in {"batch", "next", "done"}, Serve(a, Page(a), still, more),
           ask.op = "activity" /\ ask.want = "project" => ~gone,
           ask.op = "activity" => still \subseteq Shown(a),
           more = "next" => ask.op \in {"list", "activity"},
           more = "batch" => ask.op = "export",
           more = "done" => \/ Cardinality(Later(a)) <= PageSize
                            \/ ask.op = "export" /\ Cardinality(Page(a)) # PageSize
    PROVE  AccessInv' /\ AuthorityStep
<1>1. /\ AskTyped(ask) /\ Shaped(ask) /\ WalkHeld(ask) /\ AuthHeld(ask) /\ RowsTyped
      /\ ask.pc \in Walking /\ ask.op \in Reads
    BY DEF AccessInv, AskInv, AskTyped, Walking, Going, Held, Paged, Reads
<1>2. /\ Shaped(a) /\ (Validated(a) <=> Validated(ask)) /\ PoolsOf(a) = PoolsOf(ask)
      /\ a.op = ask.op /\ a.cred = ask.cred /\ a.now = ask.now /\ a.want = ask.want /\ a.seen = ask.seen
      /\ a.out = ask.out /\ a.cursor = ask.cursor /\ a.due = ask.due
    <2>1. /\ a = [pc |-> ask.pc, op |-> ask.op, cred |-> ask.cred, now |-> ask.now, want |-> ask.want,
                  seen |-> ask.seen, cursor |-> ask.cursor, anchor |-> x, out |-> ask.out, due |-> ask.due]
          /\ Shaped(a) /\ (Validated(a) <=> Validated(ask)) /\ PoolsOf(a) = PoolsOf(ask)
        BY <1>1, AnchoredAs
    <2> QED BY <2>1
<1>3. CASE ~Validated(a)
    <2>1. ask' = Refuse(a) /\ UNCHANGED <<stored, hour>>
        BY <1>3 DEF Serve
    <2> QED BY <2>1, RefuseStep
<1>4. CASE Validated(a)
    <2> DEFINE rows == Page(a)
               D == Due(a, still)
               rk(i) == Rank(ask.op, i)
    <2>1. /\ UNCHANGED <<stored, hour>> /\ Shaped(ask)'
          /\ ask'.pc = more /\ ask'.op = ask.op /\ ask'.out = Append(ask.out, rows) /\ ask'.due = D
          /\ more # "done" => /\ ask'.cred = ask.cred /\ ask'.now = ask.now /\ ask'.want = ask.want
                              /\ ask'.seen = ask.seen /\ ask'.cursor = Reached(a)
          /\ more = "done" => ask'.cred = [kind |-> "session", id |-> Host] /\ ask'.now = 0 /\ ask'.cursor = 0
        <3>1. SameAsk(a)
            BY <1>2 DEF SameAsk
        <3>2. PageServed(a, Page(a), still, more)
            BY <1>4, <3>1, PageTaken
        <3> QED BY <3>2 DEF PageServed
    <2>2. RowsTyped' /\ UNCHANGED <<tokens, entries, gone, feed>>
        BY <1>1, <2>1, RowsStay DEF stored
    <2>3. \A i \in Shown(a) : /\ i \in EventIds /\ rk(i) \in Nat /\ 0 < rk(i) /\ rk(i) <= RankBound
                              /\ ask.op \in {"list", "export"} => i \in Ids /\ EntryShown(a, i)
                              /\ ask.op = "activity" => EventShown(a, i)
        BY <1>1, <1>2, RankFits
    <2>4. RankBound \in Nat
        <3>1. \A u, v \in Nat : u * v \in Nat
            OBVIOUS
        <3>2. MaxHour * (MaxEvent + 1) \in Nat
            BY <3>1, AccessConstants
        <3> QED BY <3>2, AccessConstants DEF RankBound
    <2>5. Later(a) = {i \in Shown(a) : rk(i) > ask.cursor} /\ ask.cursor \in Nat
        BY <1>1, <1>2 DEF Later, AfterCursor, AskTyped
    <2>6. IsFiniteSet(Later(a))
        <3>1. Later(a) \subseteq EventIds
            BY <2>3, <2>5
        <3> QED BY <3>1, AccessConstants, FS_Subset
    <2> HIDE DEF rk
    <2>7. \A i \in Later(a) : rk(i) \in Nat /\ ask.cursor < rk(i) /\ rk(i) <= RankBound
        BY <2>3, <2>5
    <2>8. /\ rows \subseteq Later(a) /\ Reached(a) \in Nat /\ ask.cursor <= Reached(a)
          /\ \A i \in Later(a) : i \in rows <=> rk(i) <= Reached(a)
          /\ Cardinality(Later(a)) <= PageSize => rows = Later(a)
          /\ /\ \A i, j \in Later(a) : rk(i) = rk(j) => i = j
             /\ Cardinality(rows) # PageSize
             => rows = Later(a)
        <3>1. \A i \in Later(a) : Rank(a.op, i) \in Nat /\ a.cursor < Rank(a.op, i) /\ Rank(a.op, i) <= RankBound
            BY <1>2, <2>7 DEF rk
        <3>2. a.cursor \in Nat
            BY <1>2, <2>5
        <3>3. /\ Page(a) \subseteq Later(a) /\ Reached(a) \in Nat /\ a.cursor <= Reached(a)
              /\ \A i \in Later(a) : i \in Page(a) <=> Rank(a.op, i) <= Reached(a)
              /\ Cardinality(Later(a)) <= PageSize => Page(a) = Later(a)
              /\ /\ \A i, j \in Later(a) : Rank(a.op, i) = Rank(a.op, j) => i = j
                 /\ Cardinality(Page(a)) # PageSize
                 => Page(a) = Later(a)
            <4> HIDE DEF RankBound
            <4> QED BY <2>4, <2>6, <3>1, <3>2, PageIs
        <3> QED BY <1>2, <3>3 DEF rk
    <2>9. rows \subseteq Shown(a) /\ rows \in SUBSET EventIds /\ \A i \in rows : ask.cursor < rk(i)
        BY <2>3, <2>5, <2>7, <2>8
    <2>10. ASSUME more = "done" PROVE rows = Later(a)
        <3>1. CASE Cardinality(Later(a)) <= PageSize
            BY <2>8, <3>1
        <3>2. CASE ask.op = "export" /\ Cardinality(Page(a)) # PageSize
            <4>1. \A i, j \in Later(a) : rk(i) = rk(j) => i = j
                BY <1>1, <1>2, <2>5, <3>2, ExportsApart DEF rk
            <4> QED BY <2>8, <3>2, <4>1
        <3> QED BY <2>10, <3>1, <3>2
    <2>11. D \subseteq Shown(a) /\ \A i \in D : Once(ask, i) /\ (Listed(ask, i) <=> rk(i) <= ask.cursor)
        <3>1. CASE ask.out = <<>>
            <4>1. D = Shown(a) /\ ask.cursor = 0
                BY <1>1, <1>2, <3>1 DEF Due, WalkHeld
            <4>2. \A i : Once(ask, i) /\ ~Listed(ask, i)
                BY <3>1 DEF Once, Listed
            <4>3. \A i \in Shown(a) : rk(i) \in Nat /\ 0 < rk(i)
                BY <2>3
            <4> HIDE DEF D
            <4> QED BY <4>1, <4>2, <4>3
        <3>2. CASE ask.out # <<>>
            <4>1. D = still
                BY <1>2, <3>2 DEF Due
            <4>2. \A i \in still : Once(ask, i) /\ (Listed(ask, i) <=> rk(i) <= ask.cursor)
                BY <1>1 DEF WalkHeld, rk
            <4>3. still \subseteq Shown(a)
                <5>1. CASE ask.op = "activity"
                    BY <5>1
                <5>2. CASE ask.op \in {"list", "export"}
                    <6>1. \A i \in still : EntryKept(ask, i)
                        BY <1>1, <5>2 DEF WalkHeld
                    <6>2. a.op \in {"list", "export"} /\ PoolsOf(a) = PoolsOf(ask)
                        BY <1>2, <5>2
                    <6>3. \A i \in still : EntryShown(ask, i) /\ i \in Ids
                        BY <6>1, KeptShown
                    <6>4. \A i \in still : EntryShown(a, i)
                        BY <6>2, <6>3 DEF EntryShown
                    <6> QED BY <6>2, <6>3, <6>4 DEF Shown
                <5> QED BY <5>1, <5>2 DEF Paged
            <4> HIDE DEF D
            <4> QED BY <4>1, <4>2, <4>3
        <3> QED BY <3>1, <3>2
    <2> HIDE DEF D, rows
    <2>12. /\ ask'.out \in Seq(SUBSET EventIds) /\ ask'.out # <<>>
           /\ \A i : Listed(ask, i)' <=> Listed(ask, i) \/ i \in rows
           /\ \A i : Once(ask, i) /\ ~(Listed(ask, i) /\ i \in rows) => Once(ask, i)'
        BY <1>1, <2>1, <2>9, ListedNext
    <2>13. \A i \in D : /\ Once(ask, i)' /\ (Listed(ask, i)' <=> rk(i) <= Reached(a))
                        /\ rows = Later(a) => Listed(ask, i)'
        <3>1. ASSUME NEW i \in D
              PROVE  /\ Once(ask, i)' /\ (Listed(ask, i)' <=> rk(i) <= Reached(a))
                     /\ rows = Later(a) => Listed(ask, i)'
            <4>1. i \in Shown(a) /\ Once(ask, i) /\ (Listed(ask, i) <=> rk(i) <= ask.cursor) /\ rk(i) \in Nat
                BY <2>3, <2>11
            <4>2. i \in rows => ~Listed(ask, i)
                BY <2>5, <2>9, <4>1
            <4>3. rk(i) > ask.cursor => i \in Later(a) /\ (i \in rows <=> rk(i) <= Reached(a))
                BY <2>5, <2>8, <4>1 DEF rk
            <4>4. rk(i) <= ask.cursor => rk(i) <= Reached(a) /\ i \notin rows
                BY <2>5, <2>8, <2>9, <4>1
            <4>5. rk(i) > ask.cursor \/ rk(i) <= ask.cursor
                BY <2>5, <4>1
            <4> QED BY <2>5, <2>12, <4>1, <4>2, <4>3, <4>4, <4>5
        <3> QED BY <3>1
    <2>14. ask.op \in {"list", "activity"} => \A i \in EventIds :
              Once(ask, i)' /\ (Listed(ask, i)' => rk(i) <= Reached(a))
        <3>1. ASSUME ask.op \in {"list", "activity"}, NEW i \in EventIds
              PROVE  Once(ask, i)' /\ (Listed(ask, i)' => rk(i) <= Reached(a))
            <4>1. Once(ask, i) /\ (Listed(ask, i) => rk(i) <= ask.cursor)
                BY <1>1, <3>1 DEF WalkHeld, rk
            <4>2. i \in rows => rk(i) \in Nat /\ ask.cursor < rk(i) /\ rk(i) <= Reached(a)
                BY <2>7, <2>8
            <4>3. Listed(ask, i) => rk(i) <= Reached(a)
                <5>1. Listed(ask, i) => rk(i) \in Int
                    BY <1>1, <3>1, RankWhole DEF WalkHeld, rk
                <5> QED BY <2>5, <2>8, <4>1, <5>1
            <4> QED BY <2>5, <2>12, <4>1, <4>2, <4>3
        <3> QED BY <3>1
    <2>15. AuthorityStep
        BY <1>1, <1>2, <1>4, <2>1, <2>2, <2>9, ServedFairly
    <2>16. D \subseteq EventIds
        BY <2>3, <2>11
    <2>17. CASE more = "done"
        <3>1. AskTyped(ask)'
            <4>1. [kind |-> "session", id |-> Host] \in Credentials
                BY AccessConstants DEF Credentials
            <4> QED BY <1>1, <2>1, <2>12, <2>16, <2>17, <4>1 DEF AskTyped, Walking, Going, Held
        <3>2. AuthHeld(ask)'
            BY <2>1, <2>17 DEF AuthHeld, Held
        <3>3. WalkHeld(ask)'
            BY <2>1, <2>10, <2>13, <2>14, <2>17 DEF WalkHeld, Walking, Going, Held
        <3> QED BY <2>2, <2>15, <3>1, <3>2, <3>3 DEF AccessInv, AskInv
    <2>18. CASE more # "done"
        <3>1. AskTyped(ask)'
            BY <1>1, <2>1, <2>8, <2>12, <2>16, <2>18 DEF AskTyped, Walking, Going, Held
        <3>2. AuthHeld(ask)'
            <4>1. /\ KeyUsed(ask)' <=> KeyUsed(ask)
                  /\ PoolsOf(ask)' = PoolsOf(ask) /\ (Elsewhere(ask)' <=> Elsewhere(ask))
                BY <2>1, <2>18 DEF KeyUsed, PoolsOf, Elsewhere, Actor
            <4>2. ask'.pc = "batch" \/ ask'.pc = "next"
                BY <2>1, <2>18
            <4> QED BY <1>1, <2>1, <2>2, <2>18, <4>1, <4>2 DEF AuthHeld, Held
        <3>3. WalkHeld(ask)'
            <4>1. \A i : Rank(ask.op, i)' = rk(i)
                BY <2>1, <2>2 DEF Rank, rk
            <4>2. ask.op \in {"list", "export"} => \A i \in D : EntryKept(ask, i)'
                <5>1. ASSUME ask.op \in {"list", "export"}, NEW i \in D
                      PROVE  EntryKept(ask, i)'
                    <6>1. i \in Ids /\ EntryShown(a, i)
                        BY <2>3, <2>11, <5>1
                    <6>2. entries[i].pool \in PoolsOf(ask)
                        BY <1>2, <6>1 DEF EntryShown
                    <6>3. Offered(ask, entries[i].pool)
                        BY <1>2, <1>4, <6>2, StandsNow
                    <6>4. Offered(ask, entries[i].pool)'
                        BY <2>1, <2>2, <2>18, <6>3 DEF Offered, KeyUsed
                    <6> QED BY <2>2, <6>1, <6>4 DEF EntryKept, EntryShown
                <5> QED BY <5>1
            <4>3. ask.op = "activity" => \A i \in EventIds : Listed(ask, i)' \/ i \in D => feed'[i] # None
                <5>1. ASSUME ask.op = "activity", NEW i \in EventIds, Listed(ask, i)' \/ i \in D
                      PROVE  feed[i] # None
                    <6>1. CASE i \in Shown(a)
                        <7>1. EventShown(a, i)
                            BY <2>3, <5>1, <6>1
                        <7> QED BY <7>1 DEF EventShown
                    <6>2. CASE Listed(ask, i)
                        BY <1>1, <5>1, <6>2 DEF WalkHeld
                    <6> QED BY <2>9, <2>11, <2>12, <5>1, <6>1, <6>2
                <5> QED BY <2>2, <5>1
            <4>4. ask'.pc \in Walking /\ ask'.pc # "done" /\ ask'.cursor = Reached(a) /\ ask'.due = D /\ ask'.op = ask.op
                BY <2>1, <2>18 DEF Walking, Going, Held
            <4> QED BY <2>12, <2>13, <2>14, <4>1, <4>2, <4>3, <4>4 DEF WalkHeld
        <3> QED BY <2>2, <2>15, <3>1, <3>2, <3>3 DEF AccessInv, AskInv
    <2> QED BY <2>17, <2>18
<1> QED BY <1>3, <1>4

LEMMA AheadIs ==
    ASSUME NEW a
    PROVE  Ahead(a) \in {"next", "done"} /\ (Ahead(a) = "done" => Cardinality(Later(a)) <= PageSize)
<1>1. Later(a) \subseteq EventIds
    BY AccessConstants DEF Later, Shown
<1>2. Cardinality(Later(a)) \in Nat
    BY <1>1, AccessConstants, FS_Subset, FS_CardinalityType
<1> QED BY <1>2, AccessConstants DEF Ahead

LEMMA ServeListStep ==
    ASSUME AccessInv, ServeList
    PROVE  AccessInv' /\ AuthorityStep
<1>1. ask.pc = "batch" /\ ask.op = "list" /\ Serve(ask, Page(ask), ask.due, Ahead(ask))
    BY DEF ServeList, Reading
<1>2. ask = [ask EXCEPT !.anchor = ask.anchor] /\ ask.op \in Paged
    BY <1>1, AskShaped DEF Shaped, Paged
<1>3. Ahead(ask) \in {"next", "done"} /\ (Ahead(ask) = "done" => Cardinality(Later(ask)) <= PageSize)
    BY AheadIs
<1>4. ask.due \in SUBSET ask.due /\ Ahead(ask) \in {"batch", "next", "done"}
    BY <1>3
<1> QED BY <1>1, <1>2, <1>3, <1>4, PageStep, ZenonT(30)

LEMMA ServeExportStep ==
    ASSUME AccessInv, ServeExport
    PROVE  AccessInv' /\ AuthorityStep
<1> DEFINE more == IF Cardinality(Page(ask)) = PageSize THEN "batch" ELSE "done"
<1>1. ask.pc = "batch" /\ ask.op = "export" /\ Serve(ask, Page(ask), ask.due, more)
    BY DEF ServeExport, Reading
<1>2. ask = [ask EXCEPT !.anchor = ask.anchor] /\ ask.op \in Paged
    BY <1>1, AskShaped DEF Shaped, Paged
<1>3. more \in {"batch", "done"} /\ (more = "done" => Cardinality(Page(ask)) # PageSize)
    OBVIOUS
<1>4. ask.due \in SUBSET ask.due /\ more \in {"batch", "next", "done"} /\ more # "next"
    OBVIOUS
<1> HIDE DEF more
<1> QED BY <1>1, <1>2, <1>3, <1>4, PageStep, ZenonT(30)

LEMMA ServeActivityStep ==
    ASSUME AccessInv, ServeActivity
    PROVE  AccessInv' /\ AuthorityStep
<1> DEFINE a == Anchored(ask)
           still == a.due \cap Shown(a)
<1>1. /\ ask.pc = "batch" /\ ask.op = "activity"
      /\ IF a.want = "project" /\ gone
         THEN ask' = Refuse(a) /\ UNCHANGED <<stored, hour>>
         ELSE Serve(a, Page(a), still, Ahead(a))
    BY DEF ServeActivity, Reading
<1>2. PICK x : a = [ask EXCEPT !.anchor = x]
    <2>1. ask = [ask EXCEPT !.anchor = ask.anchor]
        BY AskShaped DEF Shaped
    <2> QED BY <2>1 DEF Anchored
<1>3. a.due = ask.due /\ a.want = ask.want /\ ask.op \in Paged
    <2>1. Shaped(ask)
        BY DEF AccessInv, AskInv, AskTyped
    <2>2. a = [pc |-> ask.pc, op |-> ask.op, cred |-> ask.cred, now |-> ask.now, want |-> ask.want,
               seen |-> ask.seen, cursor |-> ask.cursor, anchor |-> x, out |-> ask.out, due |-> ask.due]
        BY <1>2, <2>1, AnchoredAs
    <2> HIDE DEF a
    <2> QED BY <1>1, <2>2 DEF Paged
<1> HIDE DEF a
<1>4. CASE a.want = "project" /\ gone
    BY <1>1, <1>4, RefuseStep
<1>5. CASE ~(a.want = "project" /\ gone)
    <2>1. Serve(a, Page(a), still, Ahead(a))
        BY <1>1, <1>5
    <2>2. Ahead(a) \in {"next", "done"} /\ (Ahead(a) = "done" => Cardinality(Later(a)) <= PageSize)
        BY AheadIs
    <2>3. /\ still \in SUBSET ask.due /\ still \subseteq Shown(a)
          /\ Ahead(a) \in {"batch", "next", "done"} /\ Ahead(a) # "batch"
          /\ ask.want = "project" => ~gone
        BY <1>3, <1>5, <2>2
    <2> HIDE DEF still
    <2> QED BY <1>1, <1>2, <1>3, <2>1, <2>2, <2>3, PageStep, ZenonT(30)
<1> QED BY <1>4, <1>5

LEMMA ServeReportStep ==
    ASSUME AccessInv, ServeReport
    PROVE  AccessInv' /\ AuthorityStep
<1> DEFINE rows == Shown(ask)
<1>1. /\ ask.pc = "batch" /\ ask.op = "report" /\ Serve(ask, rows, {}, "done")
      /\ AskTyped(ask) /\ Shaped(ask) /\ AuthHeld(ask) /\ WalkHeld(ask) /\ RowsTyped
    BY DEF ServeReport, Reading, AccessInv, AskInv, AskTyped
<1>2. ask.op \in Reads /\ ask.op \notin Paged /\ ask.op # "activity" /\ ask.out = <<>>
    BY <1>1 DEF AskTyped, Reads, Paged, Walking, Going, Held
<1>3. CASE ~Validated(ask)
    <2>1. ask' = Refuse(ask) /\ UNCHANGED <<stored, hour>>
        BY <1>1, <1>3 DEF Serve
    <2> QED BY <2>1, RefuseStep
<1>4. CASE Validated(ask)
    <2>1. /\ UNCHANGED <<stored, hour>> /\ Shaped(ask)' /\ ask'.pc = "done" /\ ask'.op = ask.op
          /\ ask'.out = Append(ask.out, rows) /\ ask'.due = Due(ask, {})
          /\ ask'.cred = [kind |-> "session", id |-> Host] /\ ask'.now = 0 /\ ask'.cursor = 0
        <3>1. SameAsk(ask)
            BY <1>1 DEF SameAsk
        <3>2. PageServed(ask, Shown(ask), {}, "done")
            BY <1>1, <1>4, <3>1, PageTaken
        <3> QED BY <3>2 DEF PageServed
    <2>2. RowsTyped' /\ UNCHANGED tokens
        BY <1>1, <2>1, RowsStay
    <2>3. rows \in SUBSET EventIds /\ ask'.due = rows
        BY <1>2, <2>1, AccessConstants DEF Shown, Due
    <2>4. AuthorityStep
        BY <1>1, <1>2, <1>4, <2>1, <2>2, <2>3, ServedFairly
    <2> HIDE DEF rows
    <2>5. /\ ask'.out \in Seq(SUBSET EventIds)
          /\ \A i : Listed(ask, i)' <=> Listed(ask, i) \/ i \in rows
          /\ \A i : Once(ask, i) /\ ~(Listed(ask, i) /\ i \in rows) => Once(ask, i)'
        BY <1>1, <2>1, <2>3, ListedNext
    <2>6. \A i : Once(ask, i) /\ ~Listed(ask, i)
        BY <1>2 DEF Once, Listed
    <2>7. AskTyped(ask)'
        <3>1. [kind |-> "session", id |-> Host] \in Credentials
            BY AccessConstants DEF Credentials
        <3> QED BY <1>1, <1>2, <2>1, <2>3, <2>5, <3>1 DEF AskTyped, Walking, Going, Held
    <2>8. AuthHeld(ask)'
        BY <2>1 DEF AuthHeld, Held
    <2>9. WalkHeld(ask)'
        BY <1>2, <2>1, <2>3, <2>5, <2>6 DEF WalkHeld, Walking, Going, Held
    <2> QED BY <2>2, <2>4, <2>7, <2>8, <2>9 DEF AccessInv, AskInv
<1> QED BY <1>3, <1>4

-----------------------------------------------------------------------------
(* Everybody else.                                                           *)

LEMMA RankListed == ask.op = "list" /\ ask'.op = ask.op => \A i : Rank(ask.op, i)' = Rank(ask.op, i)
BY DEF Rank

LEMMA RankExported ==
    ASSUME NEW i, ask.op = "export", ask'.op = ask.op, entries'[i] = entries[i]
    PROVE  Rank(ask.op, i)' = Rank(ask.op, i)
BY DEF Rank

LEMMA RankReported ==
    ASSUME ask.op = "activity", ask'.op = ask.op,
           \A i \in EventIds : feed[i] # None => feed'[i] # None /\ feed'[i].at = feed[i].at
    PROVE  \A i \in EventIds : feed[i] # None => Rank(ask.op, i)' = Rank(ask.op, i)
BY DEF Rank

(* A request whose rows stay in place keeps its place in the walk.           *)
LEMMA OthersStep ==
    ASSUME AccessInv, RowsTyped', UNCHANGED tokens, NEW due \in SUBSET ask.due, ask' = [ask EXCEPT !.due = due],
           \A i \in EventIds : feed[i] # None => feed'[i] # None /\ feed'[i].at = feed[i].at,
           ask.op \in {"list", "export"} =>
               \A i \in due \cap Ids : entries'[i] = entries[i] /\ (entries[i].pool = "project" => gone' = gone)
    PROVE  AccessInv' /\ AuthorityStep
<1>1. ask' = [pc |-> ask.pc, op |-> ask.op, cred |-> ask.cred, now |-> ask.now, want |-> ask.want, seen |-> ask.seen,
              cursor |-> ask.cursor, anchor |-> ask.anchor, out |-> ask.out, due |-> due]
    BY AskShaped DEF Shaped
<1>2. /\ ask'.pc = ask.pc /\ ask'.op = ask.op /\ ask'.cred = ask.cred /\ ask'.now = ask.now /\ ask'.want = ask.want
      /\ ask'.seen = ask.seen /\ ask'.cursor = ask.cursor /\ ask'.out = ask.out /\ ask'.due = due
    BY <1>1
<1>3. AskTyped(ask) /\ AuthHeld(ask) /\ WalkHeld(ask)
    BY DEF AccessInv, AskInv
<1>4. AskTyped(ask)'
    <2>1. Shaped(ask)'
        BY <1>1, <1>2, <1>3 DEF Shaped, AskTyped
    <2> QED BY <1>2, <1>3, <2>1 DEF AskTyped
<1>5. AuthHeld(ask)'
    <2>1. /\ KeyUsed(ask)' <=> KeyUsed(ask)
          /\ PoolsOf(ask)' = PoolsOf(ask) /\ Actor(ask)' = Actor(ask)
          /\ (Elsewhere(ask)' <=> Elsewhere(ask)) /\ RoleOf(ask)' = RoleOf(ask)
        BY <1>2 DEF KeyUsed, PoolsOf, Elsewhere, Actor, RoleOf
    <2> QED BY <1>2, <1>3, <2>1 DEF AuthHeld
<1>6. \A i : (Once(ask, i)' <=> Once(ask, i)) /\ (Listed(ask, i)' <=> Listed(ask, i))
    BY <1>2 DEF Once, Listed
<1>7. WalkHeld(ask)'
    <2>1. CASE ask.pc \in Walking /\ ask.op = "list"
        <3>1. \A i : Rank(ask.op, i)' = Rank(ask.op, i)
            BY <1>2, <2>1, RankListed
        <3>2. \A i \in due : EntryKept(ask, i)'
            <4>1. ASSUME NEW i \in due PROVE EntryKept(ask, i)'
                <5>1. EntryKept(ask, i)
                    BY <1>3, <2>1 DEF WalkHeld, Paged
                <5>2. entries'[i] = entries[i] /\ (entries[i].pool = "project" => gone' = gone)
                    BY <2>1, <5>1 DEF EntryKept
                <5> QED BY <1>2, <5>1, <5>2 DEF EntryKept, Offered, KeyUsed
            <4> QED BY <4>1
        <3>3. ask.pc # "done"
            BY <2>1 DEF Walking, Going, Held
        <3> QED BY <1>2, <1>3, <1>6, <2>1, <3>1, <3>2, <3>3 DEF WalkHeld, Paged
    <2>2. CASE ask.pc \in Walking /\ ask.op = "export"
        <3>1. \A i \in due : EntryKept(ask, i)' /\ Rank(ask.op, i)' = Rank(ask.op, i)
            <4>1. ASSUME NEW i \in due PROVE EntryKept(ask, i)' /\ Rank(ask.op, i)' = Rank(ask.op, i)
                <5>1. EntryKept(ask, i)
                    BY <1>3, <2>2 DEF WalkHeld, Paged
                <5>2. entries'[i] = entries[i] /\ (entries[i].pool = "project" => gone' = gone)
                    BY <2>2, <5>1 DEF EntryKept
                <5>3. EntryKept(ask, i)'
                    BY <1>2, <5>1, <5>2 DEF EntryKept, Offered, KeyUsed
                <5>4. Rank(ask.op, i)' = Rank(ask.op, i)
                    BY <1>2, <2>2, <5>2, RankExported
                <5> QED BY <5>3, <5>4
            <4> QED BY <4>1
        <3>2. ask.pc # "done"
            BY <2>2 DEF Walking, Going, Held
        <3> QED BY <1>2, <1>3, <1>6, <2>2, <3>1, <3>2 DEF WalkHeld, Paged
    <2>3. CASE ask.pc \in Walking /\ ask.op = "activity"
        <3>1. \A i \in EventIds : Listed(ask, i) \/ i \in ask.due => feed[i] # None
            BY <1>3, <2>3 DEF WalkHeld, Paged
        <3>2. \A i \in EventIds : feed[i] # None => Rank(ask.op, i)' = Rank(ask.op, i)
            BY <1>2, <2>3, RankReported
        <3>3. due \subseteq EventIds
            BY <1>3 DEF AskTyped
        <3>4. ask.pc # "done"
            BY <2>3 DEF Walking, Going, Held
        <3> QED BY <1>2, <1>3, <1>6, <2>3, <3>1, <3>2, <3>3, <3>4 DEF WalkHeld, Paged
    <2>4. CASE ~(ask.pc \in Walking /\ ask.op \in Paged)
        BY <1>2, <1>3, <1>6, <2>4 DEF WalkHeld
    <2> QED BY <2>1, <2>2, <2>3, <2>4 DEF Paged
<1>8. AuthorityStep
    BY <1>2, <1>3, QuietStep
<1> QED BY <1>4, <1>5, <1>7, <1>8 DEF AccessInv, AskInv

LEMMA LeftIs ==
    ASSUME AccessInv, NEW K, Left(K)
    PROVE  \E due \in SUBSET ask.due : /\ ask' = [ask EXCEPT !.due = due]
                                       /\ ask.op \in {"list", "export"} => due \subseteq K
<1>1. ask = [ask EXCEPT !.due = ask.due]
    BY AskShaped DEF Shaped
<1>2. CASE ask.op \in {"list", "export"}
    <2>1. ask' = [ask EXCEPT !.due = ask.due \cap K]
        BY <1>2 DEF Left
    <2> QED BY <2>1
<1>3. CASE ask.op \notin {"list", "export"}
    <2>1. ask' = ask
        BY <1>3 DEF Left
    <2> QED BY <1>1, <1>3, <2>1
<1> QED BY <1>2, <1>3

LEMMA PublishedRows ==
    ASSUME RowsTyped, NEW at \in Hours, NEW kind \in {"expense", "project"}, NEW pools \in SUBSET Pools,
           Published(at, kind, pools)
    PROVE  /\ feed' \in [EventIds -> FeedRow \cup {None}]
           /\ \A i \in EventIds : feed[i] # None => feed'[i] # None /\ feed'[i].at = feed[i].at
<1>1. PICK id \in [pools -> {i \in EventIds : feed[i] = None}] :
         feed' = [i \in EventIds |-> IF \E p \in pools : id[p] = i
                    THEN [pool |-> CHOOSE p \in pools : id[p] = i, kind |-> kind, at |-> at, kept |-> TRUE]
                    ELSE Retired(at)[i]]
    BY DEF Published
<1>2. \A i \in EventIds : feed[i] \in FeedRow \cup {None}
    BY DEF RowsTyped
<1>3. ASSUME NEW r \in FeedRow
      PROVE  [r EXCEPT !.kept = FALSE] \in FeedRow /\ [r EXCEPT !.kept = FALSE].at = r.at
    BY DEF FeedRow
<1>4. ASSUME NEW i \in EventIds
      PROVE  /\ Retired(at)[i] \in FeedRow \cup {None}
             /\ feed[i] # None => Retired(at)[i] # None /\ Retired(at)[i].at = feed[i].at
    <2>1. Retired(at)[i] = IF feed[i] # None /\ feed[i].at + Window <= at
                           THEN [feed[i] EXCEPT !.kept = FALSE] ELSE feed[i]
        BY DEF Retired
    <2>2. CASE feed[i] # None /\ feed[i].at + Window <= at
        <3>1. feed[i] \in FeedRow
            BY <1>2, <2>2
        <3>2. Retired(at)[i] = [feed[i] EXCEPT !.kept = FALSE]
            BY <2>1, <2>2
        <3> QED BY <1>3, <3>1, <3>2, FeedAssumption
    <2>3. CASE ~(feed[i] # None /\ feed[i].at + Window <= at)
        BY <1>2, <2>1, <2>3
    <2> QED BY <2>2, <2>3
<1>5. ASSUME NEW i \in EventIds, \E p \in pools : id[p] = i
      PROVE  feed[i] = None /\ feed'[i] \in FeedRow
    <2>1. feed[i] = None
        BY <1>5
    <2>2. (CHOOSE p \in pools : id[p] = i) \in Pools
        BY <1>5
    <2> DEFINE q == CHOOSE p \in pools : id[p] = i
    <2>3. feed'[i] = [pool |-> q, kind |-> kind, at |-> at, kept |-> TRUE]
        BY <1>1, <1>5
    <2>4. q \in Pools
        BY <2>2
    <2> HIDE DEF q
    <2> QED BY <2>1, <2>3, <2>4 DEF FeedRow
<1>6. ASSUME NEW i \in EventIds, ~\E p \in pools : id[p] = i
      PROVE  feed'[i] = Retired(at)[i]
    BY <1>1, <1>6
<1>7. \A i \in EventIds : /\ feed'[i] \in FeedRow \cup {None}
                          /\ feed[i] # None => feed'[i] # None /\ feed'[i].at = feed[i].at
    BY <1>4, <1>5, <1>6
<1>8. feed' = [i \in EventIds |-> feed'[i]]
    BY <1>1
<1> QED BY <1>7, <1>8

LEMMA WriteEntryStep ==
    ASSUME AccessInv, NEW i \in Ids, NEW row \in EntryRow, WriteEntry(i, row)
    PROVE  AccessInv' /\ AuthorityStep
<1>1. RowsTyped
    BY DEF AccessInv
<1>2. /\ entries' = [entries EXCEPT ![i] = row] /\ Left(Ids \ {i})
      /\ UNCHANGED <<person, signed, guest, tokens, gone, hour>>
    BY DEF WriteEntry, Edit
<1> DEFINE pools == {r.pool : r \in {entries[i], row} \ {None}}
<1>3. pools \in SUBSET Pools
    <2>1. \A r \in {entries[i], row} \ {None} : r \in EntryRow
        BY <1>1 DEF RowsTyped
    <2>2. \A r \in {entries[i], row} \ {None} : r.pool \in Pools
        BY <2>1 DEF EntryRow
    <2> QED BY <2>2
<1>4. PICK at \in Hours : Published(at, "expense", pools)
    <2>1. \E at \in {hour, IF hour = 0 THEN 0 ELSE hour - 1} : Published(at, "expense", pools)
        BY DEF WriteEntry
    <2>2. hour \in Hours /\ (IF hour = 0 THEN 0 ELSE hour - 1) \in Hours
        BY <1>1, AccessConstants DEF RowsTyped, Hours
    <2> QED BY <2>1, <2>2
<1> HIDE DEF pools
<1>5. /\ feed' \in [EventIds -> FeedRow \cup {None}]
      /\ \A k \in EventIds : feed[k] # None => feed'[k] # None /\ feed'[k].at = feed[k].at
    BY <1>1, <1>3, <1>4, PublishedRows
<1>6. RowsTyped'
    <2>1. entries' \in [Ids -> EntryRow \cup {None}]
        BY <1>1, <1>2 DEF RowsTyped
    <2> QED BY <1>1, <1>2, <1>5, <2>1 DEF RowsTyped
<1>7. \A k \in Ids \ {i} : entries'[k] = entries[k]
    BY <1>1, <1>2 DEF RowsTyped
<1>8. PICK due \in SUBSET ask.due : /\ ask' = [ask EXCEPT !.due = due]
                                    /\ ask.op \in {"list", "export"} => due \subseteq Ids \ {i}
    BY <1>2, LeftIs
<1> QED BY <1>2, <1>5, <1>6, <1>7, <1>8, OthersStep

LEMMA EditProjectStep ==
    ASSUME AccessInv, EditProject
    PROVE  AccessInv' /\ AuthorityStep
<1>1. RowsTyped /\ hour \in Hours /\ {"project"} \in SUBSET Pools
    BY DEF AccessInv, RowsTyped, Pools
<1>2. Published(hour, "project", {"project"}) /\ UNCHANGED <<person, signed, guest, tokens, entries, gone, ask, hour>>
    BY DEF EditProject, Edit
<1>3. /\ feed' \in [EventIds -> FeedRow \cup {None}]
      /\ \A k \in EventIds : feed[k] # None => feed'[k] # None /\ feed'[k].at = feed[k].at
    BY <1>1, <1>2, PublishedRows
<1>4. RowsTyped'
    BY <1>1, <1>2, <1>3 DEF RowsTyped
<1>5. ask' = [ask EXCEPT !.due = ask.due]
    BY <1>2, AskShaped DEF Shaped
<1> QED BY <1>2, <1>3, <1>4, <1>5, OthersStep

LEMMA RemoveProjectStep ==
    ASSUME AccessInv, RemoveProject
    PROVE  AccessInv' /\ AuthorityStep
<1> DEFINE K == {i \in Ids : entries[i] # None /\ entries[i].pool = "shared"}
<1>1. Left(K) /\ gone' = TRUE /\ UNCHANGED <<person, signed, guest, tokens, entries, feed, hour>>
    BY DEF RemoveProject, Edit
<1>2. RowsTyped'
    BY <1>1 DEF AccessInv, RowsTyped
<1>3. PICK due \in SUBSET ask.due : /\ ask' = [ask EXCEPT !.due = due]
                                    /\ ask.op \in {"list", "export"} => due \subseteq K
    <2> HIDE DEF K
    <2> QED BY <1>1, LeftIs
<1>4. ask.op \in {"list", "export"} =>
          \A i \in due \cap Ids : entries'[i] = entries[i] /\ (entries[i].pool = "project" => gone' = gone)
    BY <1>1, <1>3
<1> QED BY <1>1, <1>2, <1>3, <1>4, OthersStep

LEMMA RewritePersonStep ==
    ASSUME AccessInv, NEW p \in Persons, NEW login \in BOOLEAN, RewritePerson(p, login)
    PROVE  AccessInv' /\ AuthorityStep
<1>1. /\ person' = [person EXCEPT ![p] = [rev |-> person[p].rev + 1, login |-> login]]
      /\ UNCHANGED <<signed, guest, tokens, entries, gone, feed, ask, hour>>
    BY DEF RewritePerson, Change
<1>2. RowsTyped'
    <2>1. person \in [Persons -> [rev : Nat, login : BOOLEAN]]
        BY DEF AccessInv, RowsTyped
    <2>2. [rev |-> person[p].rev + 1, login |-> login] \in [rev : Nat, login : BOOLEAN]
        BY <2>1
    <2>3. person' \in [Persons -> [rev : Nat, login : BOOLEAN]]
        BY <1>1, <2>1, <2>2
    <2> QED BY <1>1, <2>3 DEF AccessInv, RowsTyped
<1>3. ask' = [ask EXCEPT !.due = ask.due]
    BY <1>1, AskShaped DEF Shaped
<1> QED BY <1>1, <1>2, <1>3, OthersStep

LEMMA SignOutStep ==
    ASSUME AccessInv, NEW p \in Persons, SignOut(p)
    PROVE  AccessInv' /\ AuthorityStep
<1>1. /\ signed' = [signed EXCEPT ![p] = None]
      /\ UNCHANGED <<person, guest, tokens, entries, gone, feed, ask, hour>>
    BY DEF SignOut, Change
<1>2. RowsTyped'
    <2>1. signed \in [Persons -> Nat \cup {None}]
        BY DEF AccessInv, RowsTyped
    <2>2. signed' \in [Persons -> Nat \cup {None}]
        BY <1>1, <2>1
    <2> QED BY <1>1, <2>2 DEF AccessInv, RowsTyped
<1>3. ask' = [ask EXCEPT !.due = ask.due]
    BY <1>1, AskShaped DEF Shaped
<1> QED BY <1>1, <1>2, <1>3, OthersStep

LEMMA ChangeGuestStep ==
    ASSUME AccessInv, NEW role \in GuestRoles, NEW removed \in BOOLEAN, ChangeGuest(role, removed)
    PROVE  AccessInv' /\ AuthorityStep
<1>1. /\ guest' = [role |-> role, rev |-> guest.rev + 1, removed |-> removed]
      /\ UNCHANGED <<person, signed, tokens, entries, gone, feed, ask, hour>>
    BY DEF ChangeGuest, Change
<1>2. RowsTyped'
    <2>1. guest.rev + 1 \in Nat
        BY DEF AccessInv, RowsTyped
    <2>2. guest' \in [role : GuestRoles, rev : Nat, removed : BOOLEAN]
        BY <1>1, <2>1
    <2> QED BY <1>1, <2>2 DEF AccessInv, RowsTyped
<1>3. ask' = [ask EXCEPT !.due = ask.due]
    BY <1>1, AskShaped DEF Shaped
<1> QED BY <1>1, <1>2, <1>3, OthersStep

LEMMA QuietOthersStep ==
    ASSUME AccessInv, UNCHANGED <<stored, ask>>, hour' \in Hours
    PROVE  AccessInv' /\ AuthorityStep
<1>1. UNCHANGED <<person, signed, guest, tokens, entries, gone, feed, ask>>
    BY DEF stored
<1>2. RowsTyped'
    BY <1>1 DEF AccessInv, RowsTyped
<1>3. ask' = [ask EXCEPT !.due = ask.due]
    BY <1>1, AskShaped DEF Shaped
<1> QED BY <1>1, <1>2, <1>3, OthersStep

LEMMA AccessStart == AccessInit => AccessInv
<1> SUFFICES ASSUME AccessInit PROVE AccessInv
    OBVIOUS
<1>1. /\ person = [p \in Persons |-> [rev |-> 1, login |-> TRUE]] /\ signed = [p \in Persons |-> Life]
      /\ guest = [role |-> "editor", rev |-> 1, removed |-> FALSE]
      /\ tokens \in [Tokens -> {None} \cup Issued] /\ gone = FALSE /\ hour = 0 /\ ask = Unasked
    BY DEF AccessInit
<1>2. /\ person \in [Persons -> [rev : Nat, login : BOOLEAN]] /\ signed \in [Persons -> Nat \cup {None}]
      /\ guest \in [role : GuestRoles, rev : Nat, removed : BOOLEAN] /\ gone \in BOOLEAN /\ hour \in Hours
    <2>1. Life \in Nat /\ MaxHour \in Nat /\ "editor" \in GuestRoles
        BY AccessAssumption
    <2>2. person \in [Persons -> [rev : Nat, login : BOOLEAN]] /\ signed \in [Persons -> Nat \cup {None}]
        BY <1>1, <2>1
    <2>3. guest \in [role : GuestRoles, rev : Nat, removed : BOOLEAN]
        BY <1>1, <2>1
    <2>4. gone \in BOOLEAN
        BY <1>1
    <2>5. hour \in Hours
        <3>1. hour = 0
            BY <1>1
        <3> QED BY <2>1, <3>1 DEF Hours
    <2> QED BY <2>2, <2>3, <2>4, <2>5
<1>3. tokens \in [Tokens -> Token \cup {None}]
    <2>1. ASSUME NEW t \in Issued PROVE t \in Token
        <3>1. t \in [of : Persons, scopes : Wishes, pools : Covers, rev : {1}, until : {Life}, revoked : {FALSE}]
            BY <2>1 DEF Issued
        <3>2. PICK o \in Persons, w \in Wishes, c \in Covers :
                 t = [of |-> o, scopes |-> w, pools |-> c, rev |-> 1, until |-> Life, revoked |-> FALSE]
            BY <3>1
        <3> DEFINE scopes == RoleScopes["owner"]
        <3>3. w \in SUBSET scopes /\ c \in SUBSET Pools /\ Life \in Nat
            BY <3>2, AccessAssumption DEF Pools
        <3> HIDE DEF scopes
        <3>5. t \in [of : Persons, scopes : SUBSET scopes, pools : SUBSET Pools,
                    rev : Nat, until : Nat, revoked : BOOLEAN]
            BY <3>2, <3>3
        <3> QED BY <3>5 DEF Token, scopes
    <2> QED BY <1>1, <2>1
<1>4. entries \in [Ids -> EntryRow \cup {None}] /\ \A i \in Ids : i % 2 # 0 => entries[i] \in EntryRow
    <2>1. entries = [i \in Ids |-> IF i % 2 = 0 THEN None
                       ELSE [pool |-> IF i = 1 THEN "shared" ELSE "project", day |-> 1, live |-> TRUE]]
        BY DEF AccessInit
    <2>2. \A i \in Ids : [pool |-> IF i = 1 THEN "shared" ELSE "project", day |-> 1, live |-> TRUE] \in EntryRow
        BY DEF EntryRow, Pools
    <2> QED BY <2>1, <2>2
<1>5. feed \in [EventIds -> FeedRow \cup {None}]
    <2>1. feed = [i \in EventIds |-> IF i > MaxId \/ i % 2 = 0 THEN None
                    ELSE [pool |-> entries[i].pool, kind |-> "expense", at |-> 0, kept |-> TRUE]]
        BY DEF AccessInit
    <2>2. \A i \in EventIds : ~(i > MaxId \/ i % 2 = 0) =>
              [pool |-> entries[i].pool, kind |-> "expense", at |-> 0, kept |-> TRUE] \in FeedRow
        <3>1. ASSUME NEW i \in EventIds, ~(i > MaxId), i % 2 # 0
              PROVE  [pool |-> entries[i].pool, kind |-> "expense", at |-> 0, kept |-> TRUE] \in FeedRow
            <4>1. i \in Ids /\ 0 \in Hours
                BY <3>1, AccessConstants DEF Ids, EventIds, Hours
            <4>2. entries[i].pool \in Pools
                BY <1>4, <3>1, <4>1 DEF EntryRow
            <4> QED BY <4>1, <4>2 DEF FeedRow
        <3> QED BY <3>1
    <2> QED BY <2>1, <2>2
<1>6. RowsTyped
    BY <1>2, <1>3, <1>4, <1>5 DEF RowsTyped
<1>7. ask = [pc |-> "idle", op |-> "list", cred |-> [kind |-> "session", id |-> Host], now |-> 0,
             want |-> None, seen |-> NoneSeen, cursor |-> 0, anchor |-> 0, out |-> <<>>, due |-> {}]
    BY <1>1 DEF Unasked
<1>8. AskTyped(ask)
    <2>1. Shaped(ask)
        BY <1>7 DEF Shaped, NoneSeen
    <2>2. [kind |-> "session", id |-> Host] \in Credentials
        BY AccessConstants DEF Credentials
    <2> QED BY <1>7, <2>1, <2>2 DEF AskTyped, Walking, Going, Held, Reads
<1>9. AuthHeld(ask) /\ WalkHeld(ask)
    BY <1>7 DEF AuthHeld, WalkHeld, Walking, Going, Held
<1> QED BY <1>6, <1>8, <1>9 DEF AccessInv, AskInv

LEMMA AccessKeeps == AccessInv /\ [AccessNext]_accessVars => AccessInv' /\ AuthorityStep
<1> SUFFICES ASSUME AccessInv, [AccessNext]_accessVars PROVE AccessInv' /\ AuthorityStep
    OBVIOUS
<1>1. ASSUME NEW op \in Reads \cup {"keys", "issue", "revoke"}, NEW cred \in Credentials, Call(op, cred)
      PROVE  AccessInv' /\ AuthorityStep
    BY <1>1, CallStep
<1>2. CASE ReadCredential
    BY <1>2, ReadCredentialStep
<1>3. CASE ReadPerson
    BY <1>3, ReadPersonStep
<1>4. CASE ReadGuest
    BY <1>4, ReadGuestStep
<1>5. CASE ServeList
    BY <1>5, ServeListStep
<1>6. CASE ServeExport
    BY <1>6, ServeExportStep
<1>7. CASE ServeReport
    BY <1>7, ServeReportStep
<1>8. CASE ServeActivity
    BY <1>8, ServeActivityStep
<1>9. CASE NextPage
    <2>1. ask.op \in {"list", "activity"}
        BY <1>9 DEF NextPage, AccessInv, AskInv, AskTyped
    <2> QED BY <1>9, <2>1, NextPageStep
<1>10. CASE ListKeys
    BY <1>10, ListKeysStep
<1>11. CASE CheckIssue
    BY <1>11, CheckIssueStep
<1>12. CASE CheckRevoke
    BY <1>12, CheckRevokeStep
<1>13. CASE CommitIssue
    BY <1>13, CommitIssueStep
<1>14. CASE CommitRevoke
    BY <1>14, CommitRevokeStep
<1>15. CASE Others
    <2>1. ASSUME NEW i \in Ids, NEW row \in EntryRow, WriteEntry(i, row) PROVE AccessInv' /\ AuthorityStep
        BY <2>1, WriteEntryStep
    <2>2. CASE EditProject
        BY <2>2, EditProjectStep
    <2>3. CASE RemoveProject
        BY <2>3, RemoveProjectStep
    <2>4. ASSUME NEW p \in Persons, NEW login \in BOOLEAN, RewritePerson(p, login)
          PROVE  AccessInv' /\ AuthorityStep
        BY <2>4, RewritePersonStep
    <2>5. ASSUME NEW p \in Persons, SignOut(p) PROVE AccessInv' /\ AuthorityStep
        BY <2>5, SignOutStep
    <2>6. ASSUME NEW role \in GuestRoles, NEW removed \in BOOLEAN, ChangeGuest(role, removed)
          PROVE  AccessInv' /\ AuthorityStep
        BY <2>6, ChangeGuestStep
    <2>7. CASE Pass
        <3>1. hour' \in Hours /\ UNCHANGED <<stored, ask>>
            BY <2>7, AccessConstants DEF Pass, AccessInv, RowsTyped, Hours
        <3> QED BY <3>1, QuietOthersStep
    <2> QED BY <1>15, <2>1, <2>2, <2>3, <2>4, <2>5, <2>6, <2>7 DEF Others
<1>16. CASE UNCHANGED accessVars
    <2>1. UNCHANGED <<stored, ask>> /\ hour' \in Hours
        BY <1>16 DEF accessVars, AccessInv, RowsTyped
    <2> QED BY <2>1, QuietOthersStep
<1> QED BY <1>1, <1>2, <1>3, <1>4, <1>5, <1>6, <1>7, <1>8, <1>9, <1>10, <1>11, <1>12, <1>13, <1>14, <1>15, <1>16
        DEF AccessNext

LEMMA AccessInvariant == AccessSpec => []AccessInv
<1>1. AccessInv /\ [AccessNext]_accessVars => AccessInv'
    BY AccessKeeps
<1> QED BY AccessStart, <1>1, PTL DEF AccessSpec

LEMMA TimesAre ==
    ASSUME NEW i, Once(ask, i)
    PROVE  TimesListed(i) <= 1 /\ (Listed(ask, i) => TimesListed(i) = 1)
<1> DEFINE T == {n \in DOMAIN ask.out : i \in ask.out[n]}
<1>1. CASE T = {}
    <2>1. ~Listed(ask, i)
        BY <1>1 DEF Listed
    <2> QED BY <1>1, <2>1, FS_EmptySet DEF TimesListed
<1>2. CASE T # {}
    <2>1. PICK n \in T : TRUE
        BY <1>2
    <2>2. T = {n}
        BY <2>1 DEF Once
    <2>3. Cardinality(T) = 1
        <3> HIDE DEF T
        <3> QED BY <2>2, FS_Singleton
    <2> QED BY <2>3 DEF TimesListed
<1> QED BY <1>1, <1>2

\* A walk that reaches its end has listed, exactly once, every row that was there at
\* its first page and was left alone since; lists and activity never repeat a row at
\* all (list_expenses, export_expense_pages, list_activity with their cursors).
THEOREM WalksAreComplete == AccessSpec => []WalksComplete
<1>1. AccessInv => WalksComplete
    <2> SUFFICES ASSUME AccessInv PROVE WalksComplete
        OBVIOUS
    <2>1. AccessTypeOK
        <3>1. ask.pc \in {"idle", "credential", "person", "guest", "batch", "commit", "next", "done", "refused"}
            BY DEF AccessInv, AskInv, AskTyped, Walking, Going, Held
        <3>2. \A n \in DOMAIN ask.out : ask.out[n] \subseteq EventIds
            BY DEF AccessInv, AskInv, AskTyped
        <3> QED BY <3>1, <3>2 DEF AccessTypeOK, AccessInv, RowsTyped, AskInv, AskTyped
    <2>2. ASSUME ask.pc = "done", ask.op \in Reads, NEW i \in ask.due PROVE TimesListed(i) = 1
        <3>1. Listed(ask, i) /\ Once(ask, i)
            BY <2>2 DEF AccessInv, AskInv, WalkHeld
        <3> QED BY <3>1, TimesAre
    <2>3. ASSUME ask.op \in {"list", "activity"}, NEW i \in EventIds PROVE TimesListed(i) <= 1
        <3>1. Once(ask, i)
            <4>1. CASE ask.pc \in Walking \cup {"done"}
                BY <2>3, <4>1 DEF AccessInv, AskInv, WalkHeld, Paged
            <4>2. CASE ask.pc \notin Walking \cup {"done"}
                <5>1. ask.out = <<>>
                    BY <4>2 DEF AccessInv, AskInv, AskTyped
                <5> QED BY <5>1 DEF Once
            <4> QED BY <4>1, <4>2
        <3> QED BY <3>1, TimesAre
    <2> QED BY <2>1, <2>2, <2>3 DEF WalksComplete
<1> QED BY AccessInvariant, <1>1, PTL

\* A page is served, a key issued and a key revoked only in a step in which the
\* credential still stands and its holder's membership and role still allow it, and
\* every row served is in a pool the key covers (ledger_principal's validate, compared
\* again inside each batch, and _write_guard).
THEOREM ReadersAreAuthorized == AccessSpec => ServedWithAuthority
<1>1. AccessInv /\ [AccessNext]_accessVars => [AuthorityStep]_accessVars
    BY AccessKeeps
<1> QED BY AccessInvariant, <1>1, PTL DEF ServedWithAuthority, AccessSpec, AuthorityStep
=============================================================================
