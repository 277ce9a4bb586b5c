---------------------------- MODULE LedgerAccess ----------------------------
(***************************************************************************)
(* Who may read one ledger, and what a paged read returns. A request reads   *)
(* its credential, the account it belongs to and, for somebody else's        *)
(* ledger, the membership, each with an await in between; then one atomic    *)
(* batch reads them again together with the page. Between two pages, and     *)
(* between the pages of one CSV stream, anybody else writes. API keys are    *)
(* issued and revoked the same way, the batch being a write.                 *)
(***************************************************************************)
EXTENDS Naturals, FiniteSets, Sequences

CONSTANTS
    Host,       \* the ledger's owner
    Guest,      \* somebody else, with a row in workspace_members
    Tokens,     \* API keys that may be issued
    Wishes,     \* the scopes, and
    Covers,     \* the pools, that a client asks for a key
    GuestRoles, \* the roles the member is given
    MaxId,      \* bound: expenses ever
    MaxEvent,   \* bound: events ever
    PageSize,   \* rows of a page
    Window,     \* WINDOW_SECONDS, in hours of the model
    Life,       \* how long sessions and keys last, in hours of the model
    MaxHour,    \* bound: the clock stops here
    MaxEdits,   \* bound: writes of others to expenses and projects
    MaxChanges, \* bound: writes of others to accounts, sessions and the membership
    MaxAsked,   \* bound: requests, a walk through several pages being one
    None

ReadScopes == {"profile:read", "projects:read", "expenses:read", "reports:read"}
RoleScopes == [
    viewer |-> ReadScopes,
    editor |-> ReadScopes \cup {"expenses:write"},
    admin  |-> ReadScopes \cup {"expenses:write", "projects:write"},
    owner  |-> ReadScopes \cup {"expenses:write", "projects:write"}]

ASSUME AccessAssumption ==
    /\ Host # Guest /\ None \notin Tokens \cup {Host, Guest}
    /\ "editor" \in GuestRoles /\ GuestRoles \subseteq {"viewer", "editor", "admin"}
    /\ \A wish \in Wishes : wish # {} /\ wish \subseteq RoleScopes["owner"]
    /\ \A cover \in Covers : cover # {} /\ cover \subseteq {"shared", "project"}
    /\ {MaxId, PageSize} \subseteq Nat \ {0} /\ MaxEvent \in Nat /\ MaxEvent >= MaxId
    /\ {Window, Life, MaxHour, MaxEdits, MaxChanges, MaxAsked} \subseteq Nat

VARIABLES
    person,   \* person[p]: the account record: its revision, and whether it can sign in
    signed,   \* signed[p]: when the session of p ends, or None
    guest,    \* the member row
    tokens,   \* tokens[t]: the api_keys row, or None
    entries,  \* entries[i]: the expense, or None
    gone,     \* whether the ledger's project was removed
    feed,     \* feed[i]: the row of ledger_activity_events, or None
    hour,     \* the clock
    ask,      \* the request being served
    asked, edits, changes

stored == <<person, signed, guest, tokens, entries, gone, feed>>
accessVars == <<stored, hour, ask, asked, edits, changes>>

Persons == {Host, Guest}
Pools == {"shared", "project"}
Ids == 1..MaxId
EventIds == 1..MaxEvent
Hours == 0..MaxHour

EntryRow == [pool : Pools, day : 1..2, live : BOOLEAN]
FeedRow == [pool : Pools, kind : {"expense", "project"}, at : Hours, kept : BOOLEAN]

ASSUME FeedAssumption == None \notin FeedRow

Token == [of : Persons, scopes : SUBSET RoleScopes["owner"], pools : SUBSET Pools,
          rev : Nat, until : Nat, revoked : BOOLEAN]
Credentials == [kind : {"session"}, id : Persons] \cup [kind : {"key"}, id : Tokens]

Reads == {"list", "export", "activity", "report"}
Scope(op) == CASE op \in {"list", "export", "activity"} -> "expenses:read"
               [] op = "report" -> "reports:read"
               [] OTHER -> "profile:read"

NoneSeen == [credential |-> None, person |-> None, host |-> None, guest |-> None]
Unasked == [pc |-> "idle", op |-> "list", cred |-> [kind |-> "session", id |-> Host], now |-> 0,
            want |-> None, seen |-> NoneSeen, cursor |-> 0, anchor |-> 0, out |-> <<>>, due |-> {}]

AccessTypeOK ==
    /\ person \in [Persons -> [rev : Nat, login : BOOLEAN]]
    /\ signed \in [Persons -> Nat \cup {None}]
    /\ guest \in [role : GuestRoles, rev : Nat, removed : BOOLEAN]
    /\ tokens \in [Tokens -> Token \cup {None}]
    /\ entries \in [Ids -> EntryRow \cup {None}]
    /\ feed \in [EventIds -> FeedRow \cup {None}]
    /\ gone \in BOOLEAN
    /\ ask.pc \in {"idle", "credential", "person", "guest", "batch", "commit", "next", "done", "refused"}
    /\ ask.op \in Reads \cup {"keys", "issue", "revoke"} /\ ask.cred \in Credentials
    /\ ask.due \subseteq EventIds /\ \A n \in DOMAIN ask.out : ask.out[n] \subseteq EventIds

Issued == [of : Persons, scopes : Wishes, pools : Covers,
           rev : {1}, until : {Life}, revoked : {FALSE}]

(* A ledger in use: the odd ids are taken, new ones may fall between them.   *)
AccessInit ==
    /\ person = [p \in Persons |-> [rev |-> 1, login |-> TRUE]]
    /\ signed = [p \in Persons |-> Life]
    /\ guest = [role |-> "editor", rev |-> 1, removed |-> FALSE]
    /\ tokens \in [Tokens -> {None} \cup Issued]
    /\ entries = [i \in Ids |-> IF i % 2 = 0 THEN None
                    ELSE [pool |-> IF i = 1 THEN "shared" ELSE "project", day |-> 1, live |-> TRUE]]
    /\ feed = [i \in EventIds |-> IF i > MaxId \/ i % 2 = 0 THEN None
                 ELSE [pool |-> entries[i].pool, kind |-> "expense", at |-> 0, kept |-> TRUE]]
    /\ gone = FALSE /\ hour = 0 /\ ask = Unasked /\ asked = 0 /\ edits = 0 /\ changes = 0

-----------------------------------------------------------------------------
(* The principal: _principal, then ledger_principal.                         *)

KeyUsed(a) == a.cred.kind = "key"
CredentialRow(a) == IF KeyUsed(a) THEN tokens[a.cred.id] ELSE signed[a.cred.id]
Actor(a) == IF KeyUsed(a) THEN a.seen.credential.of ELSE a.cred.id

(* What the SELECT of a key and the record of a session have to say.         *)
CredentialUsable(a, row) ==
    /\ row # None
    /\ IF KeyUsed(a) THEN ~row.revoked /\ row.until >= a.now /\ Scope(a.op) \in row.scopes
       ELSE row >= a.now

PoolsOf(a) == IF KeyUsed(a) THEN a.seen.credential.pools ELSE Pools
Elsewhere(a) == a.op # "revoke" /\ Actor(a) # Host

(* However a request ends, nothing of what it has read outlives it.          *)
Refuse(a) == [Unasked EXCEPT !.pc = "refused"]
Finish(a) == [Unasked EXCEPT !.pc = "done", !.op = a.op, !.out = a.out, !.due = a.due]

(* Keys are managed by browser sessions only.                                *)
Call(op, cred) ==
    /\ ask.pc \in {"idle", "done", "refused"} /\ asked < MaxAsked
    /\ op \notin Reads => cred.kind = "session"
    /\ cred.kind = "key" => tokens[cred.id] # None
    /\ \E want \in CASE op = "activity" -> Pools
                     [] op = "issue" -> [scopes : Wishes, pools : Covers]
                     [] op = "revoke" -> Tokens
                     [] OTHER -> {None} :
         ask' = [Unasked EXCEPT !.pc = "credential", !.op = op, !.cred = cred, !.now = hour, !.want = want]
    /\ asked' = asked + 1
    /\ UNCHANGED <<stored, hour, edits, changes>>

ReadCredential ==
    /\ ask.pc = "credential"
    /\ ask' = IF CredentialUsable(ask, CredentialRow(ask))
              THEN [ask EXCEPT !.pc = "person", !.seen.credential = CredentialRow(ask)]
              ELSE Refuse(ask)
    /\ UNCHANGED <<stored, hour, asked, edits, changes>>

(* A session needs an account that can still sign in; a key needs its target *)
(* among the pools it was issued for.                                        *)
ReadPerson ==
    /\ ask.pc = "person"
    /\ LET found == person[Actor(ask)] IN
       ask' = IF (~KeyUsed(ask) /\ ~found.login) \/ (ask.op = "activity" /\ ask.want \notin PoolsOf(ask))
              THEN Refuse(ask)
              ELSE [ask EXCEPT !.pc = IF Elsewhere(ask) THEN "guest" ELSE "batch", !.seen.person = found]
    /\ UNCHANGED <<stored, hour, asked, edits, changes>>

ReadGuest ==
    /\ ask.pc = "guest"
    /\ ask' = IF \/ guest.removed
                 \/ KeyUsed(ask) /\ ask.seen.credential.rev # guest.rev
                 \/ Scope(ask.op) \notin RoleScopes[guest.role]
              THEN Refuse(ask)
              ELSE [ask EXCEPT !.pc = "batch", !.seen.host = person[Host], !.seen.guest = guest]
    /\ UNCHANGED <<stored, hour, asked, edits, changes>>

(* validate: the rows the batch reads are those that were decided by.        *)
MembershipSame(a) == Elsewhere(a) => person[Host] = a.seen.host /\ guest = a.seen.guest
\* weakened: the member row read earlier is taken as it was
ValidatedActor(a) ==
    /\ person[Actor(a)] = a.seen.person
    /\ CredentialUsable(a, CredentialRow(a))
Validated(a) ==
    /\ person[Actor(a)] = a.seen.person
    /\ CredentialUsable(a, CredentialRow(a))
    /\ MembershipSame(a)

-----------------------------------------------------------------------------
(* Pages.                                                                    *)

(* VISIBLE_EXPENSE_TARGET_SQL and restriction_filter.                        *)
EntryShown(a, i) ==
    /\ entries[i] # None /\ entries[i].live
    /\ entries[i].pool \in PoolsOf(a)
    /\ entries[i].pool = "project" => ~gone

(* Settings of a project are shown to keys that may read projects.           *)
EventShown(a, i) ==
    /\ feed[i] # None /\ feed[i].kept /\ feed[i].pool = a.want
    /\ feed[i].at + Window > a.now /\ feed[i].at <= a.anchor
    /\ feed[i].kind = "project" /\ KeyUsed(a) => "projects:read" \in CredentialRow(a).scopes

Shown(a) == IF a.op = "activity" THEN {i \in EventIds : EventShown(a, i)}
            ELSE {i \in Ids : EntryShown(a, i)}

(* The order of a walk, as a number: by id; by date, then id; newest first.  *)
Rank(op, i) ==
    CASE op = "export"   -> entries[i].day * (MaxId + 1) + i
      [] op = "activity" -> (MaxHour - feed[i].at) * (MaxEvent + 1) + (MaxEvent + 1 - i)
      [] OTHER -> i

\* weakened: the stream goes on after the date of its last row
AfterDate(a, i) == IF a.op = "export" THEN entries[i].day > a.cursor \div (MaxId + 1)
                   ELSE Rank(a.op, i) > a.cursor
AfterCursor(a, i) == Rank(a.op, i) > a.cursor

Later(a) == {i \in Shown(a) : AfterCursor(a, i)}
Before(a, i) == {j \in Later(a) : Rank(a.op, j) < Rank(a.op, i)}
Page(a) == {i \in Later(a) : Cardinality(Before(a, i)) < PageSize}
Reached(a) == IF Page(a) = {} THEN a.cursor
              ELSE CHOOSE r \in {Rank(a.op, i) : i \in Page(a)} : \A i \in Page(a) : Rank(a.op, i) <= r

(* due is history: what was there at the first page and was left alone since. *)
Due(a, still) == IF a.out = <<>> THEN Shown(a) ELSE still

(* One batch reads the page and what validate compares. More pages follow, or *)
(* that was the last one.                                                    *)
Serve(a, rows, still, more) ==
    LET b == [a EXCEPT !.pc = more, !.out = Append(@, rows), !.cursor = Reached(a), !.due = Due(a, still)] IN
    /\ ask' = IF ~Validated(a) THEN Refuse(a) ELSE IF more = "done" THEN Finish(b) ELSE b
    /\ UNCHANGED <<stored, hour, asked, edits, changes>>

Reading(op) == ask.pc = "batch" /\ ask.op = op

(* Lists look one row ahead; the client comes back with the cursor.          *)
Ahead(a) == IF Cardinality(Later(a)) > PageSize THEN "next" ELSE "done"
ServeList == Reading("list") /\ Serve(ask, Page(ask), ask.due, Ahead(ask))

(* A CSV stream goes on, with the rights and the time it began with, until a  *)
(* page is not full.                                                         *)
ServeExport ==
    /\ Reading("export")
    /\ Serve(ask, Page(ask), ask.due, IF Cardinality(Page(ask)) = PageSize THEN "batch" ELSE "done")

ServeReport == Reading("report") /\ Serve(ask, Shown(ask), {}, "done")

(* The first page fixes the upper end of the window, each page its lower end. *)
Anchored(a) == IF a.out = <<>> THEN [a EXCEPT !.anchor = a.now] ELSE a
ServeActivity ==
    /\ Reading("activity")
    /\ LET a == Anchored(ask) IN
       IF a.want = "project" /\ gone
       THEN ask' = Refuse(a) /\ UNCHANGED <<stored, hour, asked, edits, changes>>
       ELSE Serve(a, Page(a), a.due \cap Shown(a), Ahead(a))

NextPage ==
    /\ ask.pc = "next"
    /\ ask' = [ask EXCEPT !.pc = "credential", !.now = hour, !.seen = NoneSeen]
    /\ UNCHANGED <<stored, hour, asked, edits, changes>>

-----------------------------------------------------------------------------
(* API keys.                                                                 *)

(* list_api_keys: the keys of the person, of any ledger, in one snapshot.    *)
ListKeys ==
    /\ ask.pc = "batch" /\ ask.op = "keys"
    /\ ask' = IF Validated(ask) THEN Finish(ask) ELSE Refuse(ask)
    /\ UNCHANGED <<stored, hour, asked, edits, changes>>

RoleOf(a) == IF Elsewhere(a) THEN a.seen.guest.role ELSE "owner"

CheckIssue ==
    /\ ask.pc = "batch" /\ ask.op = "issue"
    /\ ask' = IF Validated(ask) /\ ask.want.scopes \subseteq RoleScopes[RoleOf(ask)]
              THEN [ask EXCEPT !.pc = "commit"] ELSE Refuse(ask)
    /\ UNCHANGED <<stored, hour, asked, edits, changes>>

CheckRevoke ==
    /\ ask.pc = "batch" /\ ask.op = "revoke"
    /\ LET row == tokens[ask.want] IN
       ask' = IF Validated(ask) /\ row # None /\ row.of = Actor(ask) /\ ~row.revoked
              THEN [ask EXCEPT !.pc = "commit"] ELSE Refuse(ask)
    /\ UNCHANGED <<stored, hour, asked, edits, changes>>

(* _write_guard: the write is refused unless the accounts, the member's role *)
(* and revision and the session are still what was validated.                *)
WriteGuard(a) == Validated(a)

(* A member's key is bound to the revision of the membership.                *)
NewToken(a) ==
    [of |-> Actor(a), scopes |-> a.want.scopes, pools |-> a.want.pools,
     rev |-> IF Elsewhere(a) THEN a.seen.guest.rev ELSE 1, until |-> a.now + Life, revoked |-> FALSE]

CommitIssue ==
    /\ ask.pc = "commit" /\ ask.op = "issue"
    /\ \E t \in Tokens :
         /\ tokens[t] = None
         /\ IF WriteGuard(ask)
            THEN tokens' = [tokens EXCEPT ![t] = NewToken(ask)] /\ ask' = Finish(ask)
            ELSE UNCHANGED tokens /\ ask' = Refuse(ask)
    /\ UNCHANGED <<person, signed, guest, entries, gone, feed, hour, asked, edits, changes>>

CommitRevoke ==
    /\ ask.pc = "commit" /\ ask.op = "revoke"
    /\ IF WriteGuard(ask) /\ ~tokens[ask.want].revoked
       THEN tokens' = [tokens EXCEPT ![ask.want].revoked = TRUE] /\ ask' = Finish(ask)
       ELSE UNCHANGED tokens /\ ask' = Refuse(ask)
    /\ UNCHANGED <<person, signed, guest, entries, gone, feed, hour, asked, edits, changes>>

-----------------------------------------------------------------------------
(* Everybody else, one commit at a time.                                     *)

Left(due) == IF ask.op \in {"list", "export"} THEN ask' = [ask EXCEPT !.due = @ \cap due] ELSE UNCHANGED ask

(* Between two requests nothing is observed: such a write is the same as one *)
(* right after the next request arrives, and only that one is explored.      *)
Observed == ask.pc \notin {"idle", "done", "refused"}
Edit == Observed /\ edits < MaxEdits /\ edits' = edits + 1 /\ UNCHANGED <<hour, asked, changes>>
Change == Observed /\ changes < MaxChanges /\ changes' = changes + 1 /\ UNCHANGED <<hour, asked, edits>>

(* activity_commands: an operation that touches two pools publishes a row in *)
(* each; a late request publishes with its own, earlier time. Every write    *)
(* also retires rows that left the window.                                   *)
Retired(at) == [i \in EventIds |-> IF feed[i] # None /\ feed[i].at + Window <= at
                                THEN [feed[i] EXCEPT !.kept = FALSE] ELSE feed[i]]
Published(at, kind, pools) ==
    \E id \in [pools -> {i \in EventIds : feed[i] = None}] :
        /\ \A p, q \in pools : id[p] = id[q] => p = q
        /\ feed' = [i \in EventIds |-> IF \E p \in pools : id[p] = i
                      THEN [pool |-> CHOOSE p \in pools : id[p] = i, kind |-> kind, at |-> at, kept |-> TRUE]
                      ELSE Retired(at)[i]]

WriteEntry(i, row) ==
    /\ Edit
    /\ entries[i] # None => entries[i].live /\ row # entries[i]
    /\ ~row.live => entries[i] # None
    /\ gone => \A r \in {entries[i], row} \ {None} : r.pool = "shared"
    /\ ~row.live => row = [entries[i] EXCEPT !.live = FALSE]
    /\ entries' = [entries EXCEPT ![i] = row]
    /\ \E at \in {hour, IF hour = 0 THEN 0 ELSE hour - 1} :
         Published(at, "expense", {r.pool : r \in {entries[i], row} \ {None}})
    /\ Left(Ids \ {i})
    /\ UNCHANGED <<person, signed, guest, tokens, gone>>

EditProject ==
    /\ Edit /\ ~gone
    /\ Published(hour, "project", {"project"})
    /\ UNCHANGED <<person, signed, guest, tokens, entries, gone, ask>>

RemoveProject ==
    /\ Edit /\ ~gone /\ gone' = TRUE
    /\ Left({i \in Ids : entries[i] # None /\ entries[i].pool = "shared"})
    /\ UNCHANGED <<person, signed, guest, tokens, entries, feed>>

RewritePerson(p, login) ==
    /\ Change
    /\ person' = [person EXCEPT ![p] = [rev |-> @.rev + 1, login |-> login]]
    /\ UNCHANGED <<signed, guest, tokens, entries, gone, feed, ask>>

SignOut(p) ==
    /\ Change /\ signed[p] # None
    /\ signed' = [signed EXCEPT ![p] = None]
    /\ UNCHANGED <<person, guest, tokens, entries, gone, feed, ask>>

ChangeGuest(role, removed) ==
    /\ Change /\ guest' = [role |-> role, rev |-> guest.rev + 1, removed |-> removed]
    /\ UNCHANGED <<person, signed, tokens, entries, gone, feed, ask>>

Pass ==
    /\ hour < MaxHour /\ hour' = hour + 1
    /\ UNCHANGED <<stored, ask, asked, edits, changes>>

Others ==
    \/ \E i \in Ids, row \in EntryRow : WriteEntry(i, row)
    \/ EditProject
    \/ RemoveProject
    \/ \E p \in Persons, login \in BOOLEAN : RewritePerson(p, login)
    \/ \E p \in Persons : SignOut(p)
    \/ \E role \in GuestRoles, removed \in BOOLEAN : ChangeGuest(role, removed)
    \/ Pass

AccessNext ==
    \/ \E op \in Reads \cup {"keys", "issue", "revoke"}, cred \in Credentials : Call(op, cred)
    \/ ReadCredential
    \/ ReadPerson
    \/ ReadGuest
    \/ ServeList
    \/ ServeExport
    \/ ServeReport
    \/ ServeActivity
    \/ NextPage
    \/ ListKeys
    \/ CheckIssue
    \/ CheckRevoke
    \/ CommitIssue
    \/ CommitRevoke
    \/ Others

AccessSpec == AccessInit /\ [][AccessNext]_accessVars

-----------------------------------------------------------------------------
(* What readers and holders of keys are promised.                            *)

(* Authority as the tables have it now, whatever the request has read.       *)
Authorized(a) ==
    LET row == CredentialRow(a)
        actor == IF KeyUsed(a) THEN row.of ELSE a.cred.id
    IN /\ CredentialUsable(a, row)
       /\ ~KeyUsed(a) => person[actor].login
       /\ actor # Host /\ a.op # "revoke" =>
            /\ ~guest.removed /\ Scope(a.op) \in RoleScopes[guest.role]
            /\ KeyUsed(a) => row.rev = guest.rev

Offered(a, pool) == KeyUsed(a) => pool \in tokens[a.cred.id].pools

\* A page is served, a key issued and a key revoked only in a step in which the
\* credential stands, its holder's membership and role still allow the operation and
\* every row served is in a pool the credential covers and in no removed project; a
\* key never carries a scope its holder's role lacks at that moment, and is bound to
\* that membership. Nobody revives a revoked key.
ServedWithAuthority == [][
    /\ Len(ask'.out) > Len(ask.out) =>
         /\ Authorized(ask)
         /\ LET served == ask'.out[Len(ask'.out)]
                pools == {IF ask.op = "activity" THEN feed[i].pool ELSE entries[i].pool : i \in served}
            IN \A pool \in pools : Offered(ask, pool) /\ (pool = "project" => ~gone)
    /\ \A t \in Tokens : tokens'[t] # tokens[t] =>
         /\ Authorized(ask)
         /\ IF tokens[t] = None
            THEN LET holder == tokens'[t].of IN
                 /\ holder = ask.cred.id
                 /\ tokens'[t].scopes \subseteq RoleScopes[IF holder = Host THEN "owner" ELSE guest.role]
                 /\ holder # Host => tokens'[t].rev = guest.rev
            ELSE tokens[t].of = ask.cred.id /\ tokens'[t] = [tokens[t] EXCEPT !.revoked = TRUE]
    ]_accessVars

TimesListed(i) == Cardinality({n \in DOMAIN ask.out : i \in ask.out[n]})

\* A walk that reaches its end has listed exactly once every expense, or event still
\* in the window, that was there at its first page and that nobody touched since,
\* whatever was written, moved or removed between its pages; lists ordered by an
\* immutable key never repeat any row at all.
WalksComplete ==
    /\ AccessTypeOK
    /\ ask.pc = "done" /\ ask.op \in Reads => \A i \in ask.due : TimesListed(i) = 1
    /\ ask.op \in {"list", "activity"} => \A i \in EventIds : TimesListed(i) <= 1
=============================================================================
