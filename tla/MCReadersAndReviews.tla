------------------------ MODULE MCReadersAndReviews ------------------------
(***************************************************************************)
(* Who reads a ledger and how often anybody may ask, the model of reviews  *)
(* included, and its categories: small instances of JevReview,             *)
(* LedgerAccess, RateLimits and Categories. They share no variable, so     *)
(* each behaviour explores one of them and the others stay as they were.   *)
(***************************************************************************)
EXTENDS JevReview, LedgerAccess, RateLimits, Categories

VARIABLE part

\* Reviews: one published, decided or not.
OneEvent == Cardinality(events) <= 1

\* Reviews: allowances that leave room for one reservation and one edit a month.
MCAllowance == [
    free |-> [projects |-> 0, records |-> 1, minute |-> 1, month |-> 1, jev |-> 0],
    paid |-> [projects |-> 0, records |-> 1, minute |-> 1, month |-> 1, jev |-> 2]]

MCWishes == {{"expenses:read"}, {"expenses:read", "projects:read", "expenses:write"}}
MCCovers == {{"project"}, {"project", "shared"}}
MCLimit == [ip |-> 2, credential |-> 2, oauth |-> 1, actor |-> 1,
            send |-> 2, sendIp |-> 3, sendAll |-> 3, verify |-> 2, verifyIp |-> 2]

MCInit ==
    /\ part \in {"reviews", "readers", "preview", "mail", "categories"}
    /\ JevInit /\ AccessInit /\ RateInit /\ CategoriesInit
    /\ part # "reviews" => account.until = 0
    /\ projects = IF part = "reviews" THEN 1 ELSE 0    \* reviews: of an expense there is
    /\ part # "readers" => tokens = [t \in Tokens |-> None]

MCNext ==
    /\ UNCHANGED part
    /\ \/ part = "reviews" /\ JevNext /\ UNCHANGED <<accessVars, rateVars, catVars>>
       \/ part = "readers" /\ AccessNext /\ UNCHANGED <<jevVars, rateVars, catVars>>
       \/ part = "preview" /\ PreviewCalls /\ UNCHANGED <<jevVars, accessVars, catVars>>
       \/ part = "mail" /\ MailCalls /\ UNCHANGED <<jevVars, accessVars, catVars>>
       \/ part = "categories" /\ CategoriesNext /\ UNCHANGED <<jevVars, accessVars, rateVars>>

MCSpec == MCInit /\ [][MCNext]_<<part, jevVars, accessVars, rateVars, catVars>>
=============================================================================
