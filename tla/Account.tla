------------------------------ MODULE Account ------------------------------
(***************************************************************************)
(* Accounts and who may do what: registration, login and refresh           *)
(* (server/handler/auth.go), the two middlewares that look the user up on  *)
(* each request (server/middleware/auth.go and admin.go), and the blocking *)
(* of users by administrators (server/handler/admin.go), over the users of *)
(* pkg/mongoDB/user.go.  No code makes an administrator; here those there  *)
(* are have just logged in.                                                *)
(*                                                                         *)
(* A unit of time is longer than a handler: lookups end after five         *)
(* seconds, tokens live for hours.                                         *)
(***************************************************************************)
EXTENDS Naturals

CONSTANTS
    Names, Admins,      \* usernames, and those made administrators by hand
    Calls,              \* HTTP requests, each served once
    Lifetime,           \* JWT_EXPIRY
    Grace,              \* RefreshGracePeriod
    Hours               \* bound on the clock

AccountAssumption ==
    /\ Admins \subseteq Names /\ Admins # {}
    /\ Lifetime \in Nat \ {0} /\ Grace \in Nat /\ Hours \in Nat

VARIABLES
    hour,
    role,        \* user.Role; "none" as long as there is no such user
    expiry,      \* when the last token issued to a name expires (0: none was);
                 \* a logout only clears the cookie
    call,        \* where the handler of each request stands
    caller,      \* its username
    blockedAt,   \* history: when a user who is blocked was blocked
    stale        \* history: an administrator acted who was one no more

accounts == <<hour, role, expiry, call, caller, blockedAt, stale>>

CallSteps == {"new", "issue", "authed", "admin", "done"}

AccountTypeOK ==
    /\ hour \in 0..Hours
    /\ role \in [Names -> {"none", "user", "admin", "blocked"}]
    /\ expiry \in [Names -> 0..(Hours + Lifetime)]
    /\ call \in [Calls -> CallSteps]
    /\ caller \in [Calls -> Names]
    /\ blockedAt \in [Names -> 0..Hours]
    /\ stale \in BOOLEAN

AccountInit ==
    /\ hour = 0
    /\ role = [n \in Names |-> IF n \in Admins THEN "admin" ELSE "none"]
    /\ expiry = [n \in Names |-> IF n \in Admins THEN Lifetime ELSE 0]
    /\ call = [q \in Calls |-> "new"]
    /\ caller \in [Calls -> Names]
    /\ blockedAt = [n \in Names |-> 0]
    /\ stale = FALSE

CallGoes(q, s, t) == call[q] = s /\ call' = [call EXCEPT ![q] = t]

---------------------------------------------------------------------------
(* auth.go.                                                                *)

\* generateToken; who has a new token does not need the one before.
IssueTo(n) == expiry' = [expiry EXCEPT ![n] = hour + Lifetime]

\* InsertOne; the unique index refuses a name that is taken.
CreateUser(n) ==
    /\ role[n] = "none"
    /\ role' = [role EXCEPT ![n] = "user"]

\* A timeout of the insertion may leave an account behind without a token.
RegisterHandler(q) ==
    /\ CallGoes(q, "new", "done")
    /\ CreateUser(caller[q])
    /\ IssueTo(caller[q]) \/ UNCHANGED expiry
    /\ UNCHANGED <<hour, caller, blockedAt, stale>>

\* FindUserByUsername and the right password; a role read as "blocked" ends
\* the handler.
LoginHandler(q) ==
    /\ CallGoes(q, "new", "issue")
    /\ role[caller[q]] \in {"user", "admin"}
    /\ UNCHANGED <<hour, role, expiry, caller, blockedAt, stale>>

\* Mutant: only the token is looked at.
RefreshUnchecked(q) ==
    /\ CallGoes(q, "new", "issue")
    /\ expiry[caller[q]] # 0 /\ hour <= expiry[caller[q]] + Grace
    /\ UNCHANGED <<hour, role, expiry, caller, blockedAt, stale>>

\* A signed token that has not expired for longer than the grace period, and
\* the user looked up as for a login.
RefreshHandler(q) ==
    /\ CallGoes(q, "new", "issue")
    /\ expiry[caller[q]] # 0 /\ hour <= expiry[caller[q]] + Grace
    /\ role[caller[q]] \in {"user", "admin"}
    /\ UNCHANGED <<hour, role, expiry, caller, blockedAt, stale>>

\* The end of login and refresh.
Issue(q) ==
    /\ CallGoes(q, "issue", "done")
    /\ IssueTo(caller[q])
    /\ UNCHANGED <<hour, role, caller, blockedAt, stale>>

---------------------------------------------------------------------------
(* middleware/auth.go, middleware/admin.go, handler/admin.go.              *)

\* A token that has not expired, and a user who is not blocked; a lookup that
\* fails is passed over.
JwtAuth(q) ==
    /\ CallGoes(q, "new", "authed")
    /\ hour < expiry[caller[q]]
    /\ role[caller[q]] # "blocked"
    /\ UNCHANGED <<hour, role, expiry, caller, blockedAt, stale>>

JwtAuthUnavailable(q) ==
    /\ CallGoes(q, "new", "authed")
    /\ hour < expiry[caller[q]]
    /\ UNCHANGED <<hour, role, expiry, caller, blockedAt, stale>>

\* A second lookup; here one that fails refuses (503).
AdminRequired(q) ==
    /\ CallGoes(q, "authed", "admin")
    /\ role[caller[q]] = "admin"
    /\ UNCHANGED <<hour, role, expiry, caller, blockedAt, stale>>

\* SetUserRole: UpdateOne, which matches no user if there is none.  To
\* unblock is to make a "user" of whoever it was.
SetUserRole(n, r) ==
    /\ role' = [role EXCEPT ![n] = IF @ = "none" THEN @ ELSE r]
    /\ blockedAt' = [blockedAt EXCEPT ![n] = IF r = "blocked" /\ role[n] # r THEN hour ELSE @]

\* Mutant: an administrator may be the target of his own request.
BlockAnyUser(q, n, r) ==
    /\ CallGoes(q, "admin", "done")
    /\ SetUserRole(n, r)
    /\ stale' = (stale \/ role[caller[q]] # "admin")
    /\ UNCHANGED <<hour, expiry, caller>>

\* BlockUser or UnblockUser, of anybody but oneself (#246).
AdminBlockUserHandler(q, n, r) ==
    /\ CallGoes(q, "admin", "done")
    /\ n # caller[q]
    /\ SetUserRole(n, r)
    /\ stale' = (stale \/ role[caller[q]] # "admin")
    /\ UNCHANGED <<hour, expiry, caller>>

HourPasses ==
    /\ hour < Hours
    /\ \A q \in Calls : call[q] \in {"new", "done"}
    /\ hour' = hour + 1
    /\ UNCHANGED <<role, expiry, call, caller, blockedAt, stale>>

---------------------------------------------------------------------------
\* Any other handler ends behind JwtAuth or AdminRequired, as does a request
\* that is refused.
Finish(q) ==
    /\ call[q] \in {"authed", "admin"}
    /\ CallGoes(q, call[q], "done")
    /\ UNCHANGED <<hour, role, expiry, caller, blockedAt, stale>>

AccountNext ==
    \/ HourPasses
    \/ \E q \in Calls :
         \/ RegisterHandler(q) \/ LoginHandler(q) \/ RefreshHandler(q) \/ Issue(q)
         \/ JwtAuth(q) \/ JwtAuthUnavailable(q) \/ AdminRequired(q) \/ Finish(q)
         \/ \E n \in Names, r \in {"user", "blocked"} : AdminBlockUserHandler(q, n, r)

AccountSpec == AccountInit /\ [][AccountNext]_accounts

---------------------------------------------------------------------------
(* Properties.                                                             *)

\* Administrators who block and unblock each other leave at least one: nobody
\* blocks himself, so that the one who acts stays.  All of them are gone only
\* if one acted after he had lost the role himself.
LastAdminStays == (\A n \in Names : role[n] # "admin") => stale

\* The door that jwtAuth leaves open while lookups fail closes for a blocked
\* user when the last token he got before the blocking expires: neither login
\* nor refresh, however they overlap with the blocking, gives him another.
BlockedRunsOut ==
    [][\A q \in Calls :
         call[q] = "new" /\ call'[q] = "authed" /\ role[caller[q]] = "blocked"
           => hour < blockedAt[caller[q]] + Lifetime]_accounts
=============================================================================
