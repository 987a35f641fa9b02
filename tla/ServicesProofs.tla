--------------------------- MODULE ServicesProofs ---------------------------
(***************************************************************************)
(* Proofs about the services beside the hubs (those about RoomStore are in *)
(* RoomStoreProofs), one component after the other, for every value of     *)
(* their constants.                                                        *)
(***************************************************************************)
EXTENDS Services, RoomStoreProofs, FiniteSetTheorems, TLAPS

---------------------------------------------------------------------------
(* Account: every number of users, administrators and requests, and every  *)
(* life time of tokens.                                                    *)

(***************************************************************************)
(* No token lives longer than from now, none of a blocked user longer than *)
(* from his blocking; and a handler that is about to issue one to a user   *)
(* who is blocked has been overtaken by the blocking just now.             *)
(***************************************************************************)
TokensEnd == \A n \in Names : expiry[n] <= hour + Lifetime

BlockedTokensEnd ==
    \A n \in Names : role[n] = "blocked" => expiry[n] <= blockedAt[n] + Lifetime

OvertakenNow ==
    \A q \in Calls :
      call[q] = "issue" /\ role[caller[q]] = "blocked" => blockedAt[caller[q]] = hour

AccountInv == AccountTypeOK /\ TokensEnd /\ BlockedTokensEnd /\ OvertakenNow

\* The first state, and every step.
LEMMA AccountInvInit == AccountAssumption /\ AccountInit => AccountInv
<1> SUFFICES ASSUME AccountAssumption, AccountInit PROVE AccountInv
  OBVIOUS
<1>1. AccountTypeOK
  <2>1. 0 \in 0..Hours /\ 0 \in 0..(Hours + Lifetime)
        /\ Lifetime \in 0..(Hours + Lifetime)
    BY DEF AccountAssumption
  <2>2. QED
    BY <2>1 DEF AccountInit, AccountTypeOK, CallSteps
<1>2. TokensEnd
  <2>1. ASSUME NEW n \in Names PROVE expiry[n] <= hour + Lifetime
    <3>1. expiry[n] \in {0, Lifetime} /\ hour = 0
      BY DEF AccountInit
    <3>2. QED
      BY <3>1 DEF AccountAssumption
  <2>2. QED
    BY <2>1 DEF TokensEnd
<1>3. BlockedTokensEnd /\ OvertakenNow
  BY DEF AccountInit, BlockedTokensEnd, OvertakenNow
<1>4. QED
  BY <1>1, <1>2, <1>3 DEF AccountInv

\* Every step keeps the types.
LEMMA AccountTypeStep == ASSUME AccountAssumption, AccountInv, [AccountNext]_accounts PROVE AccountTypeOK'
<1> USE DEF AccountAssumption, AccountInv, AccountTypeOK, CallSteps
<1>1. CASE HourPasses
  <2>1. hour \in 0..Hours /\ hour < Hours /\ hour' = hour + 1
    BY <1>1 DEF HourPasses
  <2>2. QED
    BY <1>1, <2>1 DEF HourPasses
<1>2. ASSUME NEW q \in Calls,
             \/ RegisterHandler(q) \/ LoginHandler(q) \/ RefreshHandler(q) \/ Issue(q)
      PROVE  AccountTypeOK'
  <2>1. caller[q] \in Names /\ hour + Lifetime \in 0..(Hours + Lifetime)
    OBVIOUS
  <2>2. QED
    BY <1>2, <2>1
       DEF RegisterHandler, CreateUser, LoginHandler, RefreshHandler, Issue, CallGoes, IssueTo
<1>3. ASSUME NEW q \in Calls,
             JwtAuth(q) \/ JwtAuthUnavailable(q) \/ AdminRequired(q) \/ Finish(q)
      PROVE  AccountTypeOK'
  BY <1>3 DEF JwtAuth, JwtAuthUnavailable, AdminRequired, Finish, CallGoes
<1>4. ASSUME NEW q \in Calls, NEW n \in Names, NEW r \in {"user", "blocked"},
             AdminBlockUserHandler(q, n, r)
      PROVE  AccountTypeOK'
  BY <1>4 DEF AdminBlockUserHandler, SetUserRole, CallGoes
<1>5. CASE UNCHANGED accounts
  BY <1>5 DEF accounts
<1>6. QED
  BY <1>1, <1>2, <1>3, <1>4, <1>5 DEF AccountNext

\* Every step, over the handlers of auth.go and admin.go.
LEMMA AccountInvStep == ASSUME AccountAssumption, AccountInv, [AccountNext]_accounts PROVE AccountInv'
<1>1. AccountTypeOK'
  BY AccountTypeStep
<1>2. /\ hour \in Nat /\ Lifetime \in Nat
      /\ \A n \in Names : expiry[n] \in Nat /\ blockedAt[n] \in Nat
      /\ \A q \in Calls : caller[q] \in Names
      /\ DOMAIN expiry = Names /\ DOMAIN role = Names /\ DOMAIN blockedAt = Names
      /\ DOMAIN call = Calls
  BY DEF AccountAssumption, AccountInv, AccountTypeOK
<1> DEFINE Ends == TokensEnd /\ BlockedTokensEnd /\ OvertakenNow
<1>3. Ends
  BY DEF AccountInv
<1> USE DEF TokensEnd, BlockedTokensEnd, OvertakenNow
<1>4. ASSUME HourPasses PROVE Ends'
  <2>1. /\ hour' = hour + 1 /\ role' = role /\ expiry' = expiry /\ call' = call
        /\ caller' = caller /\ blockedAt' = blockedAt
        /\ \A q \in Calls : call[q] # "issue"
    BY <1>4 DEF HourPasses
  <2>2. QED
    BY <1>2, <1>3, <2>1
<1>5. ASSUME NEW q \in Calls, RegisterHandler(q) PROVE Ends'
  <2>1. /\ role[caller[q]] = "none" /\ caller' = caller /\ hour' = hour /\ blockedAt' = blockedAt
        /\ role' = [role EXCEPT ![caller[q]] = "user"]
        /\ call' = [call EXCEPT ![q] = "done"]
        /\ expiry' = expiry \/ expiry' = [expiry EXCEPT ![caller[q]] = hour + Lifetime]
    BY <1>5 DEF RegisterHandler, CreateUser, CallGoes, IssueTo
  <2>2. QED
    BY <1>2, <1>3, <2>1
<1>6. ASSUME NEW q \in Calls, LoginHandler(q) \/ RefreshHandler(q) PROVE Ends'
  <2>1. /\ role[caller[q]] \in {"user", "admin"}
        /\ caller' = caller /\ hour' = hour /\ blockedAt' = blockedAt /\ role' = role
        /\ expiry' = expiry /\ call' = [call EXCEPT ![q] = "issue"]
    BY <1>6 DEF LoginHandler, RefreshHandler, CallGoes
  <2>2. QED
    BY <1>2, <1>3, <2>1
<1>7. ASSUME NEW q \in Calls, Issue(q) PROVE Ends'
  <2>1. /\ call[q] = "issue"
        /\ caller' = caller /\ hour' = hour /\ blockedAt' = blockedAt /\ role' = role
        /\ expiry' = [expiry EXCEPT ![caller[q]] = hour + Lifetime]
        /\ call' = [call EXCEPT ![q] = "done"]
    BY <1>7 DEF Issue, IssueTo, CallGoes
  <2>2. QED
    BY <1>2, <1>3, <2>1
<1>8. ASSUME NEW q \in Calls,
             JwtAuth(q) \/ JwtAuthUnavailable(q) \/ AdminRequired(q) \/ Finish(q)
      PROVE  Ends'
  <2>1. /\ caller' = caller /\ hour' = hour /\ blockedAt' = blockedAt /\ role' = role
        /\ expiry' = expiry
        /\ \A p \in Calls : call'[p] = "issue" => call[p] = "issue"
    BY <1>2, <1>8 DEF JwtAuth, JwtAuthUnavailable, AdminRequired, Finish, CallGoes
  <2>2. QED
    BY <1>2, <1>3, <2>1
<1>9. ASSUME NEW q \in Calls, NEW n \in Names, NEW r \in {"user", "blocked"},
             AdminBlockUserHandler(q, n, r)
      PROVE  Ends'
  <2>1. /\ caller' = caller /\ hour' = hour /\ expiry' = expiry
        /\ role' = [role EXCEPT ![n] = IF @ = "none" THEN @ ELSE r]
        /\ blockedAt' = [blockedAt EXCEPT
                           ![n] = IF r = "blocked" /\ role[n] # r THEN hour ELSE @]
        /\ call' = [call EXCEPT ![q] = "done"]
    BY <1>9 DEF AdminBlockUserHandler, SetUserRole, CallGoes
  <2>2. QED
    BY <1>2, <1>3, <2>1
<1>10. ASSUME UNCHANGED accounts PROVE Ends'
  <2>1. /\ hour' = hour /\ role' = role /\ expiry' = expiry /\ call' = call
        /\ caller' = caller /\ blockedAt' = blockedAt
    BY <1>10 DEF accounts
  <2>2. QED
    BY <1>2, <1>3, <2>1
<1>11. QED
  BY <1>1, <1>4, <1>5, <1>6, <1>7, <1>8, <1>9, <1>10 DEF AccountNext, AccountInv

\* Every variable keeps its type.
THEOREM AccountTypeCorrect == ASSUME AccountAssumption PROVE AccountSpec => []AccountTypeOK
<1>1. AccountInit => AccountInv
  BY AccountInvInit
<1>2. AccountInv /\ [AccountNext]_accounts => AccountInv'
  BY AccountInvStep
<1>3. AccountInv => AccountTypeOK
  BY DEF AccountInv
<1>4. QED
  BY <1>1, <1>2, <1>3, PTL DEF AccountSpec

\* However many administrators block each other at the same time, they are
\* all gone only if one acted who was an administrator no more.
THEOREM AdminStays == ASSUME AccountAssumption PROVE AccountSpec => []LastAdminStays
<1>1. AccountInit => AccountInv /\ LastAdminStays
  <2>1. AccountInit => LastAdminStays
    BY DEF AccountInit, LastAdminStays, AccountAssumption
  <2>2. QED
    BY <2>1, AccountInvInit
<1>2. ASSUME AccountInv, LastAdminStays, [AccountNext]_accounts PROVE LastAdminStays'
  <2> USE DEF LastAdminStays
  <2>1. /\ \A q \in Calls : caller[q] \in Names
        /\ DOMAIN role = Names
    BY <1>2 DEF AccountInv, AccountTypeOK
  <2>2. CASE HourPasses
    BY <1>2, <2>2 DEF HourPasses
  <2>3. ASSUME NEW q \in Calls, RegisterHandler(q) PROVE LastAdminStays'
    BY <1>2, <2>1, <2>3 DEF RegisterHandler, CreateUser
  <2>4. ASSUME NEW q \in Calls,
               \/ LoginHandler(q) \/ RefreshHandler(q) \/ Issue(q) \/ JwtAuth(q)
               \/ JwtAuthUnavailable(q) \/ AdminRequired(q) \/ Finish(q)
        PROVE  LastAdminStays'
    BY <1>2, <2>4 DEF LoginHandler, RefreshHandler, Issue, JwtAuth, JwtAuthUnavailable,
                      AdminRequired, Finish
  <2>5. ASSUME NEW q \in Calls, NEW n \in Names, NEW r \in {"user", "blocked"},
               AdminBlockUserHandler(q, n, r)
        PROVE  LastAdminStays'
    <3>1. /\ n # caller[q] /\ stale' = (stale \/ role[caller[q]] # "admin")
          /\ role' = [role EXCEPT ![n] = IF @ = "none" THEN @ ELSE r]
      BY <2>5 DEF AdminBlockUserHandler, SetUserRole
    <3>2. CASE role[caller[q]] = "admin"
      BY <2>1, <3>1, <3>2
    <3>3. CASE role[caller[q]] # "admin"
      BY <3>1, <3>3
    <3>4. QED
      BY <3>2, <3>3
  <2>6. CASE UNCHANGED accounts
    BY <1>2, <2>6 DEF accounts
  <2>7. QED
    BY <1>2, <2>2, <2>3, <2>4, <2>5, <2>6 DEF AccountNext
<1>3. AccountInv /\ LastAdminStays /\ [AccountNext]_accounts => AccountInv' /\ LastAdminStays'
  BY <1>2, AccountInvStep
<1>4. QED
  BY <1>1, <1>3, PTL DEF AccountSpec

\* A blocked user gets through jwtAuth only as long as the last token lives
\* that he had when he was blocked, even if every lookup fails from then on.
THEOREM BlockedEnds == ASSUME AccountAssumption PROVE AccountSpec => BlockedRunsOut
<1>1. AccountInit => AccountInv
  BY AccountInvInit
<1>2. AccountInv /\ [AccountNext]_accounts => AccountInv'
  BY AccountInvStep
<1>3. ASSUME AccountInv, [AccountNext]_accounts
      PROVE  \A q \in Calls :
               call[q] = "new" /\ call'[q] = "authed" /\ role[caller[q]] = "blocked"
                 => hour < blockedAt[caller[q]] + Lifetime
  <2> SUFFICES ASSUME NEW q \in Calls,
                      call[q] = "new", call'[q] = "authed", role[caller[q]] = "blocked"
               PROVE  hour < blockedAt[caller[q]] + Lifetime
    OBVIOUS
  <2>1. /\ DOMAIN call = Calls /\ caller[q] \in Names
        /\ hour \in Nat /\ expiry[caller[q]] \in Nat /\ blockedAt[caller[q]] \in Nat
    BY <1>3 DEF AccountInv, AccountTypeOK
  <2>2. hour < expiry[caller[q]]
    <3>1. call' # call
      OBVIOUS
    <3>2. PICK p \in Calls : JwtAuth(p) \/ JwtAuthUnavailable(p)
      BY <1>3, <2>1, <3>1
         DEF AccountNext, accounts, HourPasses, RegisterHandler, CreateUser, LoginHandler, RefreshHandler, Issue,
             AdminRequired, AdminBlockUserHandler, Finish, CallGoes
    <3>3. p = q /\ hour < expiry[caller[p]]
      BY <2>1, <3>2 DEF JwtAuth, JwtAuthUnavailable, CallGoes
    <3>4. QED
      BY <3>3
  <2>3. expiry[caller[q]] <= blockedAt[caller[q]] + Lifetime
    BY <1>3, <2>1 DEF AccountInv, BlockedTokensEnd
  <2>4. QED
    BY <2>1, <2>2, <2>3, SMT DEF AccountAssumption
<1>4. AccountInv /\ [AccountNext]_accounts =>
        [\A q \in Calls :
           call[q] = "new" /\ call'[q] = "authed" /\ role[caller[q]] = "blocked"
             => hour < blockedAt[caller[q]] + Lifetime]_accounts
  BY <1>3
<1>5. QED
  BY <1>1, <1>2, <1>4, PTL DEF AccountSpec, BlockedRunsOut

---------------------------------------------------------------------------
(* RateLimit: every number of addresses, rate and burst.  Forgetting       *)
(* visitors changes nothing for them, and what an address gets through is  *)
(* bounded by its bucket and what time has put into it.                    *)

(***************************************************************************)
(* What the steps rely on beside the types: a limiter was used last no     *)
(* later than its visitor was seen.                                        *)
(***************************************************************************)
UsedIsSeen == \A a \in DOMAIN visitors : visitors[a].last <= visitors[a].seen

RateInv == RateTypeOK /\ UsedIsSeen

\* The bucket that the refinement gives an address.
Bucket(a) == IF a \in DOMAIN visitors THEN Level(visitors[a], unit) ELSE Burst

\* A level is that of a bucket.
LEMMA LevelType ==
    ASSUME RateAssumption, NEW t \in Nat, NEW v,
           v.tokens \in 0..Burst, v.last \in 0..t
    PROVE  Level(v, t) \in 0..Burst
<1>1. Fill * (t - v.last) \in Nat
  BY SMT DEF RateAssumption
<1>2. QED
  BY <1>1, SMT DEF Level, RateAssumption

\* Time adds to a level what it adds to a bucket.
LEMMA LevelStep ==
    ASSUME RateAssumption, NEW t \in Nat, NEW v,
           v.tokens \in 0..Burst, v.last \in 0..t
    PROVE  Level(v, t + 1) =
             IF Burst <= Level(v, t) + Fill THEN Burst ELSE Level(v, t) + Fill
<1>1. Fill * (t - v.last) \in Nat
  BY SMT DEF RateAssumption
<1>2. Fill * (t + 1 - v.last) = Fill * (t - v.last) + Fill
  BY SMT DEF RateAssumption
<1>3. QED
  BY <1>1, <1>2, SMT DEF Level, RateAssumption

\* At the time of its use a level is what the limiter holds.
LEMMA LevelNow ==
    ASSUME RateAssumption, NEW t \in Nat, NEW v, v.tokens \in 0..Burst, v.last = t
    PROVE  Level(v, t) = v.tokens
<1>1. Fill * (t - v.last) = 0
  BY SMT DEF RateAssumption
<1>2. QED
  BY <1>1, SMT DEF Level, RateAssumption

\* A limiter that was not used for longer than Idle is full.
LEMMA LevelIdle ==
    ASSUME RateAssumption, NEW t \in Nat, NEW v,
           v.tokens \in 0..Burst, v.last \in 0..t, t - v.last > IdleVisitor
    PROVE  Level(v, t) = Burst
<1>1. PICK k \in Nat : t - v.last = (IdleVisitor + 1) + k
  <2>1. t - v.last - (IdleVisitor + 1) \in Nat
    BY SMT DEF RateAssumption
  <2>2. t - v.last = (IdleVisitor + 1) + (t - v.last - (IdleVisitor + 1))
    BY SMT DEF RateAssumption
  <2>3. QED
    BY <2>1, <2>2
<1>2. Fill * ((IdleVisitor + 1) + k) = Fill * (IdleVisitor + 1) + Fill * k
  BY SMT DEF RateAssumption
<1>3. Fill * k \in Nat /\ Fill * (IdleVisitor + 1) \in Nat
  BY SMT DEF RateAssumption
<1>4. Burst <= Fill * (t - v.last) /\ Fill * (t - v.last) \in Nat
  <2>1. Fill * (t - v.last) = Fill * (IdleVisitor + 1) + Fill * k
    BY <1>1, <1>2
  <2>2. Burst <= Fill * (IdleVisitor + 1)
    BY DEF RateAssumption
  <2>3. Burst \in Nat
    BY DEF RateAssumption
  <2> HIDE DEF RateAssumption
  <2> DEFINE x == Fill * (IdleVisitor + 1)   y == Fill * k
  <2>4. x \in Nat /\ y \in Nat /\ Burst <= x
    BY <1>3, <2>2
  <2> HIDE DEF x, y
  <2>5. Burst <= x + y /\ x + y \in Nat
    BY <2>3, <2>4, SMT
  <2>6. QED
    BY <2>1, <2>5 DEF x, y
<1>5. v.tokens \in Nat
  BY SMT DEF RateAssumption
<1>6. CASE v.tokens + Fill * (t - v.last) <= Burst
  <2>1. Level(v, t) = v.tokens + Fill * (t - v.last)
    BY <1>6 DEF Level
  <2> DEFINE z == Fill * (t - v.last)
  <2>2. Burst <= z /\ z \in Nat /\ v.tokens + z <= Burst /\ Burst \in Nat
    BY <1>4, <1>6 DEF RateAssumption
  <2> HIDE DEF z
  <2>3. v.tokens + z = Burst
    BY <1>5, <2>2, SMT
  <2>4. QED
    BY <2>1, <2>3 DEF z
<1>7. CASE ~(v.tokens + Fill * (t - v.last) <= Burst)
  BY <1>7 DEF Level
<1>8. QED
  BY <1>6, <1>7

\* getLimiter answers with a limiter, and leaves its level alone.
LEMMA LimiterType ==
    ASSUME RateAssumption, RateInv, NEW a \in Addresses
    PROVE  /\ GetLimiter(a) \in Visitor
           /\ GetLimiter(a).seen = unit
           /\ GetLimiter(a).last <= unit
           /\ Level(GetLimiter(a), unit) = Bucket(a)
           /\ Bucket(a) \in 0..Burst
<1>1. NewLimiter \in Visitor /\ NewLimiter.seen = unit /\ NewLimiter.last = unit
      /\ NewLimiter.tokens = Burst
  BY DEF NewLimiter, Visitor, RateAssumption, RateInv, RateTypeOK
<1>2. Level(NewLimiter, unit) = Burst
  BY <1>1, LevelNow DEF RateInv, RateTypeOK, RateAssumption
<1>3. CASE a \in DOMAIN visitors
  <2>1. visitors[a] \in Visitor
    BY <1>3 DEF RateInv, RateTypeOK
  <2>2. /\ GetLimiter(a) = [visitors[a] EXCEPT !.seen = unit]
        /\ GetLimiter(a).tokens = visitors[a].tokens
        /\ GetLimiter(a).last = visitors[a].last
        /\ GetLimiter(a).seen = unit
        /\ GetLimiter(a) \in Visitor
    BY <1>3, <2>1 DEF GetLimiter, Visitor, RateInv, RateTypeOK
  <2>3. Level(GetLimiter(a), unit) = Level(visitors[a], unit)
    BY <2>2 DEF Level
  <2>4. Level(visitors[a], unit) \in 0..Burst
    BY <2>1, LevelType DEF Visitor, RateInv, RateTypeOK
  <2>5. visitors[a].last <= unit
    BY <2>1 DEF Visitor, RateInv, RateTypeOK
  <2>6. QED
    BY <1>3, <2>2, <2>3, <2>4, <2>5 DEF Bucket
<1>4. CASE a \notin DOMAIN visitors
  BY <1>1, <1>2, <1>4 DEF GetLimiter, Bucket, RateInv, RateTypeOK, RateAssumption
<1>5. QED
  BY <1>3, <1>4
\* The first state and every step keep the types, and use is never later than
\* sight.
LEMMA RateInvInit == RateAssumption /\ RateInit => RateInv
BY SMT DEF RateAssumption, RateInit, RateInv, RateTypeOK, UsedIsSeen

\* What a request leaves behind in the map, whether it is let through or not.
LEMMA KeepInv ==
    ASSUME RateAssumption, RateInv, NEW a \in Addresses, NEW v \in Visitor,
           v.last <= v.seen, Keep(a, v), unit' = unit,
           passed' \in [Addresses -> Nat]
    PROVE  RateInv'
<1>1. DOMAIN visitors' = DOMAIN visitors \cup {a}
  BY DEF Keep
<1>2. \A x \in DOMAIN visitors' :
        visitors'[x] = IF x = a THEN v ELSE visitors[x]
  BY DEF Keep
<1>3. \A x \in DOMAIN visitors' : visitors'[x] \in Visitor
  BY <1>1, <1>2 DEF RateInv, RateTypeOK
<1>4. visitors' = [x \in DOMAIN visitors' |-> visitors'[x]]
  BY DEF Keep
<1>5. Visitor' = Visitor
  BY DEF Visitor
<1>6. RateTypeOK'
  BY <1>1, <1>3, <1>4, <1>5 DEF RateInv, RateTypeOK
<1>7. UsedIsSeen'
  BY <1>1, <1>2 DEF RateInv, UsedIsSeen
<1>8. QED
  BY <1>6, <1>7 DEF RateInv

\* Every step of ratelimit.go.
LEMMA RateInvStep == ASSUME RateAssumption, RateInv, [RateNext]_rates PROVE RateInv'
<1>1. CASE UnitPasses
  <2>1. unit' = unit + 1 /\ unit \in Nat /\ visitors' = visitors /\ passed' = passed
    BY <1>1 DEF UnitPasses, RateInv, RateTypeOK
  <2>2. \A v \in Visitor : v \in Visitor'
    BY <2>1, SMT DEF Visitor
  <2>3. QED
    BY <2>1, <2>2 DEF RateInv, RateTypeOK, UsedIsSeen
<1>2. CASE CleanupLoop
  <2>1. /\ DOMAIN visitors' \subseteq DOMAIN visitors
        /\ \A a \in DOMAIN visitors' : visitors'[a] = visitors[a]
        /\ visitors' = [a \in DOMAIN visitors' |-> visitors'[a]]
    BY <1>2 DEF CleanupLoop
  <2>2. Visitor' = Visitor /\ unit' = unit /\ passed' = passed
    BY <1>2 DEF CleanupLoop, Visitor
  <2>3. QED
    BY <2>1, <2>2 DEF RateInv, RateTypeOK, UsedIsSeen
<1>3. ASSUME NEW a \in Addresses, Allow(a) PROVE RateInv'
  <2> DEFINE v == GetLimiter(a)
             rest == Level(v, unit) - Cost
             w == [v EXCEPT !.tokens = rest, !.last = unit]
  <2>1. v \in Visitor /\ v.seen = unit /\ Level(v, unit) \in 0..Burst
    BY LimiterType
  <2>2. rest \in 0..Burst
    BY <1>3, <2>1, SMT DEF Allow, RateAssumption
  <2>3. w \in Visitor /\ w.last <= w.seen
    <3>1. unit \in 0..unit /\ unit <= unit
      BY DEF RateInv, RateTypeOK
    <3> HIDE DEF v, rest
    <3>2. QED
      BY <2>1, <2>2, <3>1 DEF Visitor
  <2>4. Keep(a, w) /\ unit' = unit /\ passed' \in [Addresses -> Nat]
    BY <1>3 DEF Allow, RateInv, RateTypeOK
  <2> HIDE DEF v, w, rest
  <2>5. QED
    BY <2>3, <2>4, KeepInv
<1>4. ASSUME NEW a \in Addresses, Refuse(a) PROVE RateInv'
  <2>1. GetLimiter(a) \in Visitor /\ GetLimiter(a).last <= GetLimiter(a).seen
    BY LimiterType
  <2>2. Keep(a, GetLimiter(a)) /\ unit' = unit /\ passed' \in [Addresses -> Nat]
    BY <1>4 DEF Refuse, RateInv, RateTypeOK
  <2>3. QED
    BY <2>1, <2>2, KeepInv
<1>5. CASE UNCHANGED rates
  <2>1. unit' = unit /\ visitors' = visitors /\ passed' = passed
    BY <1>5 DEF rates
  <2>2. QED
    BY <2>1 DEF RateInv, RateTypeOK, UsedIsSeen, Visitor
<1>6. QED
  BY <1>1, <1>2, <1>3, <1>4, <1>5 DEF RateNext

\* Every number of addresses, rate and burst: the map of visitors has its
\* types, and no limiter holds more than its burst (getLimiter, Allow).
THEOREM RateTypeCorrect == ASSUME RateAssumption PROVE RateSpec => []RateTypeOK
<1>1. RateInit => RateInv
  BY RateInvInit
<1>2. RateInv /\ [RateNext]_rates => RateInv'
  BY RateInvStep
<1>3. RateInv => RateTypeOK
  BY DEF RateInv
<1>4. QED
  BY <1>1, <1>2, <1>3, PTL DEF RateSpec

(***************************************************************************)
(* The refinement, step by step.  BucketsOf is the function that Buckets   *)
(* has for its variable bucket.                                            *)
(***************************************************************************)
BucketsOf == [a \in Addresses |-> Bucket(a)]

\* A bucket never holds more than Burst.
LEMMA BucketsType == ASSUME RateAssumption, RateInv PROVE BucketsOf \in [Addresses -> 0..Burst]
BY LimiterType DEF BucketsOf

\* What Keep does to the buckets.
LEMMA KeepBuckets ==
    ASSUME RateAssumption, RateInv, NEW a \in Addresses, NEW v, Keep(a, v), unit' = unit
    PROVE  BucketsOf' = [BucketsOf EXCEPT ![a] = Level(v, unit)]
<1>1. DOMAIN visitors' = DOMAIN visitors \cup {a}
  BY DEF Keep
<1>2. \A x \in DOMAIN visitors' :
        visitors'[x] = IF x = a THEN v ELSE visitors[x]
  BY DEF Keep
<1>3. \A x \in Addresses : Bucket(x)' = IF x = a THEN Level(v, unit) ELSE Bucket(x)
  BY <1>1, <1>2 DEF Bucket, Level
<1>4. QED
  BY <1>3 DEF BucketsOf

\* At first all buckets are full.
LEMMA BucketsInit == RateAssumption /\ RateInit => Buckets!Init
BY DEF RateInit, Buckets!Init

\* A step of the map is a step of the buckets or changes none.
LEMMA BucketsStep ==
    ASSUME RateAssumption, RateInv, [RateNext]_rates
    PROVE  \/ unit' = unit + 1 /\ passed' = passed
              /\ BucketsOf' = [a \in Addresses |->
                                 IF Burst <= BucketsOf[a] + Fill THEN Burst
                                 ELSE BucketsOf[a] + Fill]
           \/ \E a \in Addresses :
                /\ BucketsOf[a] >= Cost
                /\ BucketsOf' = [BucketsOf EXCEPT ![a] = @ - Cost]
                /\ passed' = [passed EXCEPT ![a] = @ + 1]
                /\ unit' = unit
           \/ BucketsOf' = BucketsOf /\ passed' = passed /\ unit' = unit
<1> USE DEF BucketsOf
<1>1. CASE UnitPasses
  <2>1. unit' = unit + 1 /\ unit \in Nat /\ visitors' = visitors /\ passed' = passed
    BY <1>1 DEF UnitPasses, RateInv, RateTypeOK
  <2>2. ASSUME NEW a \in Addresses
        PROVE  Bucket(a)' = IF Burst <= Bucket(a) + Fill THEN Burst ELSE Bucket(a) + Fill
    <3>1. CASE a \in DOMAIN visitors
      <4>1. visitors[a].tokens \in 0..Burst /\ visitors[a].last \in 0..unit
        BY <3>1 DEF RateInv, RateTypeOK, Visitor
      <4>2. Bucket(a) = Level(visitors[a], unit)
        BY <3>1 DEF Bucket
      <4>3. Bucket(a)' = Level(visitors[a], unit + 1)
        BY <2>1, <3>1 DEF Bucket, Level
      <4>4. QED
        BY <2>1, <4>1, <4>2, <4>3, LevelStep
    <3>2. CASE a \notin DOMAIN visitors
      BY <2>1, <3>2, SMT DEF Bucket, RateAssumption
    <3>3. QED
      BY <3>1, <3>2
  <2>3. QED
    BY <2>1, <2>2
<1>2. CASE CleanupLoop
  <2>1. /\ DOMAIN visitors' \subseteq DOMAIN visitors
        /\ \A a \in DOMAIN visitors' : visitors'[a] = visitors[a]
        /\ \A a \in DOMAIN visitors \ DOMAIN visitors' : unit - visitors[a].seen > IdleVisitor
        /\ unit' = unit /\ passed' = passed
    <3>1. \A a \in DOMAIN visitors : unit - visitors[a].seen \in Nat
      BY DEF RateInv, RateTypeOK, Visitor
    <3>2. QED
      BY <1>2, <3>1 DEF CleanupLoop, RateAssumption
  <2>2. ASSUME NEW a \in Addresses PROVE Bucket(a)' = Bucket(a)
    <3>1. CASE a \in DOMAIN visitors'
      BY <2>1, <3>1 DEF Bucket, Level
    <3>2. CASE a \notin DOMAIN visitors
      BY <2>1, <3>2 DEF Bucket
    <3>3. CASE a \in DOMAIN visitors \ DOMAIN visitors'
      <4>1. /\ visitors[a].tokens \in 0..Burst /\ visitors[a].last \in 0..unit
            /\ visitors[a].seen \in 0..unit /\ unit \in Nat
        BY <3>3 DEF RateInv, RateTypeOK, Visitor
      <4>2. unit - visitors[a].last > IdleVisitor
        <5>1. visitors[a].last <= visitors[a].seen /\ unit - visitors[a].seen > IdleVisitor
          BY <2>1, <3>3 DEF RateInv, UsedIsSeen
        <5>2. QED
          BY <4>1, <5>1, SMT DEF RateAssumption
      <4>3. Level(visitors[a], unit) = Burst
        BY <4>1, <4>2, LevelIdle
      <4>4. QED
        BY <3>3, <4>3 DEF Bucket
    <3>4. QED
      BY <3>1, <3>2, <3>3
  <2>3. QED
    BY <2>1, <2>2
<1>3. ASSUME NEW a \in Addresses, Allow(a)
      PROVE  /\ BucketsOf[a] >= Cost
             /\ BucketsOf' = [BucketsOf EXCEPT ![a] = @ - Cost]
             /\ passed' = [passed EXCEPT ![a] = @ + 1]
             /\ unit' = unit
  <2> DEFINE rest == Level(GetLimiter(a), unit) - Cost
             w == [GetLimiter(a) EXCEPT !.tokens = rest, !.last = unit]
  <2>1. /\ GetLimiter(a) \in Visitor /\ Bucket(a) \in 0..Burst
        /\ Level(GetLimiter(a), unit) = Bucket(a)
    BY LimiterType
  <2>2. rest \in 0..Burst /\ Bucket(a) >= Cost
    BY <1>3, <2>1, SMT DEF Allow, RateAssumption
  <2>3. Keep(a, w) /\ unit' = unit /\ passed' = [passed EXCEPT ![a] = @ + 1]
    BY <1>3 DEF Allow
  <2>4. rest = Bucket(a) - Cost
    BY <2>1
  <2>5. w.tokens = rest /\ w.last = unit
    BY <2>1 DEF Visitor
  <2> HIDE DEF rest, w
  <2>6. Level(w, unit) = rest
    BY <2>2, <2>5, LevelNow DEF RateInv, RateTypeOK
  <2>7. BucketsOf' = [BucketsOf EXCEPT ![a] = rest]
    BY <2>3, <2>6, KeepBuckets
  <2>8. QED
    BY <2>2, <2>3, <2>4, <2>7
<1>4. ASSUME NEW a \in Addresses, Refuse(a)
      PROVE  BucketsOf' = BucketsOf /\ passed' = passed /\ unit' = unit
  <2>1. Level(GetLimiter(a), unit) = Bucket(a)
    BY LimiterType
  <2>2. Keep(a, GetLimiter(a)) /\ unit' = unit /\ passed' = passed
    BY <1>4 DEF Refuse
  <2>3. BucketsOf' = [BucketsOf EXCEPT ![a] = Bucket(a)]
    BY <2>1, <2>2, KeepBuckets
  <2>4. QED
    BY <2>2, <2>3
<1>5. CASE UNCHANGED rates
  BY <1>5 DEF rates, Bucket, Level
<1>6. QED
  BY <1>1, <1>2, <1>3, <1>4, <1>5 DEF RateNext

\* For every number of addresses, rate and burst such that a visitor who is
\* forgotten would have a full bucket: the map of limiters with its cleanup
\* implements buckets that are never forgotten.
THEOREM ForgettingImplementsBuckets ==
    ASSUME RateAssumption PROVE RateSpec => ForgettingIsFree
<1>1. RateInit => RateInv
  BY RateInvInit
<1>2. RateInv /\ [RateNext]_rates => RateInv'
  BY RateInvStep
<1>3. RateInit => Buckets!Init
  BY BucketsInit
<1>4. ASSUME RateInv, [RateNext]_rates
      PROVE  [Buckets!Next]_<<unit, BucketsOf, passed>>
  BY <1>4, BucketsStep
     DEF Buckets!Next, Buckets!Tick, Buckets!Pass, Buckets!Least, BucketsOf, Bucket
<1>5. RateInv /\ [RateNext]_rates => [Buckets!Next]_<<unit, BucketsOf, passed>>
  BY <1>4
<1>6. QED
  BY <1>1, <1>2, <1>3, <1>5, PTL
     DEF RateSpec, ForgettingIsFree, Buckets!Spec, BucketsOf, Bucket

---------------------------------------------------------------------------
\* What an address has got through cannot exceed a full bucket and what the
\* time since the start has put into it: the limit the middleware is for.
RateBound == \A a \in Addresses : Cost * passed[a] <= Burst + Fill * unit

\* What is not in the bucket has been paid or was spilt.
Paid == \A a \in Addresses : Cost * passed[a] + BucketsOf[a] <= Burst + Fill * unit

\* At first nothing has been paid.
LEMMA PaidInit == RateAssumption /\ RateInit => Paid
<1> SUFFICES ASSUME RateAssumption, RateInit, NEW a \in Addresses
             PROVE  Cost * passed[a] + BucketsOf[a] <= Burst + Fill * unit
  BY DEF Paid
<1>1. BucketsOf[a] = Burst /\ passed[a] = 0 /\ unit = 0
  BY DEF RateInit, BucketsOf, Bucket
<1>2. Cost * 0 = 0 /\ Fill * 0 = 0
  BY SMT DEF RateAssumption
<1>3. QED
  BY <1>1, <1>2, SMT DEF RateAssumption

\* Ticks fill both sides; a request moves Cost from one to the other.
LEMMA PaidStep == ASSUME RateAssumption, RateInv, Paid, [RateNext]_rates PROVE Paid'
<1> SUFFICES ASSUME NEW a \in Addresses
             PROVE  Cost * passed'[a] + BucketsOf'[a] <= Burst + Fill * unit'
  BY DEF Paid
<1> DEFINE paid == Cost * passed[a]   filled == Fill * unit
<1>1. /\ BucketsOf[a] \in 0..Burst /\ passed[a] \in Nat /\ unit \in Nat
      /\ paid + BucketsOf[a] <= Burst + filled
  BY BucketsType DEF Paid, RateInv, RateTypeOK
<1>2. /\ paid \in Nat /\ filled \in Nat
      /\ Cost * (passed[a] + 1) = paid + Cost /\ Fill * (unit + 1) = filled + Fill
  BY <1>1, SMT DEF RateAssumption
<1>3. /\ Cost \in Nat /\ Fill \in Nat /\ Burst \in Nat
  BY DEF RateAssumption
<1>4. CASE /\ unit' = unit + 1 /\ passed' = passed
           /\ BucketsOf' = [x \in Addresses |->
                              IF Burst <= BucketsOf[x] + Fill THEN Burst
                              ELSE BucketsOf[x] + Fill]
  <2>1. BucketsOf'[a] <= BucketsOf[a] + Fill /\ BucketsOf'[a] \in Nat
    BY <1>1, <1>3, <1>4, SMT
  <2>2. Cost * passed'[a] = paid /\ Fill * unit' = filled + Fill
    BY <1>2, <1>4
  <2> HIDE DEF paid, filled
  <2>3. QED
    BY <1>1, <1>2, <1>3, <2>1, <2>2, SMT
<1>5. ASSUME NEW b \in Addresses, BucketsOf[b] >= Cost,
             BucketsOf' = [BucketsOf EXCEPT ![b] = @ - Cost],
             passed' = [passed EXCEPT ![b] = @ + 1], unit' = unit
      PROVE  Cost * passed'[a] + BucketsOf'[a] <= Burst + Fill * unit'
  <2>1. BucketsOf \in [Addresses -> 0..Burst] /\ passed \in [Addresses -> Nat]
    BY BucketsType DEF RateInv, RateTypeOK
  <2>2. CASE b = a
    <3>1. BucketsOf'[a] = BucketsOf[a] - Cost /\ passed'[a] = passed[a] + 1
      BY <1>5, <2>1, <2>2
    <3>2. Cost * passed'[a] = paid + Cost /\ Fill * unit' = filled
      BY <1>2, <1>5, <3>1
    <3> HIDE DEF paid, filled
    <3>3. QED
      BY <1>1, <1>2, <1>3, <3>1, <3>2, SMT
  <2>3. CASE b # a
    BY <1>1, <1>5, <2>1, <2>3
  <2>4. QED
    BY <2>2, <2>3
<1>6. CASE BucketsOf' = BucketsOf /\ passed' = passed /\ unit' = unit
  BY <1>1, <1>6
<1>7. QED
  BY <1>4, <1>5, <1>6, BucketsStep

\* At every time, whatever is forgotten and however the requests come, an
\* address has got through no more than its burst and its rate allow.
THEOREM RateIsBounded == ASSUME RateAssumption PROVE RateSpec => []RateBound
<1>1. RateInit => RateInv /\ Paid
  BY RateInvInit, PaidInit
<1>2. RateInv /\ Paid /\ [RateNext]_rates => RateInv' /\ Paid'
  BY RateInvStep, PaidStep
<1>3. RateInv /\ Paid => RateBound
  <2> SUFFICES ASSUME RateInv, Paid, NEW a \in Addresses
               PROVE  Cost * passed[a] <= Burst + Fill * unit
    BY DEF RateBound
  <2>1. /\ BucketsOf[a] \in 0..Burst /\ passed[a] \in Nat /\ unit \in Nat
        /\ Cost * passed[a] + BucketsOf[a] <= Burst + Fill * unit
    BY BucketsType DEF Paid, RateInv, RateTypeOK
  <2>2. Cost * passed[a] \in Nat /\ Fill * unit \in Nat /\ Burst \in Nat
    BY <2>1, SMT DEF RateAssumption
  <2>3. QED
    BY <2>1, <2>2, SMT
<1>4. QED
  BY <1>1, <1>2, <1>3, PTL DEF RateSpec

---------------------------------------------------------------------------
(* ConnLimit: any number of requests and any limit.  The two races named   *)
(* in OverLimitNeedsCause are the only ways past it.                       *)

(***************************************************************************)
(* The inductive invariant: a counter counts the open connections that     *)
(* hold it; as long as the cleanup takes no counter from a request, all of *)
(* them hold the one in the map; and as long as no two requests meet       *)
(* between reading and adding, the one that will add has room.             *)
(***************************************************************************)
Holding(e) == {q \in Upgrades : upgrade[q] = "open" /\ hold[q] = e}

Held ==
    /\ \A q \in Upgrades : upgrade[q] # "new" => hold[q] \in Upgrades /\ upgrade[hold[q]] # "new"
    /\ entry # NoEntry => upgrade[entry] # "new"

Counted == \A e \in Upgrades : count[e] = Cardinality(Holding(e))

OneEntry ==
    ~detached => \A q \in Upgrades :
        upgrade[q] \in {"fetched", "seen", "checked", "open"} => hold[q] = entry

OneChecks ==
    ~raced => \A p, q \in Upgrades : upgrade[p] = "checked" /\ upgrade[q] = "checked" => p = q

RoomLeft ==
    ~raced /\ ~detached =>
      /\ \A e \in Upgrades : count[e] <= MaxConn
      /\ \A q \in Upgrades : upgrade[q] = "checked" => count[hold[q]] < MaxConn

ConnInv == ConnTypeOK /\ Held /\ Counted /\ OneEntry /\ OneChecks /\ RoomLeft

\* The first state.
LEMMA ConnInvInit == LimitAssumption /\ ConnInit => ConnInv
<1> SUFFICES ASSUME LimitAssumption, ConnInit PROVE ConnInv
  OBVIOUS
<1>1. ConnTypeOK
  <2>1. 0 \in 0..Minutes /\ 0 \in 0..minute /\ 0 \in Nat
    BY DEF LimitAssumption, ConnInit
  <2>2. "new" \in UpgradeSteps
    BY DEF UpgradeSteps
  <2>3. minute \in 0..Minutes /\ seen \in [Upgrades -> 0..minute]
    BY <2>1 DEF ConnInit
  <2>4. count \in [Upgrades -> Nat] /\ upgrade \in [Upgrades -> UpgradeSteps]
    BY <2>1, <2>2 DEF ConnInit
  <2>5. QED
    BY <2>3, <2>4 DEF ConnInit, ConnTypeOK
<1>2. Counted
  <2>1. \A e \in Upgrades : Holding(e) = {}
    BY DEF ConnInit, Holding
  <2>2. QED
    BY <2>1, FS_EmptySet DEF ConnInit, Counted
<1>3. Held /\ OneEntry /\ OneChecks
  BY DEF ConnInit, Held, OneEntry, OneChecks
<1>4. RoomLeft
  BY DEF ConnInit, RoomLeft, LimitAssumption
<1>5. QED
  BY <1>1, <1>2, <1>3, <1>4 DEF ConnInv

\* Nobody who comes or goes between two steps other than Add and Release
\* changes who is counted.
LEMMA SameCounted ==
    ASSUME Counted, count' = count,
           \A q \in Upgrades : (upgrade'[q] = "open" <=> upgrade[q] = "open")
                               /\ (upgrade[q] = "open" => hold'[q] = hold[q])
    PROVE  Counted'
<1>1. \A e \in Upgrades : Holding(e)' = Holding(e)
  BY DEF Holding
<1>2. QED
  BY <1>1 DEF Counted

\* The request that fetches the counter, making it where there is none.
LEMMA EntryStep ==
    ASSUME LimitAssumption, ConnInv, NEW q \in Upgrades, Entry(q)
    PROVE  ConnInv'
<1> DEFINE e == IF entry = NoEntry THEN q ELSE entry
<1>0. /\ minute \in 0..Minutes /\ Minutes \in Nat /\ entry \in Upgrades \cup {NoEntry}
      /\ upgrade \in [Upgrades -> UpgradeSteps] /\ hold \in [Upgrades -> Upgrades \cup {NoEntry}]
      /\ seen \in [Upgrades -> 0..minute] /\ NoEntry \notin Upgrades
  BY DEF ConnInv, ConnTypeOK, LimitAssumption
<1>1. /\ upgrade[q] = "new" /\ upgrade' = [upgrade EXCEPT ![q] = "fetched"]
      /\ entry' = e /\ hold' = [hold EXCEPT ![q] = e]
      /\ seen' = seen \/ seen' = [seen EXCEPT ![q] = minute]
      /\ UNCHANGED <<minute, count, raced, detached>>
  BY DEF Entry, UpgradeGoes
<1>2. e \in Upgrades /\ (entry = NoEntry \/ e = entry)
  BY <1>0
<1>3. upgrade'[e] # "new"
  BY <1>0, <1>1, <1>2 DEF ConnInv, Held
<1> HIDE DEF e
<1>4. /\ \A p \in Upgrades \ {q} : upgrade'[p] = upgrade[p] /\ hold'[p] = hold[p]
      /\ upgrade'[q] = "fetched" /\ hold'[q] = e
  BY <1>0, <1>1
<1>5. ConnTypeOK'
  <2>1. seen' \in [Upgrades -> 0..minute']
    BY <1>0, <1>1
  <2>2. "fetched" \in UpgradeSteps
    BY DEF UpgradeSteps
  <2>3. QED
    BY <1>0, <1>1, <1>2, <2>1, <2>2 DEF ConnInv, ConnTypeOK
<1>6. Held'
  BY <1>0, <1>1, <1>2, <1>3, <1>4 DEF ConnInv, Held
<1>7. Counted'
  BY <1>1, <1>4, SameCounted DEF ConnInv
<1>8. OneEntry'
  <2>1. ASSUME NEW p \in Upgrades \ {q}, ~detached,
               upgrade[p] \in {"fetched", "seen", "checked", "open"}
        PROVE  hold[p] = e
    <3>1. hold[p] = entry /\ hold[p] \in Upgrades
      BY <2>1 DEF ConnInv, OneEntry, Held
    <3>2. QED
      BY <1>0, <1>2, <3>1
  <2>2. QED
    BY <1>1, <1>4, <2>1 DEF OneEntry
<1>9. OneChecks'
  BY <1>1, <1>4 DEF ConnInv, OneChecks
<1>10. RoomLeft'
  BY <1>1, <1>4 DEF ConnInv, RoomLeft
<1>11. QED
  BY <1>5, <1>6, <1>7, <1>8, <1>9, <1>10 DEF ConnInv

\* The two writes of lastSeen.
LEMMA TouchStep ==
    ASSUME LimitAssumption, ConnInv, NEW q \in Upgrades, Touch(q) \/ TouchAgain(q)
    PROVE  ConnInv'
<1>0. /\ minute \in 0..Minutes /\ Minutes \in Nat
      /\ upgrade \in [Upgrades -> UpgradeSteps] /\ seen \in [Upgrades -> 0..minute]
  BY DEF ConnInv, ConnTypeOK, LimitAssumption
<1>1. /\ \/ upgrade[q] = "fetched" /\ upgrade' = [upgrade EXCEPT ![q] = "seen"]
         \/ upgrade[q] = "closing" /\ upgrade' = [upgrade EXCEPT ![q] = "done"]
      /\ seen' = [seen EXCEPT ![hold[q]] = minute]
      /\ UNCHANGED <<minute, entry, count, hold, raced, detached>>
  BY DEF Touch, TouchAgain, UpgradeGoes
<1>2. /\ \A p \in Upgrades \ {q} : upgrade'[p] = upgrade[p]
      /\ \/ upgrade[q] = "fetched" /\ upgrade'[q] = "seen"
         \/ upgrade[q] = "closing" /\ upgrade'[q] = "done"
  BY <1>0, <1>1
<1>3. ConnTypeOK'
  <2>1. seen' \in [Upgrades -> 0..minute']
    <3>1. minute \in 0..minute
      BY <1>0
    <3>2. QED
      BY <1>0, <1>1, <3>1
  <2>2. upgrade' \in [Upgrades -> UpgradeSteps]
    BY <1>0, <1>1 DEF UpgradeSteps
  <2>3. QED
    BY <1>1, <2>1, <2>2 DEF ConnInv, ConnTypeOK
<1>4. Held'
  BY <1>1, <1>2 DEF ConnInv, Held, ConnTypeOK
<1>5. Counted'
  BY <1>1, <1>2, SameCounted DEF ConnInv
<1>6. OneEntry' /\ OneChecks' /\ RoomLeft'
  BY <1>1, <1>2 DEF ConnInv, OneEntry, OneChecks, RoomLeft
<1>7. QED
  BY <1>3, <1>4, <1>5, <1>6 DEF ConnInv

\* Reading the counter.
LEMMA CheckStep ==
    ASSUME LimitAssumption, ConnInv, NEW q \in Upgrades, Check(q)
    PROVE  ConnInv'
<1>0. /\ upgrade \in [Upgrades -> UpgradeSteps] /\ count \in [Upgrades -> Nat] /\ MaxConn \in Nat
      /\ raced \in BOOLEAN
  BY DEF ConnInv, ConnTypeOK, LimitAssumption
<1>1. /\ upgrade[q] = "seen"
      /\ \/ count[hold[q]] >= MaxConn /\ upgrade' = [upgrade EXCEPT ![q] = "done"]
         \/ ~(count[hold[q]] >= MaxConn) /\ upgrade' = [upgrade EXCEPT ![q] = "checked"]
      /\ raced' = (raced \/ \E p \in Upgrades : upgrade[p] = "checked")
      /\ UNCHANGED <<minute, entry, count, seen, hold, detached>>
  BY DEF Check, UpgradeGoes
<1>2. /\ \A p \in Upgrades \ {q} : upgrade'[p] = upgrade[p]
      /\ upgrade'[q] \in {"done", "checked"}
      /\ upgrade'[q] = "checked" => ~(count[hold[q]] >= MaxConn)
  BY <1>0, <1>1
<1>3. /\ raced' \in BOOLEAN
      /\ ~raced' => ~raced /\ \A p \in Upgrades : upgrade[p] # "checked"
  BY <1>0, <1>1
<1>4. ConnTypeOK'
  <2>1. upgrade' \in [Upgrades -> UpgradeSteps]
    BY <1>0, <1>1 DEF UpgradeSteps
  <2>2. QED
    BY <1>1, <1>3, <2>1 DEF ConnInv, ConnTypeOK
<1>5. Held'
  BY <1>1, <1>2 DEF ConnInv, Held, ConnTypeOK
<1>6. Counted'
  BY <1>1, <1>2, SameCounted DEF ConnInv
<1>7. OneEntry'
  BY <1>1, <1>2 DEF ConnInv, OneEntry
<1>8. OneChecks'
  BY <1>2, <1>3 DEF OneChecks
<1>9. RoomLeft'
  <2>1. hold[q] \in Upgrades
    BY <1>1 DEF ConnInv, Held
  <2>2. count[hold[q]] \in Nat
    BY <1>0, <2>1
  <2>3. QED
    BY <1>0, <1>1, <1>2, <1>3, <2>2 DEF ConnInv, RoomLeft
<1>10. QED
  BY <1>4, <1>5, <1>6, <1>7, <1>8, <1>9 DEF ConnInv

\* The addition, and the subtraction when the connection ends.
LEMMA AddStep ==
    ASSUME LimitAssumption, ConnInv, NEW q \in Upgrades, Add(q)
    PROVE  ConnInv'
<1> DEFINE h == hold[q]
<1>0. /\ upgrade \in [Upgrades -> UpgradeSteps] /\ count \in [Upgrades -> Nat] /\ MaxConn \in Nat
      /\ IsFiniteSet(Upgrades)
  BY DEF ConnInv, ConnTypeOK, LimitAssumption
<1>1. /\ upgrade[q] = "checked" /\ upgrade' = [upgrade EXCEPT ![q] = "open"]
      /\ count' = [count EXCEPT ![h] = @ + 1]
      /\ UNCHANGED <<minute, entry, seen, hold, raced, detached>>
  BY DEF Add, UpgradeGoes
<1>2. h \in Upgrades /\ h' = h
  BY <1>1 DEF ConnInv, Held
<1> HIDE DEF h
<1>3. /\ \A p \in Upgrades \ {q} : upgrade'[p] = upgrade[p]
      /\ upgrade'[q] = "open"
      /\ count'[h] = count[h] + 1 /\ \A e \in Upgrades \ {h} : count'[e] = count[e]
  BY <1>0, <1>1, <1>2
<1>4. Counted'
  <2>1. /\ Holding(h)' = Holding(h) \cup {q} /\ q \notin Holding(h)
        /\ \A e \in Upgrades \ {h} : Holding(e)' = Holding(e)
    BY <1>1, <1>3 DEF Holding, h
  <2>2. IsFiniteSet(Holding(h))
    BY <1>0, FS_Subset DEF Holding
  <2>3. Cardinality(Holding(h)') = Cardinality(Holding(h)) + 1
    BY <2>1, <2>2, FS_AddElement
  <2>4. ASSUME NEW e \in Upgrades
        PROVE  (count[e] = Cardinality(Holding(e)))'
    <3>1. count[e] = Cardinality(Holding(e))
      BY DEF ConnInv, Counted
    <3>2. CASE e = h
      BY <1>2, <1>3, <2>3, <3>1, <3>2
    <3>3. CASE e # h
      BY <1>3, <2>1, <3>1, <3>3
    <3>4. QED
      BY <3>2, <3>3
  <2>5. QED
    BY <2>4 DEF Counted
<1>5. ConnTypeOK'
  <2>1. upgrade' \in [Upgrades -> UpgradeSteps]
    BY <1>0, <1>1 DEF UpgradeSteps
  <2>2. count' \in [Upgrades -> Nat]
    BY <1>0, <1>1, <1>2
  <2>3. QED
    BY <1>1, <2>1, <2>2 DEF ConnInv, ConnTypeOK
<1>6. Held' /\ OneEntry' /\ OneChecks'
  BY <1>1, <1>3 DEF ConnInv, Held, OneEntry, OneChecks, ConnTypeOK
<1>7. RoomLeft'
  <2>1. SUFFICES ASSUME ~raced, ~detached
                 PROVE  /\ \A e \in Upgrades : count'[e] <= MaxConn
                        /\ \A p \in Upgrades : upgrade'[p] # "checked"
    BY <1>1 DEF RoomLeft
  <2>2. \A p \in Upgrades : upgrade'[p] # "checked"
    BY <1>1, <1>3, <2>1 DEF ConnInv, OneChecks
  <2>3. count[h] < MaxConn /\ \A e \in Upgrades : count[e] <= MaxConn
    BY <1>1, <2>1 DEF ConnInv, RoomLeft, h
  <2>4. count[h] \in Nat
    BY <1>0, <1>2
  <2>5. count'[h] <= MaxConn
    BY <1>0, <1>3, <2>3, <2>4
  <2>6. QED
    BY <1>3, <2>2, <2>3, <2>5
<1>8. QED
  BY <1>4, <1>5, <1>6, <1>7 DEF ConnInv

\* The counter a connection gives back was counting it.
LEMMA ReleaseStep ==
    ASSUME LimitAssumption, ConnInv, NEW q \in Upgrades, Release(q)
    PROVE  ConnInv'
<1> DEFINE h == hold[q]
<1>0. /\ upgrade \in [Upgrades -> UpgradeSteps] /\ count \in [Upgrades -> Nat] /\ MaxConn \in Nat
      /\ IsFiniteSet(Upgrades)
  BY DEF ConnInv, ConnTypeOK, LimitAssumption
<1>1. /\ upgrade[q] = "open" /\ upgrade' = [upgrade EXCEPT ![q] = "closing"]
      /\ count' = [count EXCEPT ![h] = @ - 1]
      /\ UNCHANGED <<minute, entry, seen, hold, raced, detached>>
  BY DEF Release, UpgradeGoes
<1>2. h \in Upgrades /\ h' = h
  BY <1>1 DEF ConnInv, Held
<1> HIDE DEF h
<1>3. /\ \A p \in Upgrades \ {q} : upgrade'[p] = upgrade[p]
      /\ upgrade'[q] = "closing"
      /\ count'[h] = count[h] - 1 /\ \A e \in Upgrades \ {h} : count'[e] = count[e]
  BY <1>0, <1>1, <1>2
<1>4. /\ Holding(h)' = Holding(h) \ {q} /\ q \in Holding(h)
      /\ \A e \in Upgrades \ {h} : Holding(e)' = Holding(e)
  BY <1>1, <1>3 DEF Holding, h
<1>5. IsFiniteSet(Holding(h))
  BY <1>0, FS_Subset DEF Holding
<1>6. Counted'
  <2>1. Cardinality(Holding(h)') = Cardinality(Holding(h)) - 1
    BY <1>4, <1>5, FS_RemoveElement
  <2>2. ASSUME NEW e \in Upgrades
        PROVE  (count[e] = Cardinality(Holding(e)))'
    <3>1. count[e] = Cardinality(Holding(e))
      BY DEF ConnInv, Counted
    <3>2. CASE e = h
      BY <1>2, <1>3, <2>1, <3>1, <3>2
    <3>3. CASE e # h
      BY <1>3, <1>4, <3>1, <3>3
    <3>4. QED
      BY <3>2, <3>3
  <2>3. QED
    BY <2>2 DEF Counted
<1>7. count[h] \in Nat /\ count[h] # 0
  <2>1. Cardinality(Holding(h)) # 0
    BY <1>4, <1>5, FS_EmptySet
  <2>2. QED
    BY <1>0, <1>2, <2>1 DEF ConnInv, Counted
<1>8. ConnTypeOK'
  <2>1. upgrade' \in [Upgrades -> UpgradeSteps]
    BY <1>0, <1>1 DEF UpgradeSteps
  <2>2. count[h] - 1 \in Nat
    BY <1>7
  <2>3. count' \in [Upgrades -> Nat]
    BY <1>0, <1>1, <1>2, <2>2
  <2>4. QED
    BY <1>1, <2>1, <2>3 DEF ConnInv, ConnTypeOK
<1>9. Held' /\ OneEntry' /\ OneChecks'
  BY <1>1, <1>3 DEF ConnInv, Held, OneEntry, OneChecks, ConnTypeOK
<1>10. RoomLeft'
  <2>1. \A e \in Upgrades : count[e] \in Nat /\ count'[e] <= count[e]
    BY <1>0, <1>3, <1>7
  <2>2. \A p \in Upgrades : upgrade'[p] = "checked" => upgrade[p] = "checked" /\ hold[p] \in Upgrades
    BY <1>3 DEF ConnInv, Held
  <2>3. \A e \in Upgrades : count'[e] \in Int
    BY <1>0, <1>3, <1>7
  <2>4. QED
    BY <1>0, <1>1, <2>1, <2>2, <2>3 DEF ConnInv, RoomLeft
<1>11. QED
  BY <1>6, <1>8, <1>9, <1>10 DEF ConnInv

\* The cleanup leaves no open connection behind, unless it is to blame.
LEMMA CleanupStep ==
    ASSUME LimitAssumption, ConnInv, Cleanup
    PROVE  ConnInv'
<1>0. /\ entry \in Upgrades /\ count[entry] = 0 /\ entry' = NoEntry
      /\ detached' = (detached \/ \E q \in Upgrades :
                        hold[q] = entry /\ upgrade[q] \in {"fetched", "seen", "checked"})
      /\ UNCHANGED <<minute, count, seen, upgrade, hold, raced>>
      /\ IsFiniteSet(Upgrades) /\ detached \in BOOLEAN
  BY DEF Cleanup, ConnInv, ConnTypeOK, LimitAssumption
<1>1. Holding(entry) = {}
  <2>1. Cardinality(Holding(entry)) = 0
    BY <1>0 DEF ConnInv, Counted
  <2>2. IsFiniteSet(Holding(entry))
    BY <1>0, FS_Subset DEF Holding
  <2>3. QED
    BY <2>1, <2>2, FS_EmptySet
<1>2. /\ detached' \in BOOLEAN
      /\ ~detached' => ~detached /\ \A q \in Upgrades :
            ~(hold[q] = entry /\ upgrade[q] \in {"fetched", "seen", "checked"})
  BY <1>0
<1>3. ~detached' => \A q \in Upgrades : upgrade[q] \notin {"fetched", "seen", "checked", "open"}
  BY <1>1, <1>2 DEF ConnInv, OneEntry, Holding
<1>4. ConnTypeOK'
  BY <1>0, <1>2 DEF ConnInv, ConnTypeOK
<1>5. Held' /\ OneEntry' /\ OneChecks'
  BY <1>0, <1>3 DEF ConnInv, Held, OneEntry, OneChecks
<1>6. Counted'
  BY <1>0, SameCounted DEF ConnInv
<1>7. RoomLeft'
  BY <1>0, <1>2 DEF ConnInv, RoomLeft
<1>8. QED
  BY <1>4, <1>5, <1>6, <1>7 DEF ConnInv

\* Every step.
LEMMA ConnInvStep == LimitAssumption /\ ConnInv /\ [ConnNext]_upgrades => ConnInv'
<1> SUFFICES ASSUME LimitAssumption, ConnInv, [ConnNext]_upgrades PROVE ConnInv'
  OBVIOUS
<1>1. CASE UNCHANGED upgrades
  BY <1>1 DEF ConnInv, ConnTypeOK, Held, Counted, Holding, OneEntry, OneChecks, RoomLeft, upgrades
<1>2. CASE MinutePasses
  <2>1. ConnTypeOK'
    <3>1. /\ minute \in 0..Minutes /\ Minutes \in Nat /\ minute < Minutes /\ minute' = minute + 1
          /\ seen' = seen /\ seen \in [Upgrades -> 0..minute]
      BY <1>2 DEF MinutePasses, ConnInv, ConnTypeOK, LimitAssumption
    <3>2. minute' \in 0..Minutes /\ 0..minute \subseteq 0..minute'
      BY <3>1
    <3>3. seen' \in [Upgrades -> 0..minute']
      BY <3>1, <3>2
    <3>4. QED
      BY <1>2, <3>2, <3>3 DEF MinutePasses, ConnInv, ConnTypeOK
  <2>2. QED
    BY <1>2, <2>1 DEF MinutePasses, ConnInv, Held, Counted, Holding, OneEntry, OneChecks, RoomLeft
<1>3. QED
  BY <1>1, <1>2, EntryStep, TouchStep, CheckStep, AddStep, ReleaseStep, CleanupStep DEF ConnNext

\* Every variable keeps its type; in particular no counter of ws_conn_limit.go
\* is ever negative.
THEOREM ConnTypeCorrect == ASSUME LimitAssumption PROVE ConnSpec => []ConnTypeOK
<1>1. ConnInv => ConnTypeOK
  BY DEF ConnInv
<1>2. QED
  BY <1>1, ConnInvInit, ConnInvStep, PTL DEF ConnSpec

\* An address exceeds its limit only by one of the two races.
THEOREM OverLimitHasCause == ASSUME LimitAssumption PROVE ConnSpec => []OverLimitNeedsCause
<1>1. LimitAssumption /\ ConnInv => OverLimitNeedsCause
  <2> SUFFICES ASSUME LimitAssumption, ConnInv, ~raced, ~detached
               PROVE  ~(Cardinality(Open) > MaxConn)
    BY DEF OverLimitNeedsCause
  <2>1. CASE entry = NoEntry
    <3>1. \A q \in Upgrades : upgrade[q] # "open"
      BY <2>1 DEF ConnInv, OneEntry, Held, LimitAssumption
    <3>2. Open = {}
      BY <3>1 DEF Open
    <3>3. QED
      BY <3>2, FS_EmptySet DEF LimitAssumption
  <2>2. CASE entry # NoEntry
    <3>1. entry \in Upgrades
      BY <2>2 DEF ConnInv, ConnTypeOK
    <3>2. Open = Holding(entry)
      BY DEF ConnInv, OneEntry, Open, Holding
    <3>3. Cardinality(Open) = count[entry] /\ count[entry] <= MaxConn /\ count[entry] \in Nat
      BY <3>1, <3>2 DEF ConnInv, Counted, RoomLeft, ConnTypeOK
    <3>4. QED
      BY <3>3 DEF LimitAssumption
  <2>3. QED
    BY <2>1, <2>2
<1>2. QED
  BY <1>1, ConnInvInit, ConnInvStep, PTL DEF ConnSpec
---------------------------------------------------------------------------
(* Presence: any number of servers and connections, and any time to live of *)
(* two units or more.                                                       *)

(***************************************************************************)
(* The inductive invariant.  What is left of a pipeline; the key and the   *)
(* time since there was a connection together are no longer than the time  *)
(* to live, since only a connection, or what it left under way, gives the  *)
(* key more; and, while there is no excuse, each connection is listed with *)
(* a key that its ping has renewed, or what lists it is under way.         *)
(***************************************************************************)
ToSadd == <<"sadd", "set">>
ToSet  == <<"set">>
ToSrem == <<"srem", "del">>
ToDel  == <<"del">>
Listing == {ToSadd, ToSet}
Unlisting == {ToSrem, ToDel}

KeyRunsOut ==
    /\ ttl + quiet <= TTL
    /\ \A c \in Clients : Alive(c) => quiet = 0
    /\ \A s \in Servers : todo[s] \in Listing => quiet = 0

Fresh(c) ==
    \/ member /\ ttl > 0 /\ (c \in pinged => ttl = TTL)
    \/ todo[HomeOf[c]] = ToSadd
    \/ todo[HomeOf[c]] = ToSet /\ member

Excuses ==
    /\ \A c \in Connected : todo[HomeOf[c]] \in Unlisting => excused
    /\ excused \/ \A c \in Connected : Fresh(c)

PresenceTypes ==
    PresenceTypeOK /\ todo \in [Servers -> {<<>>} \cup Listing \cup Unlisting]

PresenceInv == PresenceTypes /\ KeyRunsOut /\ Excuses

\* What a pipeline comes to, command by command.
LEMMA Pipelines ==
    /\ Head(ToSadd) = "sadd" /\ Tail(ToSadd) = ToSet
    /\ Head(ToSet) = "set" /\ Tail(ToSet) = <<>>
    /\ Head(ToSrem) = "srem" /\ Tail(ToSrem) = ToDel
    /\ Head(ToDel) = "del" /\ Tail(ToDel) = <<>>
BY DEF ToSadd, ToSet, ToSrem, ToDel

LEMMA PipelinesDiffer ==
    /\ ToSadd # <<>> /\ ToSet # <<>> /\ ToSrem # <<>> /\ ToDel # <<>>
    /\ ToSadd # ToSet /\ ToSadd # ToSrem /\ ToSadd # ToDel
    /\ ToSet # ToSrem /\ ToSet # ToDel /\ ToSrem # ToDel
<1>1. ToSadd # <<>> /\ ToSet # <<>> /\ ToSrem # <<>> /\ ToDel # <<>>
  BY DEF ToSadd, ToSet, ToSrem, ToDel
<1>2. QED
  BY <1>1, Pipelines

LEMMA PipelineTypes ==
    {<<>>} \cup Listing \cup Unlisting
      \subseteq {<<>>} \cup {<<x>> : x \in Commands} \cup (Commands \X Commands)
BY DEF Listing, Unlisting, ToSadd, ToSet, ToSrem, ToDel, Commands

\* A command that is carried out is the first of what is left.
LEMMA ExecuteFacts ==
    ASSUME PresenceTypes, NEW s \in Servers
    PROVE  /\ Execute(s, "sadd") => todo[s] = ToSadd /\ todo' = [todo EXCEPT ![s] = ToSet]
           /\ Execute(s, "set") => todo[s] = ToSet /\ todo' = [todo EXCEPT ![s] = <<>>]
           /\ Execute(s, "srem") => todo[s] = ToSrem /\ todo' = [todo EXCEPT ![s] = ToDel]
           /\ Execute(s, "del") => todo[s] = ToDel /\ todo' = [todo EXCEPT ![s] = <<>>]
           /\ \A x : Execute(s, x) => UNCHANGED <<conn, pinged, reader, quiet>>
<1>1. todo[s] \in {<<>>, ToSadd, ToSet, ToSrem, ToDel}
  BY DEF PresenceTypes, Listing, Unlisting
<1>2. ASSUME NEW x, Execute(s, x)
      PROVE  /\ todo[s] # <<>> /\ Head(todo[s]) = x
             /\ todo' = [todo EXCEPT ![s] = Tail(todo[s])]
             /\ UNCHANGED <<conn, pinged, reader, quiet>>
  BY <1>2 DEF Execute
<1>3. QED
  BY <1>1, <1>2, Pipelines

\* A removal is under way where what is left takes the user out.
LEMMA RemovingFacts ==
    ASSUME PresenceTypes
    PROVE  Removing <=> \E s \in Servers : todo[s] \in Unlisting
<1>1. ASSUME NEW s \in Servers
      PROVE  todo[s] # <<>> /\ Head(todo[s]) \in {"srem", "del"} <=> todo[s] \in Unlisting
  <2>1. todo[s] \in {<<>>, ToSadd, ToSet, ToSrem, ToDel}
    BY DEF PresenceTypes, Listing, Unlisting
  <2>2. QED
    BY <2>1, Pipelines, PipelinesDiffer DEF Unlisting
<1>2. QED
  BY <1>1 DEF Removing

LEMMA PresenceInvInit == PresenceAssumption /\ PresenceInit => PresenceInv
<1> SUFFICES ASSUME PresenceAssumption, PresenceInit PROVE PresenceInv
  OBVIOUS
<1>1. PresenceTypes
  <2>1. /\ todo \in [Servers -> {<<>>} \cup Listing \cup Unlisting]
        /\ todo \in [Servers -> {<<>>} \cup {<<x>> : x \in Commands} \cup (Commands \X Commands)]
    BY DEF PresenceInit
  <2>2. ttl \in 0..TTL /\ quiet \in 0..TTL
    BY DEF PresenceInit, PresenceAssumption
  <2>3. /\ member \in BOOLEAN /\ excused \in BOOLEAN
        /\ pinged \subseteq Clients /\ reader \in {"idle", "members", "stale"}
    BY DEF PresenceInit
  <2>4. conn \in [Clients -> {"out", "open", "lost", "evicted"}]
    BY DEF PresenceInit
  <2>5. QED
    BY <2>1, <2>2, <2>3, <2>4 DEF PresenceTypes, PresenceTypeOK
<1>2. \A c \in Clients : ~Alive(c) /\ c \notin Connected
  BY DEF PresenceInit, Alive, Connected
<1>3. \A s \in Servers : todo[s] = <<>>
  BY DEF PresenceInit
<1>4. KeyRunsOut
  BY <1>2, <1>3, PipelinesDiffer DEF PresenceInit, PresenceAssumption, KeyRunsOut, Listing
<1>5. Excuses
  BY <1>2 DEF Excuses, Connected
<1>6. QED
  BY <1>1, <1>4, <1>5 DEF PresenceInv

\* The hub's own steps.
LEMMA PresenceHubStep ==
    ASSUME PresenceAssumption, PresenceInv, NEW c \in Clients,
           Register(c) \/ Unregister(c) \/ UnregisterTimeout(c) \/ Evict(c)
    PROVE  PresenceInv'
<1>0. /\ conn \in [Clients -> {"out", "open", "lost", "evicted"}]
      /\ todo \in [Servers -> {<<>>} \cup Listing \cup Unlisting]
      /\ HomeOf \in [Clients -> Servers] /\ TTL \in Nat /\ TTL >= 2
      /\ ttl \in 0..TTL /\ quiet \in 0..TTL /\ ttl + quiet <= TTL
      /\ member \in BOOLEAN /\ excused \in BOOLEAN
      /\ pinged \subseteq Clients /\ reader \in {"idle", "members", "stale"}
  BY DEF PresenceInv, PresenceTypes, PresenceTypeOK, PresenceAssumption, KeyRunsOut
<1>1. /\ ToSadd \in Listing /\ ToSrem \in Unlisting
      /\ ToSadd \notin Unlisting /\ ToSrem \notin Listing
  BY PipelinesDiffer DEF Listing, Unlisting
<1>2. /\ SetOnline(HomeOf[c]) <=> todo' = [todo EXCEPT ![HomeOf[c]] = ToSadd]
      /\ SetOffline(HomeOf[c]) <=> todo' = [todo EXCEPT ![HomeOf[c]] = ToSrem]
  BY DEF SetOnline, SetOffline, ToSadd, ToSrem
<1>3. ASSUME conn' \in [Clients -> {"out", "open", "lost", "evicted"}],
             todo' \in [Servers -> {<<>>} \cup Listing \cup Unlisting],
             pinged' \subseteq Clients, quiet' \in 0..TTL, excused' \in BOOLEAN,
             UNCHANGED <<member, ttl, reader>>
      PROVE  PresenceTypes'
  <2>1. todo' \in [Servers -> {<<>>} \cup {<<x>> : x \in Commands} \cup (Commands \X Commands)]
    BY <1>3, PipelineTypes
  <2>2. QED
    BY <1>0, <1>3, <2>1 DEF PresenceTypes, PresenceTypeOK
<1>4. CASE Register(c)
  <2>1. /\ todo[HomeOf[c]] = <<>> /\ conn' = [conn EXCEPT ![c] = "open"]
        /\ pinged' = pinged \cup {c} /\ quiet' = 0
        /\ todo' = [todo EXCEPT ![HomeOf[c]] = ToSadd]
        /\ UNCHANGED <<member, ttl, reader, excused>>
    BY <1>2, <1>4 DEF Register, AtSelect
  <2>2. PresenceTypes'
    BY <1>0, <1>1, <1>3, <2>1
  <2>3. KeyRunsOut'
    BY <1>0, <2>1 DEF KeyRunsOut
  <2>4. ASSUME NEW d \in Connected'
        PROVE  /\ todo'[HomeOf[d]] = ToSadd
                  \/ (d \in Connected /\ todo'[HomeOf[d]] = todo[HomeOf[d]] /\ d # c)
    BY <1>0, <2>1 DEF Connected
  <2>5. Excuses'
    <3>1. ASSUME NEW d \in Connected', todo'[HomeOf[d]] \in Unlisting PROVE excused'
      BY <1>1, <2>1, <2>4, <3>1 DEF PresenceInv, Excuses
    <3>2. ASSUME NEW d \in Connected', ~excused' PROVE Fresh(d)'
      <4>1. CASE todo'[HomeOf[d]] = ToSadd
        BY <4>1 DEF Fresh
      <4>2. CASE d \in Connected /\ todo'[HomeOf[d]] = todo[HomeOf[d]] /\ d # c
        <5>1. Fresh(d)
          BY <2>1, <3>2, <4>2 DEF PresenceInv, Excuses
        <5>2. QED
          BY <2>1, <4>2, <5>1 DEF Fresh
      <4>3. QED
        BY <2>4, <4>1, <4>2
    <3>3. QED
      BY <3>1, <3>2 DEF Excuses
  <2>6. QED
    BY <2>2, <2>3, <2>5 DEF PresenceInv
<1>5. CASE Unregister(c)
  <2>1. /\ todo[HomeOf[c]] = <<>> /\ conn' = [conn EXCEPT ![c] = "out"] /\ Alive(c)
        /\ \/ todo' = todo
           \/ /\ todo' = [todo EXCEPT ![HomeOf[c]] = ToSrem]
              /\ \A d \in Clients \ {c} : InHub(d) => HomeOf[d] # HomeOf[c]
        /\ UNCHANGED <<member, ttl, pinged, reader, quiet, excused>>
    BY <1>2, <1>5 DEF Unregister, AtSelect
  <2>2. PresenceTypes'
    BY <1>0, <1>1, <1>3, <2>1
  <2>3. \A d \in Clients : Alive(d)' => Alive(d)
    BY <1>0, <2>1 DEF Alive
  <2>4. \A s \in Servers : todo'[s] \in Listing => todo[s] \in Listing
    BY <1>0, <1>1, <2>1
  <2>5. KeyRunsOut'
    BY <1>0, <2>1, <2>3, <2>4 DEF KeyRunsOut, PresenceInv
  <2>6. ASSUME NEW d \in Connected'
        PROVE  d \in Connected /\ todo'[HomeOf[d]] = todo[HomeOf[d]]
    <3>1. d \in Clients /\ d # c /\ conn[d] = "open"
      BY <1>0, <2>1 DEF Connected
    <3>2. QED
      BY <1>0, <2>1, <3>1 DEF Connected, InHub
  <2>7. Excuses'
    BY <2>1, <2>6 DEF Excuses, Fresh, PresenceInv
  <2>8. QED
    BY <2>2, <2>5, <2>7 DEF PresenceInv
<1>6. CASE UnregisterTimeout(c)
  <2>1. /\ conn' = [conn EXCEPT ![c] = IF conn[c] = "open" THEN "lost" ELSE "out"] /\ Alive(c)
        /\ UNCHANGED <<todo, member, ttl, pinged, reader, quiet, excused>>
    BY <1>6 DEF UnregisterTimeout
  <2>2. PresenceTypes'
    BY <1>0, <1>3, <2>1
  <2>3. \A d \in Clients : (Alive(d)' => Alive(d)) /\ (d \in Connected' => d \in Connected)
    BY <1>0, <2>1 DEF Alive, Connected
  <2>4. KeyRunsOut'
    BY <1>0, <2>1, <2>3 DEF KeyRunsOut, PresenceInv
  <2>5. Connected' \subseteq Connected
    BY <2>3 DEF Connected
  <2>6. Excuses'
    BY <2>1, <2>5 DEF Excuses, Fresh, PresenceInv
  <2>7. QED
    BY <2>2, <2>4, <2>6 DEF PresenceInv
<1>7. CASE Evict(c)
  <2>1. /\ todo[HomeOf[c]] = <<>> /\ InHub(c)
        /\ conn' = [conn EXCEPT ![c] = IF conn[c] = "open" THEN "evicted" ELSE "out"]
        /\ todo' = [todo EXCEPT ![HomeOf[c]] = ToSrem]
        /\ excused' = (excused \/ Connected \ {c} # {})
        /\ UNCHANGED <<member, ttl, pinged, reader, quiet>>
    BY <1>2, <1>7 DEF Evict, AtSelect
  <2>2. PresenceTypes'
    BY <1>0, <1>1, <1>3, <2>1
  <2>3. \A d \in Clients : Alive(d)' => Alive(d)
    BY <1>0, <2>1 DEF Alive, InHub
  <2>4. \A s \in Servers : todo'[s] \in Listing => todo[s] \in Listing
    BY <1>0, <1>1, <2>1
  <2>5. KeyRunsOut'
    BY <1>0, <2>1, <2>3, <2>4 DEF KeyRunsOut, PresenceInv
  <2>6. Connected' \subseteq Connected \ {c}
    BY <1>0, <2>1 DEF Connected
  <2>7. Excuses'
    BY <2>1, <2>6 DEF Excuses
  <2>8. QED
    BY <2>2, <2>5, <2>7 DEF PresenceInv
<1>8. QED
  BY <1>4, <1>5, <1>6, <1>7

\* The end of a hub or a server, and the commands of the pipelines.
LEMMA PresenceServerStep ==
    ASSUME PresenceAssumption, PresenceInv, NEW s \in Servers,
           Stop(s) \/ Sadd(s) \/ Set(s) \/ Srem(s) \/ Del(s) \/ Fail(s)
    PROVE  PresenceInv'
<1>0. /\ conn \in [Clients -> {"out", "open", "lost", "evicted"}]
      /\ todo \in [Servers -> {<<>>} \cup Listing \cup Unlisting]
      /\ HomeOf \in [Clients -> Servers] /\ TTL \in Nat /\ TTL >= 2
      /\ ttl \in 0..TTL /\ quiet \in 0..TTL /\ ttl + quiet <= TTL
      /\ member \in BOOLEAN /\ excused \in BOOLEAN
      /\ pinged \subseteq Clients /\ reader \in {"idle", "members", "stale"}
      /\ PresenceTypes
  BY DEF PresenceInv, PresenceTypes, PresenceTypeOK, PresenceAssumption, KeyRunsOut
<1>1. /\ {ToSadd, ToSet} = Listing /\ {ToSrem, ToDel} = Unlisting
      /\ <<>> \notin Listing /\ <<>> \notin Unlisting /\ Listing \cap Unlisting = {}
      /\ ToSadd # ToSet
  BY PipelinesDiffer DEF Listing, Unlisting
<1>2. ASSUME conn' \in [Clients -> {"out", "open", "lost", "evicted"}],
             todo' \in [Servers -> {<<>>} \cup Listing \cup Unlisting],
             ttl' \in 0..TTL, member' \in BOOLEAN, excused' \in BOOLEAN,
             UNCHANGED <<pinged, quiet, reader>>
      PROVE  PresenceTypes'
  <2>1. todo' \in [Servers -> {<<>>} \cup {<<x>> : x \in Commands} \cup (Commands \X Commands)]
    BY <1>2, PipelineTypes
  <2>2. QED
    BY <1>0, <1>2, <2>1 DEF PresenceTypes, PresenceTypeOK
<1>3. ASSUME NEW x, todo' = [todo EXCEPT ![s] = x], UNCHANGED <<conn, quiet>>,
             ttl' + quiet <= TTL, x \in Listing => todo[s] \in Listing
      PROVE  KeyRunsOut'
  <2>1. \A t \in Servers : todo'[t] \in Listing => todo[t] \in Listing
    BY <1>0, <1>3
  <2>2. QED
    BY <1>3, <2>1 DEF KeyRunsOut, PresenceInv, Alive
\* Without an excuse the user is not connected where he is taken out.
<1>4. ASSUME todo[s] \in Unlisting, excused' = (excused \/ ConnectedElsewhere(s)),
             UNCHANGED conn, ~excused'
      PROVE  Connected' = {}
  <2>1. ~excused /\ ~ConnectedElsewhere(s)
    BY <1>4
  <2>2. Connected = {}
    BY <1>4, <2>1 DEF ConnectedElsewhere, PresenceInv, Excuses
  <2>3. QED
    BY <1>4, <2>2 DEF Connected
<1>5. CASE Stop(s)
  <2>1. /\ conn' = [c \in Clients |-> IF HomeOf[c] = s THEN "out" ELSE conn[c]]
        /\ todo' = [todo EXCEPT ![s] = <<>>]
        /\ UNCHANGED <<member, ttl, pinged, reader, quiet, excused>>
    BY <1>5 DEF Stop
  <2>2. PresenceTypes'
    BY <1>0, <1>2, <2>1
  <2>3. /\ \A c \in Clients : Alive(c)' => Alive(c)
        /\ \A t \in Servers : todo'[t] \in Listing => todo[t] \in Listing
    BY <1>0, <1>1, <2>1 DEF Alive
  <2>4. KeyRunsOut'
    BY <1>0, <2>1, <2>3 DEF KeyRunsOut, PresenceInv
  <2>5. ASSUME NEW c \in Connected'
        PROVE  c \in Connected /\ todo'[HomeOf[c]] = todo[HomeOf[c]]
    BY <1>0, <2>1 DEF Connected
  <2>6. Excuses'
    BY <2>1, <2>5 DEF Excuses, Fresh, PresenceInv
  <2>7. QED
    BY <2>2, <2>4, <2>6 DEF PresenceInv
<1>6. CASE Sadd(s)
  <2>1. /\ todo[s] = ToSadd /\ todo' = [todo EXCEPT ![s] = ToSet]
        /\ member' = TRUE /\ UNCHANGED <<ttl, excused, conn, pinged, reader, quiet>>
    BY <1>0, <1>6, ExecuteFacts DEF Sadd
  <2>2. PresenceTypes' /\ KeyRunsOut'
    BY <1>0, <1>1, <1>2, <1>3, <2>1
  <2>3. ASSUME NEW c \in Connected'
        PROVE  /\ c \in Connected
               /\ todo'[HomeOf[c]] = todo[HomeOf[c]]
                  \/ (todo[HomeOf[c]] = ToSadd /\ todo'[HomeOf[c]] = ToSet)
    BY <1>0, <2>1 DEF Connected
  <2>4. \A c \in Connected' : todo'[HomeOf[c]] \in Unlisting => excused'
    BY <1>1, <2>1, <2>3 DEF PresenceInv, Excuses
  <2>5. ASSUME NEW c \in Connected', ~excused' PROVE Fresh(c)'
    <3>1. Fresh(c)
      BY <2>1, <2>3, <2>5 DEF PresenceInv, Excuses
    <3>2. QED
      BY <2>1, <2>3, <3>1 DEF Fresh
  <2>6. QED
    BY <2>2, <2>4, <2>5 DEF PresenceInv, Excuses
<1>7. CASE Set(s)
  <2>1. /\ todo[s] = ToSet /\ todo' = [todo EXCEPT ![s] = <<>>]
        /\ ttl' = TTL /\ excused' = (excused /\ (Removing \/ ~member))
        /\ UNCHANGED <<member, conn, pinged, reader, quiet>>
    BY <1>0, <1>7, ExecuteFacts DEF Set
  <2>2. quiet = 0
    BY <1>1, <2>1 DEF KeyRunsOut, PresenceInv
  <2>3. PresenceTypes'
    <3>1. /\ ttl' \in 0..TTL /\ excused' \in BOOLEAN
          /\ todo' \in [Servers -> {<<>>} \cup Listing \cup Unlisting]
      BY <1>0, <2>1
    <3>2. QED
      BY <1>0, <1>2, <2>1, <3>1
  <2>4. KeyRunsOut'
    <3>1. ttl' + quiet <= TTL /\ <<>> \notin Listing
      BY <1>0, <1>1, <2>1, <2>2
    <3>2. QED
      BY <1>3, <2>1, <3>1
  <2>5. ASSUME NEW c \in Connected'
        PROVE  /\ c \in Connected /\ HomeOf[c] \in Servers
               /\ HomeOf[c] # s => todo'[HomeOf[c]] = todo[HomeOf[c]]
               /\ HomeOf[c] = s => todo[HomeOf[c]] = ToSet /\ todo'[HomeOf[c]] = <<>>
    BY <1>0, <2>1 DEF Connected
  <2>6. ASSUME NEW c \in Connected', todo'[HomeOf[c]] \in Unlisting PROVE excused'
    <3>1. c \in Connected /\ HomeOf[c] \in Servers /\ todo[HomeOf[c]] \in Unlisting
      BY <1>1, <2>5, <2>6
    <3>2. Removing /\ excused
      BY <1>0, <3>1, RemovingFacts DEF PresenceInv, Excuses
    <3>3. QED
      BY <2>1, <3>2
  <2>7. ASSUME NEW c \in Connected', ~excused' PROVE Fresh(c)'
    <3>1. CASE member
      BY <1>0, <2>1, <3>1 DEF Fresh
    <3>2. CASE ~member
      <4>1. ~excused
        BY <2>1, <2>7, <3>2
      <4>2. Fresh(c)
        BY <2>5, <4>1 DEF PresenceInv, Excuses
      <4>3. todo[HomeOf[c]] = ToSadd
        BY <3>2, <4>2 DEF Fresh
      <4>4. todo'[HomeOf[c]] = ToSadd
        BY <1>1, <2>1, <2>5, <4>3
      <4>5. QED
        BY <4>4 DEF Fresh
    <3>3. QED
      BY <3>1, <3>2
  <2>8. QED
    BY <2>3, <2>4, <2>6, <2>7 DEF PresenceInv, Excuses
<1>8. CASE Srem(s)
  <2>1. /\ todo[s] = ToSrem /\ todo' = [todo EXCEPT ![s] = ToDel]
        /\ member' = FALSE /\ excused' = (excused \/ ConnectedElsewhere(s))
        /\ UNCHANGED <<ttl, conn, pinged, reader, quiet>>
    BY <1>0, <1>8, ExecuteFacts DEF Srem
  <2>2. excused' \in BOOLEAN
    BY <2>1
  <2>3. PresenceTypes' /\ KeyRunsOut'
    BY <1>0, <1>1, <1>2, <1>3, <2>1, <2>2
  <2>4. ~excused' => Connected' = {}
    BY <1>1, <1>4, <2>1
  <2>5. QED
    BY <2>3, <2>4 DEF PresenceInv, Excuses
<1>9. CASE Del(s)
  <2>1. /\ todo[s] = ToDel /\ todo' = [todo EXCEPT ![s] = <<>>]
        /\ ttl' = 0 /\ excused' = (excused \/ ConnectedElsewhere(s))
        /\ UNCHANGED <<member, conn, pinged, reader, quiet>>
    BY <1>0, <1>9, ExecuteFacts DEF Del
  <2>2. excused' \in BOOLEAN
    BY <2>1
  <2>3. PresenceTypes' /\ KeyRunsOut'
    <3>1. /\ ttl' \in 0..TTL /\ ttl' + quiet <= TTL /\ <<>> \notin Listing
          /\ todo' \in [Servers -> {<<>>} \cup Listing \cup Unlisting]
      BY <1>0, <1>1, <2>1
    <3>2. QED
      BY <1>0, <1>2, <1>3, <2>1, <2>2, <3>1
  <2>4. ~excused' => Connected' = {}
    BY <1>1, <1>4, <2>1
  <2>5. QED
    BY <2>3, <2>4 DEF PresenceInv, Excuses
<1>10. CASE Fail(s)
  <2>1. /\ todo' = [todo EXCEPT ![s] = <<>>] /\ excused' = (excused \/ Connected # {})
        /\ UNCHANGED <<conn, member, ttl, pinged, reader, quiet>>
    BY <1>10 DEF Fail
  <2>2. excused' \in BOOLEAN
    BY <2>1
  <2>3. PresenceTypes' /\ KeyRunsOut'
    <3>1. /\ ttl' \in 0..TTL /\ ttl' + quiet <= TTL /\ <<>> \notin Listing
          /\ todo' \in [Servers -> {<<>>} \cup Listing \cup Unlisting]
      BY <1>0, <1>1, <2>1
    <3>2. QED
      BY <1>0, <1>2, <1>3, <2>1, <2>2, <3>1
  <2>4. ~excused' => Connected' = {}
    BY <2>1 DEF Connected
  <2>5. QED
    BY <2>3, <2>4 DEF PresenceInv, Excuses
<1>11. QED
  BY <1>5, <1>6, <1>7, <1>8, <1>9, <1>10

\* Pings, the reader of the list, and time.
LEMMA PresenceRestStep ==
    ASSUME PresenceAssumption, PresenceInv,
           \/ PresenceTick \/ Members \/ Exists \/ RemoveStale
           \/ \E c \in Clients : Ping(c) \/ PingFails(c)
    PROVE  PresenceInv'
<1>0. /\ conn \in [Clients -> {"out", "open", "lost", "evicted"}]
      /\ HomeOf \in [Clients -> Servers] /\ TTL \in Nat /\ TTL >= 2
      /\ ttl \in 0..TTL /\ quiet \in 0..TTL /\ ttl + quiet <= TTL
      /\ member \in BOOLEAN /\ excused \in BOOLEAN
      /\ pinged \subseteq Clients /\ reader \in {"idle", "members", "stale"}
      /\ PresenceTypes
  BY DEF PresenceInv, PresenceTypes, PresenceTypeOK, PresenceAssumption, KeyRunsOut
<1>1. ASSUME UNCHANGED <<conn, todo>>
      PROVE  Connected' = Connected /\ \A c \in Clients : Alive(c)' <=> Alive(c)
  BY <1>1 DEF Connected, Alive
<1>2. ASSUME UNCHANGED <<conn, todo>>, ttl' \in 0..TTL, quiet' \in 0..TTL,
             member' \in BOOLEAN, excused' \in BOOLEAN, pinged' \subseteq Clients,
             reader' \in {"idle", "members", "stale"}
      PROVE  PresenceTypes'
  BY <1>0, <1>2 DEF PresenceTypes, PresenceTypeOK
<1>3. ASSUME UNCHANGED <<conn, todo, quiet, ttl>> PROVE KeyRunsOut'
  BY <1>1, <1>3 DEF KeyRunsOut, PresenceInv
<1>4. ASSUME UNCHANGED <<conn, todo>>, excused' = (excused \/ Connected # {}) PROVE Excuses'
  BY <1>1, <1>4 DEF Excuses
<1>5. CASE Members \/ Exists
  <2>1. /\ UNCHANGED <<conn, todo, member, ttl, pinged, quiet, excused>>
        /\ reader' \in {"idle", "members", "stale"}
    BY <1>5 DEF Members, Exists
  <2>2. PresenceTypes' /\ KeyRunsOut'
    BY <1>0, <1>2, <1>3, <2>1
  <2>3. Excuses'
    BY <1>1, <2>1 DEF Excuses, Fresh, PresenceInv
  <2>4. QED
    BY <2>2, <2>3 DEF PresenceInv
<1>6. CASE RemoveStale
  <2>1. /\ UNCHANGED <<conn, todo, ttl, pinged, quiet>> /\ reader' = "idle" /\ member' = FALSE
        /\ excused' = (excused \/ Connected # {})
    BY <1>6 DEF RemoveStale
  <2>2. excused' \in BOOLEAN
    BY <2>1
  <2>3. PresenceTypes' /\ KeyRunsOut'
    BY <1>0, <1>2, <1>3, <2>1, <2>2
  <2>4. QED
    BY <1>4, <2>1, <2>3 DEF PresenceInv
<1>7. ASSUME NEW c \in Clients, Ping(c) PROVE PresenceInv'
  <2>1. /\ UNCHANGED <<conn, todo, member, reader, quiet, excused>> /\ Alive(c)
        /\ pinged' = pinged \cup {c} /\ ttl' = IF ttl = 0 THEN 0 ELSE TTL
    BY <1>7 DEF Ping
  <2>2. quiet = 0
    BY <2>1 DEF KeyRunsOut, PresenceInv
  <2>3. ttl' \in 0..TTL /\ ttl' + quiet <= TTL
    BY <1>0, <2>1, <2>2
  <2>4. PresenceTypes'
    BY <1>0, <1>2, <2>1, <2>3
  <2>5. KeyRunsOut'
    BY <1>1, <2>1, <2>3 DEF KeyRunsOut, PresenceInv
  <2>6. ASSUME NEW d \in Connected, ~excused PROVE Fresh(d)'
    <3>1. Fresh(d)
      BY <2>6 DEF PresenceInv, Excuses
    <3>2. member /\ ttl > 0 => ttl' = TTL /\ TTL > 0
      BY <1>0, <2>1
    <3>3. QED
      BY <2>1, <3>1, <3>2 DEF Fresh
  <2>7. Excuses'
    BY <1>1, <2>1, <2>6 DEF Excuses, PresenceInv
  <2>8. QED
    BY <2>4, <2>5, <2>7 DEF PresenceInv
<1>8. ASSUME NEW c \in Clients, PingFails(c) PROVE PresenceInv'
  <2>1. /\ UNCHANGED <<conn, todo, member, ttl, reader, quiet>>
        /\ pinged' = pinged \cup {c} /\ excused' = TRUE
    BY <1>8 DEF PingFails
  <2>2. PresenceTypes' /\ KeyRunsOut'
    BY <1>0, <1>2, <1>3, <2>1
  <2>3. QED
    BY <2>1, <2>2 DEF PresenceInv, Excuses
<1>9. CASE PresenceTick
  <2>1. /\ Connected \subseteq pinged /\ \A s \in Servers : todo[s] = <<>>
        /\ pinged' = {} /\ ttl' = (IF ttl = 0 THEN 0 ELSE ttl - 1)
        /\ quiet' = (IF \E c \in Clients : Alive(c) THEN 0
                     ELSE IF quiet < TTL THEN quiet + 1 ELSE TTL)
        /\ UNCHANGED <<conn, todo, member, reader, excused>>
    BY <1>9 DEF PresenceTick
  <2>2. ttl' \in 0..TTL /\ quiet' \in 0..TTL /\ ttl' + quiet' <= TTL
    BY <1>0, <2>1
  <2>3. PresenceTypes'
    BY <1>0, <1>2, <2>1, <2>2
  <2>4. \A s \in Servers : todo'[s] \notin Listing /\ todo'[s] \notin Unlisting
    BY <2>1, PipelinesDiffer DEF Listing, Unlisting
  <2>5. \A c \in Clients : Alive(c) => quiet' = 0
    BY <2>1
  <2>6. KeyRunsOut'
    BY <1>1, <2>1, <2>2, <2>4, <2>5 DEF KeyRunsOut
  <2>7. ASSUME NEW c \in Connected, ~excused PROVE Fresh(c)'
    <3>1. Fresh(c) /\ c \in pinged /\ todo[HomeOf[c]] = <<>>
      BY <1>0, <2>1, <2>7 DEF PresenceInv, Excuses, Connected
    <3>2. member /\ ttl = TTL
      BY <3>1, PipelinesDiffer DEF Fresh
    <3>3. member' /\ ttl' > 0 /\ c \notin pinged'
      BY <1>0, <2>1, <3>2
    <3>4. QED
      BY <3>3 DEF Fresh
  <2>8. \A c \in Connected : HomeOf[c] \in Servers
    BY <1>0 DEF Connected
  <2>9. Excuses'
    BY <1>1, <2>1, <2>4, <2>7, <2>8 DEF Excuses
  <2>10. QED
    BY <2>3, <2>6, <2>9 DEF PresenceInv
<1>10. QED
  BY <1>5, <1>6, <1>7, <1>8, <1>9

LEMMA PresenceInvStep ==
    ASSUME PresenceAssumption, PresenceInv, [PresenceNext]_online PROVE PresenceInv'
<1>1. CASE UNCHANGED online
  BY <1>1 DEF online, PresenceInv, PresenceTypes, PresenceTypeOK, KeyRunsOut, Excuses, Fresh,
              Connected, Alive
<1>2. CASE PresenceNext
  BY <1>2, PresenceHubStep, PresenceServerStep, PresenceRestStep DEF PresenceNext
<1>3. QED
  BY <1>1, <1>2

\* The types of the presence in Redis.
THEOREM PresenceTypeCorrect ==
    ASSUME PresenceAssumption PROVE PresenceSpec => []PresenceTypeOK
<1>1. PresenceInit => PresenceInv
  BY PresenceInvInit
<1>2. PresenceInv /\ [PresenceNext]_online => PresenceInv'
  BY PresenceInvStep
<1>3. PresenceInv => PresenceTypeOK
  BY DEF PresenceInv, PresenceTypes
<1>4. QED
  BY <1>1, <1>2, <1>3, PTL DEF PresenceSpec

\* A user who has left is listed for no longer than the time to live; one who
\* is connected is missing only for a reason that PresenceNeedsCause names.
THEOREM PresenceHasCause ==
    ASSUME PresenceAssumption PROVE PresenceSpec => []PresenceNeedsCause
<1>1. PresenceInit => PresenceInv
  BY PresenceInvInit
<1>2. PresenceInv /\ [PresenceNext]_online => PresenceInv'
  BY PresenceInvStep
<1>3. ASSUME PresenceInv PROVE PresenceNeedsCause
  <2>1. Listed => quiet < TTL
    BY <1>3 DEF Listed, PresenceInv, PresenceTypes, PresenceTypeOK, KeyRunsOut, PresenceAssumption
  <2>2. ASSUME \A s \in Servers : todo[s] = <<>>, ~excused, NEW c \in Connected PROVE Listed
    <3>1. Fresh(c) /\ todo[HomeOf[c]] = <<>>
      BY <1>3, <2>2 DEF PresenceInv, Excuses, Connected, PresenceAssumption
    <3>2. QED
      BY <3>1, PipelinesDiffer DEF Fresh, Listed
  <2>3. QED
    BY <2>1, <2>2 DEF PresenceNeedsCause
<1>4. QED
  BY <1>1, <1>2, <1>3, PTL DEF PresenceSpec

---------------------------------------------------------------------------
(* History: any number of messages and any limits.                         *)

(***************************************************************************)
(* What a page says of the messages left out of it.                        *)
(***************************************************************************)
LEMMA MinOf ==
    ASSUME NEW S \in SUBSET Nat, S # {}
    PROVE  Min(S) \in S /\ \A y \in S : Min(S) <= y
<1>1. \E x \in S : \A y \in S : x <= y
  BY LeastNat
<1>2. QED
  BY <1>1 DEF Min

LEMMA MaxOf ==
    ASSUME NEW n \in Nat, NEW S \in SUBSET (0..n), S # {}
    PROVE  Max(S) \in S /\ \A y \in S : y <= Max(S)
<1> DEFINE T == {n - x : x \in S}
<1>1. T \subseteq Nat /\ T # {}
  <2>1. \A x \in S : n - x \in Nat
    OBVIOUS
  <2>2. \E x \in S : n - x \in T
    OBVIOUS
  <2>3. QED
    BY <2>1, <2>2
<1>2. PICK t \in T : \A u \in T : t <= u
  BY <1>1, LeastNat
<1>3. PICK x \in S : t = n - x
  BY <1>2
<1>4. \A y \in S : x >= y
  <2>1. ASSUME NEW y \in S PROVE x >= y
    <3>1. n - y \in T
      OBVIOUS
    <3>2. n - x <= n - y
      BY <1>2, <1>3, <3>1
    <3>3. x \in Nat /\ y \in Nat
      OBVIOUS
    <3> HIDE DEF T
    <3>4. QED
      BY <3>2, <3>3
  <2>2. QED
    BY <2>1
<1>5. Max(S) \in S /\ \A y \in S : Max(S) >= y
  BY <1>4 DEF Max
<1>6. QED
  BY <1>5

\* A page that is not full has everything.
LEMMA PageFacts ==
    ASSUME NEW candidates, IsFiniteSet(candidates), NEW limit \in Nat,
           NEW page \in Pages(candidates, limit)
    PROVE  /\ page \subseteq candidates /\ Cardinality(page) \in Nat
           /\ Cardinality(page) <= limit
           /\ Cardinality(page) # limit => page = candidates
           /\ page = {} => candidates = {} \/ limit = 0
<1> DEFINE n == Cardinality(candidates)
           S == {limit, n}
<1>1. page \subseteq candidates /\ Cardinality(page) = Min(S)
  BY DEF Pages
<1>2. n \in Nat /\ IsFiniteSet(page) /\ Cardinality(page) \in Nat
  BY <1>1, FS_CardinalityType, FS_Subset
<1> HIDE DEF n
<1>3. Min(S) \in S /\ \A y \in S : Min(S) <= y
  BY <1>2, MinOf
<1>4. (Min(S) = limit \/ Min(S) = n) /\ Min(S) <= limit
  BY <1>3
<1>5. Cardinality(page) = n => page = candidates
  BY <1>1, FS_Subset DEF n
<1>6. page = {} => Cardinality(page) = 0
  BY FS_EmptySet
<1>7. page = {} /\ limit # 0 => candidates = {}
  BY <1>1, <1>4, <1>5, <1>6
<1> HIDE DEF S
<1>8. QED
  BY <1>1, <1>2, <1>4, <1>5, <1>7

(***************************************************************************)
(* The inductive invariant: a message was given its time in the past;      *)
(* those the client should get were stored when it began; those it has not *)
(* got are before its cursor, as long as there is more, or at the edge of  *)
(* a page.  That finitely many messages were ever begun is what lets a     *)
(* page that is not full mean that there is no more.                       *)
(***************************************************************************)
Begun == {m \in Written : place[m] # "none"}

PastTimes ==
    /\ IsFiniteSet(Begun)
    /\ \A m \in Begun : at[m] <= instant
    /\ \A m \in aim : place[m] \in {"stored", "deleted"}

BackKnown ==
    phase = "back" => \A m \in (aim \cap Stored) \ shown :
                        at[m] \in edges \/ (hasMore /\ at[m] < cursor)

AfterKnown == (phase = "following" => cursor \in edges) /\ AfterMissesNeedCause

HistoryInv ==
    HistoryTypeOK /\ PastTimes /\ BackKnown /\ BackMissesNeedCause /\ AfterKnown

\* The times of stored messages, and the edges of a page of them.
LEMMA EdgeFacts ==
    ASSUME HistoryAssumption, HistoryTypeOK, PastTimes, NEW page \in SUBSET Stored, NEW else
    PROVE  /\ \A m \in Stored : at[m] \in 0..Instants /\ at[m] <= instant
           /\ IsFiniteSet(Stored)
           /\ page = {} => Oldest(page, else) = else /\ Newest(page, else) = else
           /\ page # {} =>
                /\ Oldest(page, else) \in 0..Instants /\ Newest(page, else) \in 0..Instants
                /\ \E m \in page : at[m] = Oldest(page, else)
                /\ \E m \in page : at[m] = Newest(page, else)
                /\ \A m \in page : Oldest(page, else) <= at[m] /\ at[m] <= Newest(page, else)
<1> DEFINE S == {at[m] : m \in page}
<1>1. Stored \subseteq Begun /\ Stored \subseteq Written
  BY DEF Stored, Begun
<1>2. \A m \in Stored : at[m] \in 0..Instants /\ at[m] <= instant
  BY <1>1 DEF HistoryTypeOK, PastTimes
<1>3. IsFiniteSet(Stored)
  BY <1>1, FS_Subset DEF PastTimes
<1>4. S \in SUBSET (0..Instants)
  BY <1>2
<1>5. page = {} => Oldest(page, else) = else /\ Newest(page, else) = else
  BY DEF Oldest, Newest
<1>6. ASSUME page # {}
      PROVE  /\ Oldest(page, else) = Min(S) /\ Newest(page, else) = Max(S)
             /\ Min(S) \in S /\ Max(S) \in S
             /\ \A y \in S : Min(S) <= y /\ y <= Max(S)
  <2>1. S # {} /\ Instants \in Nat /\ S \in SUBSET Nat
    BY <1>4, <1>6 DEF HistoryAssumption
  <2>2. Oldest(page, else) = Min(S) /\ Newest(page, else) = Max(S)
    BY <1>6 DEF Oldest, Newest
  <2> HIDE DEF S
  <2>3. Min(S) \in S /\ \A y \in S : Min(S) <= y
    BY <2>1, MinOf
  <2>4. Max(S) \in S /\ \A y \in S : y <= Max(S)
    BY <1>4, <2>1, MaxOf
  <2>5. QED
    BY <2>2, <2>3, <2>4
<1>7. ASSUME page # {}
      PROVE  /\ Oldest(page, else) \in 0..Instants /\ Newest(page, else) \in 0..Instants
             /\ \E m \in page : at[m] = Oldest(page, else)
             /\ \E m \in page : at[m] = Newest(page, else)
             /\ \A m \in page : Oldest(page, else) <= at[m] /\ at[m] <= Newest(page, else)
  <2>1. \A m \in page : at[m] \in S
    OBVIOUS
  <2>2. \A x \in S : x \in 0..Instants /\ \E m \in page : at[m] = x
    BY <1>4
  <2> HIDE DEF S
  <2>3. QED
    BY <1>6, <1>7, <2>1, <2>2
<1>8. QED
  BY <1>2, <1>3, <1>5, <1>7

LEMMA HistoryInvInit == HistoryAssumption /\ HistoryInit => HistoryInv
<1> SUFFICES ASSUME HistoryAssumption, HistoryInit PROVE HistoryInv
  OBVIOUS
<1>1. Begun = {} /\ Stored = {}
  BY DEF HistoryInit, Begun, Stored
<1>2. HistoryTypeOK
  <2>1. Instants \in Nat /\ 0 \in 0..Instants /\ 0 \in 0..(Instants + 1)
    BY DEF HistoryAssumption
  <2>2. /\ place \in [Written -> {"none", "stamped", "stored", "deleted"}]
        /\ phase \in {"away", "back", "ended", "following"} /\ hasMore \in BOOLEAN
        /\ shown \subseteq Written /\ aim \subseteq Written /\ tardy \subseteq Written
        /\ edges \subseteq 0..(Instants + 1)
    BY DEF HistoryInit
  <2>3. at \in [Written -> 0..Instants] /\ instant \in 0..Instants /\ cursor \in 0..(Instants + 1)
    BY <2>1 DEF HistoryInit
  <2>4. QED
    BY <2>2, <2>3 DEF HistoryTypeOK
<1>3. PastTimes
  BY <1>1, FS_EmptySet DEF PastTimes, HistoryInit
<1>4. QED
  BY <1>2, <1>3 DEF HistoryInv, HistoryInit, BackKnown, BackMissesNeedCause, AfterKnown,
                    AfterMissesNeedCause

\* The writers: a message that is stored keeps its time, and none that comes
\* was there when the client began.
LEMMA WriterStep ==
    ASSUME HistoryAssumption, HistoryInv,
           HistoryTick \/ \E m \in Written : Stamp(m) \/ InsertChat(m) \/ Delete(m)
    PROVE  HistoryInv'
<1>0. /\ place \in [Written -> {"none", "stamped", "stored", "deleted"}]
      /\ at \in [Written -> 0..Instants] /\ instant \in 0..Instants /\ Instants \in Nat
      /\ cursor \in 0..(Instants + 1)
      /\ aim \subseteq Written /\ tardy \subseteq Written
      /\ HistoryTypeOK /\ PastTimes /\ BackKnown /\ BackMissesNeedCause
      /\ (phase = "following" => cursor \in edges) /\ AfterMissesNeedCause
  BY DEF HistoryInv, HistoryTypeOK, HistoryAssumption, AfterKnown
<1>1. UNCHANGED <<phase, cursor, hasMore, shown, aim, edges>>
  BY DEF HistoryTick, Stamp, InsertChat, Delete
<1>2. CASE HistoryTick
  <2>1. /\ instant' = instant + 1 /\ instant < Instants /\ UNCHANGED <<place, at, tardy>>
    BY <1>2 DEF HistoryTick
  <2>2. HistoryTypeOK'
    BY <1>0, <1>1, <2>1 DEF HistoryTypeOK
  <2>3. Begun' = Begun /\ Stored' = Stored
    BY <2>1 DEF Begun, Stored
  <2>4. PastTimes'
    BY <1>0, <1>1, <2>1, <2>3 DEF PastTimes, Begun
  <2>5. QED
    BY <1>0, <1>1, <2>1, <2>2, <2>3, <2>4 DEF HistoryInv, BackKnown, BackMissesNeedCause,
                                              AfterKnown, AfterMissesNeedCause
<1>3. ASSUME NEW m \in Written, Stamp(m) PROVE HistoryInv'
  <2>1. /\ place[m] = "none" /\ place' = [place EXCEPT ![m] = "stamped"]
        /\ at' = [at EXCEPT ![m] = instant] /\ UNCHANGED <<instant, tardy>>
    BY <1>3 DEF Stamp
  <2>2. HistoryTypeOK'
    BY <1>0, <1>1, <2>1 DEF HistoryTypeOK
  <2>3. Begun' = Begun \cup {m} /\ Stored' = Stored /\ m \notin Stored
    BY <1>0, <2>1 DEF Begun, Stored
  <2>4. \A n \in Written : n # m => at'[n] = at[n] /\ place'[n] = place[n]
    BY <1>0, <2>1
  <2>5. PastTimes'
    <3>1. IsFiniteSet(Begun')
      BY <1>0, <2>3, FS_AddElement DEF PastTimes
    <3>2. ASSUME NEW n \in Begun' PROVE at'[n] <= instant'
      BY <1>0, <2>1, <2>3, <2>4 DEF PastTimes, Begun
    <3>3. ASSUME NEW n \in aim' PROVE place'[n] \in {"stored", "deleted"}
      BY <1>0, <1>1, <2>1, <2>4 DEF PastTimes
    <3>4. QED
      BY <3>1, <3>2, <3>3 DEF PastTimes
  <2>6. Stored' = Stored /\ \A n \in Stored : at'[n] = at[n]
    BY <2>3, <2>4 DEF Stored
  <2>7. QED
    BY <1>0, <1>1, <2>1, <2>2, <2>5, <2>6 DEF HistoryInv, BackKnown, BackMissesNeedCause,
                                              AfterKnown, AfterMissesNeedCause
<1>4. ASSUME NEW m \in Written, InsertChat(m) PROVE HistoryInv'
  <2>1. /\ place[m] = "stamped" /\ place' = [place EXCEPT ![m] = "stored"]
        /\ tardy' = IF phase = "following" /\ at[m] < cursor THEN tardy \cup {m} ELSE tardy
        /\ UNCHANGED <<instant, at>>
    BY <1>4 DEF InsertChat
  <2>2. HistoryTypeOK'
    BY <1>0, <1>1, <2>1 DEF HistoryTypeOK
  <2>3. Begun' = Begun /\ Stored' = Stored \cup {m}
    BY <1>0, <2>1 DEF Begun, Stored
  <2>4. m \notin aim
    BY <1>0, <2>1 DEF PastTimes
  <2>5. PastTimes'
    BY <1>0, <1>1, <2>1, <2>3, <2>4 DEF PastTimes
  <2>6. (aim' \cap Stored') = (aim \cap Stored)
    BY <1>1, <2>3, <2>4
  <2>7. ASSUME phase' = "following", NEW n \in Stored' \ shown'
        PROVE  at'[n] > cursor' \/ at'[n] \in edges' \/ n \in tardy'
    <3>1. CASE n \in Stored
      BY <1>0, <1>1, <2>1, <2>7, <3>1 DEF AfterMissesNeedCause
    <3>2. CASE n = m
      <4>1. at[m] \in Nat /\ cursor \in Nat /\ cursor \in edges
        BY <1>0, <1>1, <2>7
      <4>2. at[m] < cursor \/ at[m] = cursor \/ at[m] > cursor
        BY <4>1
      <4>3. QED
        BY <1>1, <2>1, <2>7, <3>2, <4>1, <4>2
    <3>3. QED
      BY <2>3, <2>7, <3>1, <3>2
  <2>8. AfterKnown'
    BY <1>0, <1>1, <2>7 DEF AfterKnown, AfterMissesNeedCause
  <2>9. BackKnown' /\ BackMissesNeedCause'
    BY <1>0, <1>1, <2>1, <2>6 DEF BackKnown, BackMissesNeedCause
  <2>10. QED
    BY <2>2, <2>5, <2>8, <2>9 DEF HistoryInv
<1>5. ASSUME NEW m \in Written, Delete(m) PROVE HistoryInv'
  <2>1. /\ place[m] = "stored" /\ place' = [place EXCEPT ![m] = "deleted"]
        /\ UNCHANGED <<instant, at, tardy>>
    BY <1>5 DEF Delete
  <2>2. HistoryTypeOK'
    BY <1>0, <1>1, <2>1 DEF HistoryTypeOK
  <2>3. Begun' = Begun /\ Stored' \subseteq Stored
    BY <1>0, <2>1 DEF Begun, Stored
  <2>4. PastTimes'
    BY <1>0, <1>1, <2>1, <2>3 DEF PastTimes
  <2>5. QED
    BY <1>0, <1>1, <2>1, <2>2, <2>3, <2>4 DEF HistoryInv, BackKnown, BackMissesNeedCause,
                                              AfterKnown, AfterMissesNeedCause
<1>6. QED
  BY <1>2, <1>3, <1>4, <1>5

\* What an answer leaves of the types, and of what the writers have done.
LEMMA AskTypes ==
    ASSUME HistoryAssumption, HistoryTypeOK, PastTimes, NEW page \in SUBSET Stored,
           NEW new \in 0..(Instants + 1), NEW more \in BOOLEAN,
           NEW next \in {"away", "back", "ended", "following"}, Ask(page, new, more, next),
           aim' = aim \/ aim' \subseteq Stored
    PROVE  HistoryTypeOK' /\ PastTimes' /\ Stored' = Stored
<1>1. UNCHANGED <<instant, place, at, tardy>>
  BY DEF Ask, writers
<1>2. Stored' = Stored /\ Begun' = Begun /\ Stored \subseteq Written
  BY <1>1 DEF Stored, Begun
<1>3. aim' \subseteq Written /\ \A m \in aim' : place[m] \in {"stored", "deleted"}
  BY DEF HistoryTypeOK, PastTimes, Stored
<1>4. HistoryTypeOK'
  BY <1>1, <1>2, <1>3 DEF HistoryTypeOK, Ask
<1>5. PastTimes'
  BY <1>1, <1>2, <1>3 DEF PastTimes
<1>6. QED
  BY <1>2, <1>4, <1>5

\* The client's requests.
LEMMA ReaderStep ==
    ASSUME HistoryAssumption, HistoryInv,
           List \/ GoBack \/ Before \/ NoMore \/ Leave \/ After
    PROVE  HistoryInv'
<1>0. /\ Instants \in Nat /\ ListLimit \in Nat /\ PageLimit \in Nat /\ PageLimit # 0
      /\ AfterLimit \in Nat
      /\ instant \in 0..Instants /\ cursor \in 0..(Instants + 1)
      /\ HistoryTypeOK /\ PastTimes /\ BackKnown /\ AfterKnown
  BY DEF HistoryInv, HistoryTypeOK, HistoryAssumption
<1>1. /\ IsFiniteSet(Stored)
      /\ \A m \in Stored : at[m] \in 0..Instants /\ at[m] <= instant
  BY <1>0, EdgeFacts
<1>2. ASSUME NEW page \in SUBSET Stored, NEW else \in 0..(Instants + 1)
      PROVE  /\ Oldest(page, else) \in 0..(Instants + 1)
             /\ Newest(page, else) \in 0..(Instants + 1)
  <2>1. CASE page = {}
    BY <1>0, <2>1, EdgeFacts
  <2>2. CASE page # {}
    <3>1. Oldest(page, else) \in 0..Instants /\ Newest(page, else) \in 0..Instants
      BY <1>0, <2>2, EdgeFacts
    <3>2. QED
      BY <1>0, <3>1
  <2>3. QED
    BY <2>1, <2>2
<1>3. ASSUME HistoryTypeOK', PastTimes', phase' = "back", BackKnown' PROVE HistoryInv'
  BY <1>3 DEF HistoryInv, BackMissesNeedCause, AfterKnown, AfterMissesNeedCause
<1>4. ASSUME HistoryTypeOK', PastTimes', phase' = "following", cursor' \in edges',
             AfterMissesNeedCause'
      PROVE  HistoryInv'
  BY <1>4 DEF HistoryInv, BackKnown, BackMissesNeedCause, AfterKnown
<1>5. CASE List
  <2>1. PICK page \in FindChatByRoom :
          /\ Ask(page, Oldest(page, 0), Cardinality(page) >= ListLimit, "back")
          /\ aim' = {m \in Stored : Cardinality(page) >= ListLimit => at[m] < Newest(page, 0)}
    BY <1>5 DEF List
  <2>2. /\ page \in Pages(Stored, ListLimit) /\ page \subseteq Stored
        /\ \A m \in page, n \in Stored \ page : at[m] <= at[n]
    BY <2>1 DEF FindChatByRoom, Earliest, Pages
  <2>3. /\ Cardinality(page) \in Nat /\ Cardinality(page) <= ListLimit
        /\ Cardinality(page) # ListLimit => page = Stored
    BY <1>0, <1>1, <2>2, PageFacts
  <2>4. Oldest(page, 0) \in 0..(Instants + 1) /\ aim' \subseteq Stored
    BY <1>0, <1>2, <2>1, <2>2
  <2>5. HistoryTypeOK' /\ PastTimes' /\ Stored' = Stored
    <3> DEFINE more == Cardinality(page) >= ListLimit
    <3>1. more \in BOOLEAN
      OBVIOUS
    <3>2. Ask(page, Oldest(page, 0), more, "back")
      BY <2>1
    <3> HIDE DEF more
    <3>3. QED
      BY <1>0, <2>2, <2>4, <3>1, <3>2, AskTypes
  <2>6. phase' = "back" /\ page \subseteq shown'
    BY <2>1 DEF Ask
  <2>7. ASSUME NEW m \in aim', m \notin page PROVE FALSE
    <3>1. m \in Stored /\ at[m] \in 0..Instants
      BY <1>1, <2>4
    <3>2. page # Stored
      BY <2>7, <3>1
    <3>3. at[m] < Newest(page, 0)
      BY <1>0, <2>1, <2>3, <2>7, <3>2
    <3>4. page # {}
      BY <1>0, <2>2, <3>1, <3>3, EdgeFacts
    <3>5. PICK n \in page : at[n] = Newest(page, 0)
      BY <1>0, <2>2, <3>4, EdgeFacts
    <3>6. at[n] <= at[m] /\ at[n] \in 0..Instants
      BY <1>1, <2>2, <2>7, <3>1
    <3>7. QED
      BY <3>1, <3>3, <3>5, <3>6
  <2>8. BackKnown'
    BY <2>6, <2>7 DEF BackKnown
  <2>9. QED
    BY <1>3, <2>5, <2>6, <2>8
<1>6. CASE GoBack
  <2>1. Ask({}, instant + 1, TRUE, "back") /\ aim' = Stored
    BY <1>6 DEF GoBack
  <2>2. instant + 1 \in 0..(Instants + 1) /\ {} \in SUBSET Stored
    BY <1>0
  <2>3. HistoryTypeOK' /\ PastTimes' /\ Stored' = Stored
    BY <1>0, <2>1, <2>2, AskTypes
  <2>4. phase' = "back" /\ hasMore' = TRUE /\ cursor' = instant + 1 /\ at' = at
    BY <2>1 DEF Ask, writers
  <2>5. \A m \in Stored : at[m] < instant + 1
    BY <1>0, <1>1
  <2>6. BackKnown'
    BY <2>3, <2>4, <2>5 DEF BackKnown
  <2>7. QED
    BY <1>3, <2>3, <2>4, <2>6
<1>7. CASE Before
  <2>1. PICK page \in FindChatByRoomBefore(cursor) :
          Ask(page, Oldest(page, cursor), Cardinality(page) = PageLimit, "back")
    BY <1>7 DEF Before
  <2> DEFINE candidates == {m \in Stored : at[m] < cursor}
  <2>2. phase = "back" /\ hasMore /\ aim' = aim
    BY <1>7 DEF Before
  <2>3. /\ page \in Pages(candidates, PageLimit) /\ page \subseteq candidates
        /\ candidates \subseteq Stored /\ page \in SUBSET Stored
        /\ \A m \in page, n \in candidates \ page : at[m] >= at[n]
    BY <2>1 DEF FindChatByRoomBefore, Latest, Pages
  <2>4. IsFiniteSet(candidates)
    BY <1>1, <2>3, FS_Subset
  <2>5. /\ Cardinality(page) # PageLimit => page = candidates
        /\ page = {} => candidates = {}
    <3> HIDE DEF candidates
    <3>1. QED
      BY <1>0, <2>3, <2>4, PageFacts
  <2>6. Oldest(page, cursor) \in 0..(Instants + 1)
    BY <1>0, <1>2, <2>3
  <2>7. HistoryTypeOK' /\ PastTimes' /\ Stored' = Stored
    BY <1>0, <2>1, <2>2, <2>3, <2>6, AskTypes
  <2>8. /\ phase' = "back" /\ shown' = shown \cup page /\ cursor' = Oldest(page, cursor)
        /\ edges' = edges \cup {Oldest(page, cursor)}
        /\ hasMore' = (Cardinality(page) = PageLimit) /\ at' = at
    BY <2>1 DEF Ask, writers
  <2>9. ASSUME NEW m \in (aim \cap Stored) \ shown, m \notin page, at[m] \notin edges,
               at[m] # Oldest(page, cursor)
        PROVE  Cardinality(page) = PageLimit /\ at[m] < Oldest(page, cursor)
    <3>1. m \in candidates \ page
      BY <1>0, <2>2, <2>9 DEF BackKnown
    <3>2. Cardinality(page) = PageLimit /\ page # {}
      BY <2>5, <3>1
    <3>3. PICK n \in page : at[n] = Oldest(page, cursor)
      BY <1>0, <2>3, <3>2, EdgeFacts
    <3>4. at[n] >= at[m] /\ at[n] \in 0..Instants /\ at[m] \in 0..Instants
      BY <1>1, <2>3, <3>1
    <3>5. QED
      BY <2>9, <3>2, <3>3, <3>4
  <2>10. BackKnown'
    BY <2>2, <2>7, <2>8, <2>9 DEF BackKnown
  <2>11. QED
    BY <1>3, <2>7, <2>8, <2>10
<1>8. CASE NoMore
  <2>1. /\ phase = "back" /\ ~hasMore /\ phase' = "ended"
        /\ UNCHANGED <<instant, place, at, tardy, cursor, hasMore, shown, aim, edges>>
    BY <1>8 DEF NoMore, writers
  <2>2. HistoryTypeOK'
    BY <1>0, <2>1 DEF HistoryTypeOK
  <2>3. Stored' = Stored /\ Begun' = Begun
    BY <2>1 DEF Stored, Begun
  <2>4. PastTimes'
    BY <1>0, <2>1, <2>3 DEF PastTimes
  <2>5. BackMissesNeedCause'
    BY <1>0, <2>1, <2>3 DEF BackKnown, BackMissesNeedCause
  <2>6. QED
    BY <2>1, <2>2, <2>4, <2>5 DEF HistoryInv, BackKnown, AfterKnown, AfterMissesNeedCause
<1>9. CASE Leave
  <2>1. Ask(Stored, Newest(Stored, 0), FALSE, "following") /\ aim' = aim
    BY <1>9 DEF Leave
  <2>2. Newest(Stored, 0) \in 0..(Instants + 1) /\ Stored \in SUBSET Stored
    BY <1>0, <1>2
  <2>3. HistoryTypeOK' /\ PastTimes' /\ Stored' = Stored
    BY <1>0, <2>1, <2>2, AskTypes
  <2>4. phase' = "following" /\ cursor' \in edges' /\ Stored \subseteq shown'
    BY <2>1 DEF Ask
  <2>5. AfterMissesNeedCause'
    BY <2>3, <2>4 DEF AfterMissesNeedCause
  <2>6. QED
    BY <1>4, <2>3, <2>4, <2>5
<1>10. CASE After
  <2>1. PICK page \in FindChatByRoomAfter(cursor) :
          Ask(page, Newest(page, cursor), FALSE, "following")
    BY <1>10 DEF After
  <2> DEFINE candidates == {m \in Stored : at[m] > cursor}
  <2>2. phase = "following" /\ aim' = aim
    BY <1>10 DEF After
  <2>3. /\ page \subseteq candidates /\ page \in SUBSET Stored
        /\ \A m \in page, n \in candidates \ page : at[m] <= at[n]
    BY <2>1 DEF FindChatByRoomAfter, Earliest, Pages
  <2>4. Newest(page, cursor) \in 0..(Instants + 1)
    BY <1>0, <1>2, <2>3
  <2>5. HistoryTypeOK' /\ PastTimes' /\ Stored' = Stored
    BY <1>0, <2>1, <2>2, <2>3, <2>4, AskTypes
  <2>6. /\ phase' = "following" /\ shown' = shown \cup page /\ cursor' = Newest(page, cursor)
        /\ edges' = edges \cup {Newest(page, cursor)} /\ at' = at /\ tardy' = tardy
    BY <2>1 DEF Ask, writers
  <2>7. ASSUME NEW m \in Stored \ shown, m \notin page, at[m] \notin edges, m \notin tardy,
               at[m] # Newest(page, cursor)
        PROVE  at[m] > Newest(page, cursor)
    <3>1. m \in candidates \ page
      BY <1>0, <2>2, <2>7 DEF AfterKnown, AfterMissesNeedCause
    <3>2. CASE page = {}
      BY <1>0, <2>3, <3>1, <3>2, EdgeFacts
    <3>3. CASE page # {}
      <4>1. PICK n \in page : at[n] = Newest(page, cursor)
        BY <1>0, <2>3, <3>3, EdgeFacts
      <4>2. at[n] <= at[m] /\ at[n] \in 0..Instants /\ at[m] \in 0..Instants
        BY <1>1, <2>3, <3>1
      <4>3. QED
        BY <2>7, <4>1, <4>2
    <3>4. QED
      BY <3>2, <3>3
  <2>8. AfterMissesNeedCause'
    BY <2>5, <2>6, <2>7 DEF AfterMissesNeedCause
  <2>9. QED
    BY <1>4, <2>5, <2>6, <2>8
<1>11. QED
  BY <1>5, <1>6, <1>7, <1>8, <1>9, <1>10

LEMMA HistoryInvStep ==
    ASSUME HistoryAssumption, HistoryInv, [HistoryNext]_pages PROVE HistoryInv'
<1>1. CASE UNCHANGED pages
  BY <1>1 DEF pages, writers, HistoryInv, HistoryTypeOK, PastTimes, Begun, Stored, BackKnown,
              BackMissesNeedCause, AfterKnown, AfterMissesNeedCause
<1>2. CASE HistoryNext
  BY <1>2, WriterStep, ReaderStep DEF HistoryNext
<1>3. QED
  BY <1>1, <1>2

\* The types of the reading of messages.
THEOREM HistoryTypeCorrect ==
    ASSUME HistoryAssumption PROVE HistorySpec => []HistoryTypeOK
<1>1. HistoryInit => HistoryInv
  BY HistoryInvInit
<1>2. HistoryInv /\ [HistoryNext]_pages => HistoryInv'
  BY HistoryInvStep
<1>3. HistoryInv => HistoryTypeOK
  BY DEF HistoryInv
<1>4. QED
  BY <1>1, <1>2, <1>3, PTL DEF HistorySpec

\* Going back page by page misses only messages that share their time with the
\* edge of a page.
THEOREM BackHasCause ==
    ASSUME HistoryAssumption PROVE HistorySpec => []BackMissesNeedCause
<1>1. HistoryInit => HistoryInv
  BY HistoryInvInit
<1>2. HistoryInv /\ [HistoryNext]_pages => HistoryInv'
  BY HistoryInvStep
<1>3. HistoryInv => BackMissesNeedCause
  BY DEF HistoryInv
<1>4. QED
  BY <1>1, <1>2, <1>3, PTL DEF HistorySpec

\* Following the newest misses those, and what was inserted behind the client.
THEOREM AfterHasCause ==
    ASSUME HistoryAssumption PROVE HistorySpec => []AfterMissesNeedCause
<1>1. HistoryInit => HistoryInv
  BY HistoryInvInit
<1>2. HistoryInv /\ [HistoryNext]_pages => HistoryInv'
  BY HistoryInvStep
<1>3. HistoryInv => AfterMissesNeedCause
  BY DEF HistoryInv, AfterKnown
<1>4. QED
  BY <1>1, <1>2, <1>3, PTL DEF HistorySpec

---------------------------------------------------------------------------
(* The composition. *)

\* A behaviour of the services is one of every component: what is proved of a
\* component alone holds of it here.
THEOREM ServicesCompose ==
    ServicesSpec => /\ Spec /\ HistorySpec /\ AccountSpec
                    /\ PresenceSpec /\ RateSpec /\ ConnSpec
<1> DEFINE All == <<part, vars, pages, accounts, online, rates, upgrades>>
<1>1. ServicesInit =>
        Init /\ HistoryInit /\ AccountInit /\ PresenceInit /\ RateInit /\ ConnInit
  BY DEF ServicesInit
<1>2. ASSUME [ServicesNext]_All
      PROVE  /\ [Next]_vars /\ [HistoryNext]_pages /\ [AccountNext]_accounts
             /\ [PresenceNext]_online /\ [RateNext]_rates /\ [ConnNext]_upgrades
  BY <1>2 DEF ServicesNext
<1>3. QED
  BY <1>1, <1>2, PTL DEF ServicesSpec, Spec, HistorySpec, AccountSpec, PresenceSpec, RateSpec,
                         ConnSpec

\* The types of all the components together.
THEOREM ServicesTypes == ServicesSpec => []TypesOK
<1>1. /\ Spec => []TypeOK
      /\ HistorySpec => []HistoryTypeOK
      /\ AccountSpec => []AccountTypeOK
      /\ PresenceSpec => []PresenceTypeOK
      /\ RateSpec => []RateTypeOK
      /\ ConnSpec => []ConnTypeOK
  BY RoomTypeCorrect, HistoryTypeCorrect, AccountTypeCorrect, PresenceTypeCorrect,
     RateTypeCorrect, ConnTypeCorrect, ServicesAssumption DEF ServicesAssumption
<1>2. TypeOK /\ HistoryTypeOK /\ AccountTypeOK /\ PresenceTypeOK /\ RateTypeOK /\ ConnTypeOK
        => TypesOK
  BY DEF TypesOK
<1>3. QED
  BY <1>1, <1>2, ServicesCompose, PTL

=============================================================================
