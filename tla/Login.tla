-------------------------------- MODULE Login --------------------------------
(***************************************************************************)
(* POST /api/login of src/src/agentic/server/app.py and server/auth.py:    *)
(* the failure budget of a client address, the password check, the token,  *)
(* and what a token is still worth later.                                  *)
(*                                                                         *)
(* login is a plain "def": FastAPI runs each request in a worker thread,   *)
(* so the budget is asked (Admit) a slow password check before the failure *)
(* is counted (Refuse), and other threads do both in between.  Asking the  *)
(* budget is one step: threads change only after a popleft of its loop,    *)
(* which then looks at the head anew.                                      *)
(*                                                                         *)
(* Times are kept as ages: a tick of the clock makes every recorded        *)
(* failure a tick older and every token a tick closer to its end.  The     *)
(* monotonic and the wall clock advance together.                          *)
(***************************************************************************)
EXTENDS Integers, Sequences, FiniteSets, Subsequences

CONSTANTS
    Threads,      \* worker threads of the server
    Addresses,    \* the keys of the limiter: client addresses
    Users,
    Roles,
    NoRole,       \* the role of a name users.yaml does not have
    Grants,       \* the sets of roles permissions.yaml may define
    MaxFailures,  \* LoginRateLimiter.max_failures
    Window,       \* LoginRateLimiter.window_seconds, in ticks
    TTL,          \* life of a token, in ticks
    CheckTime     \* bound: ticks a login takes after it read users.yaml

ASSUME LoginAssumption ==
    /\ IsFiniteSet(Threads) /\ Threads # {}
    /\ NoRole \notin Roles
    /\ Grants \subseteq SUBSET Roles
    /\ MaxFailures \in Nat \ {0}
    /\ Window \in Nat /\ TTL \in Nat \ {0} /\ CheckTime \in Nat

VARIABLES
    users,      \* users.yaml: the role of each user
    failures,   \* LoginRateLimiter._failures: ages, oldest first
    attempt,    \* attempt[t]: the login thread t is checking, or NoAttempt
    tokens,     \* tokens issued and still good, with the ticks they have left
    wrong,      \* history: ages of the wrong answers to an address that are
                \* inside the window, since its last success or the last restart
    lapsed      \* history: ticks since users.yaml last gave a user a role,
                \* no longer told apart once every token of then has expired

vars == <<users, failures, attempt, tokens, wrong, lapsed>>

NoAttempt == [address |-> "none"]
Lapse == 0..(TTL + CheckTime)
Attempts == [address : Addresses, user : Users, role : Roles \cup {NoRole},
             since : 0..CheckTime]

Older(ages) == [i \in DOMAIN ages |-> ages[i] + 1]
InWindow(age) == age <= Window

(* allow drops from the head what has left the window: the entries are in  *)
(* the order they were counted.                                            *)
Pruned(ages) ==
    LET old == {i \in DOMAIN ages : \A j \in 1..i : ~InWindow(ages[j])}
    IN SubSeq(ages, Cardinality(old) + 1, Len(ages))

(* Fault: the budget is compared as if the next failure were free.         *)
AllowsOneMore(a) == Len(Pruned(failures[a])) <= MaxFailures

(* LoginRateLimiter.allow.                                                 *)
Allows(a) == Len(Pruned(failures[a])) < MaxFailures

Init ==
    /\ users \in [Users -> Roles \cup {NoRole}]
    /\ failures = [a \in Addresses |-> <<>>]
    /\ attempt = [t \in Threads |-> NoAttempt]
    /\ tokens = {}
    /\ wrong = [a \in Addresses |-> <<>>]
    /\ lapsed = [u \in Users |-> [r \in Roles |->
                    IF users[u] = r THEN 0 ELSE TTL + CheckTime]]

(* authenticate: the role of the principal; NoRole for the 401 of an       *)
(* unknown user or a wrong password and the 403 of a role that the         *)
(* permissions config does not define, which are counted alike.            *)
Authenticated(role, right, grant) == IF right /\ role \in grant THEN role ELSE NoRole

(* The limiter lets the login pass; users.yaml and permissions.yaml are    *)
(* read, and the password check begins.                                    *)
Admit(t, a, u, right, grant) ==
    /\ attempt[t] = NoAttempt
    /\ Allows(a)
    /\ failures' = [failures EXCEPT ![a] = Pruned(@)]
    /\ attempt' = [attempt EXCEPT ![t] =
            [address |-> a, user |-> u, role |-> Authenticated(users[u], right, grant),
             since |-> 0]]
    /\ UNCHANGED <<users, tokens, wrong, lapsed>>

(* A ConfigError answers 503 before anything is counted.                   *)
ConfigBroken(t, a) ==
    /\ attempt[t] = NoAttempt
    /\ Allows(a)
    /\ failures' = [failures EXCEPT ![a] = Pruned(@)]
    /\ UNCHANGED <<users, attempt, tokens, wrong, lapsed>>

(* Fault: a refused attempt counts as a failure.                           *)
LockedOutCounting(t, a) ==
    /\ attempt[t] = NoAttempt
    /\ ~Allows(a)
    /\ failures' = [failures EXCEPT ![a] = Append(Tail(Pruned(@)), 0)]
    /\ UNCHANGED <<users, attempt, tokens, wrong, lapsed>>

(* The budget is spent: 429, and the password is not looked at.            *)
LockedOut(t, a) ==
    /\ attempt[t] = NoAttempt
    /\ ~Allows(a)
    /\ failures' = [failures EXCEPT ![a] = Pruned(@)]
    /\ UNCHANGED <<users, attempt, tokens, wrong, lapsed>>

(* 401 or 403, counted against the address.                                *)
Refuse(t) ==
    /\ attempt[t] # NoAttempt
    /\ attempt[t].role = NoRole
    /\ LET a == attempt[t].address IN
         /\ failures' = [failures EXCEPT ![a] = Append(@, 0)]
         /\ wrong' = [wrong EXCEPT ![a] = Append(@, 0)]
    /\ attempt' = [attempt EXCEPT ![t] = NoAttempt]
    /\ UNCHANGED <<users, tokens, lapsed>>

(* issue_token: "exp" counts from the moment of issue.                     *)
Token(l) == [user |-> l.user, role |-> l.role, left |-> TTL]

(* Fault: the outcome of authenticate is not looked at.                    *)
SucceedAnyway(t) ==
    /\ attempt[t] # NoAttempt
    /\ LET a == attempt[t].address IN
         /\ failures' = [failures EXCEPT ![a] = <<>>]
         /\ wrong' = [wrong EXCEPT ![a] = <<>>]
    /\ tokens' = tokens \cup {Token(attempt[t])}
    /\ attempt' = [attempt EXCEPT ![t] = NoAttempt]
    /\ UNCHANGED <<users, lapsed>>

(* record_success forgets the failures of the address.                     *)
Succeed(t) ==
    /\ attempt[t] # NoAttempt
    /\ attempt[t].role # NoRole
    /\ LET a == attempt[t].address IN
         /\ failures' = [failures EXCEPT ![a] = <<>>]
         /\ wrong' = [wrong EXCEPT ![a] = <<>>]
    /\ tokens' = tokens \cup {Token(attempt[t])}
    /\ attempt' = [attempt EXCEPT ![t] = NoAttempt]
    /\ UNCHANGED <<users, lapsed>>

(* Fault: a token is good for one tick more.                               *)
VerifiableLate(ks) == {k \in ks : k.left >= 0}

(* verify_token refuses a token whose time is over; it is then no better   *)
(* than none.                                                              *)
Verifiable(ks) == {k \in ks : k.left > 0}

(* current_principal: whom a bearer token speaks for.  users.yaml is not   *)
(* asked again.                                                            *)
Principals == {[user |-> k.user, role |-> k.role] : k \in tokens}

(* An operator gives a user another role, or removes the user.             *)
SaveUsers(u, r) ==
    /\ users' = [users EXCEPT ![u] = r]
    /\ lapsed' = [lapsed EXCEPT ![u] = [q \in Roles |-> IF q = r THEN 0 ELSE @[q]]]
    /\ UNCHANGED <<failures, attempt, tokens, wrong>>

(* A tick passes.  A thread is not kept waiting for longer than CheckTime. *)
Tick ==
    /\ \A t \in Threads : attempt[t] # NoAttempt => attempt[t].since < CheckTime
    /\ attempt' = [t \in Threads |->
            IF attempt[t] = NoAttempt THEN NoAttempt
            ELSE [attempt[t] EXCEPT !.since = @ + 1]]
    /\ failures' = [a \in Addresses |->
            [i \in DOMAIN failures[a] |->
                IF InWindow(failures[a][i]) THEN failures[a][i] + 1 ELSE failures[a][i]]]
    /\ wrong' = [a \in Addresses |-> Kept(Older(wrong[a]), 0..Window)]
    /\ tokens' = Verifiable({[k EXCEPT !.left = @ - 1] : k \in tokens})
    /\ lapsed' = [u \in Users |-> [r \in Roles |->
            IF users[u] = r THEN 0
            ELSE IF lapsed[u][r] < TTL + CheckTime THEN lapsed[u][r] + 1 ELSE lapsed[u][r]]]
    /\ UNCHANGED users

(* The process is restarted: logins under way and the limiter's memory are *)
(* gone; tokens stay valid unless the secret was changed.                  *)
Restart(sameSecret) ==
    /\ attempt' = [t \in Threads |-> NoAttempt]
    /\ failures' = [a \in Addresses |-> <<>>]
    /\ wrong' = [a \in Addresses |-> <<>>]
    /\ tokens' = IF sameSecret THEN tokens ELSE {}
    /\ UNCHANGED <<users, lapsed>>

Finish(t) == Refuse(t) \/ Succeed(t)

Next ==
    \/ \E t \in Threads, a \in Addresses :
         \/ \E u \in Users, right \in BOOLEAN, grant \in Grants : Admit(t, a, u, right, grant)
         \/ ConfigBroken(t, a)
         \/ LockedOut(t, a)
    \/ \E t \in Threads : Finish(t)
    \/ \E u \in Users, r \in Roles \cup {NoRole} : SaveUsers(u, r)
    \/ Tick
    \/ \E sameSecret \in BOOLEAN : Restart(sameSecret)

Spec == Init /\ [][Next]_vars

(* A thread that checks a password gets to its answer, and time passes.    *)
FairLogin == Spec /\ WF_vars(Tick) /\ \A t \in Threads : WF_vars(Finish(t))

-----------------------------------------------------------------------------
(* Ages, attempts and tokens stay in their ranges: a token is dropped with *)
(* its last tick, and a login outlives no more ticks than CheckTime.       *)
LoginTypeOK ==
    /\ users \in [Users -> Roles \cup {NoRole}]
    /\ failures \in [Addresses -> Seq(0..(Window + 1))]
    /\ attempt \in [Threads -> Attempts \cup {NoAttempt}]
    /\ tokens \subseteq [user : Users, role : Roles, left : 1..TTL]
    /\ lapsed \in [Users -> [Roles -> Lapse]]

(* The budget of an address, asked before the slow password check and      *)
(* charged after it: 429 is the answer exactly when the address itself had *)
(* max_failures wrong answers within the window and no success since       *)
(* (neither another address's failures, nor old ones, nor refused attempts *)
(* lock it out), and what concurrent attempts can get past it is at most   *)
(* one more wrong answer for each thread.                                  *)
LimiterHolds ==
    \A a \in Addresses :
        /\ Allows(a) <=> Len(wrong[a]) < MaxFailures
        /\ Len(wrong[a]) <= MaxFailures - 1 + Cardinality(Threads)

(* A token is believed without asking users.yaml again, so a role taken    *)
(* from a user is still honoured, but never for longer than a token lives  *)
(* and a login takes.                                                      *)
RoleIsRecent == \A p \in Principals : lapsed[p.user][p.role] < TTL + CheckTime

(* A lockout ends, however often the locked-out client tries meanwhile.    *)
LockoutEnds == \A a \in Addresses : ~Allows(a) ~> Allows(a)
=============================================================================
