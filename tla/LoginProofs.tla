----------------------------- MODULE LoginProofs -----------------------------
(***************************************************************************)
(* What is proved of module Login, for any threads, users, roles, budget,  *)
(* window and life of a token.  A token's role is recent because a login  *)
(* and a token each say how long ago they saw the role in users.yaml       *)
(* (LoginInv); the limiter is exact because its entries are in the order   *)
(* they were counted, so that what is pruned from the head is all that has *)
(* left the window (LimiterInv).                                           *)
(***************************************************************************)
EXTENDS Login, SubsequenceProofs, FiniteSetTheorems, SequenceTheorems, TLAPS

(* The role a user has now is not out of date.                             *)
CurrentIsFresh == \A u \in Users : users[u] # NoRole => lapsed[u][users[u]] = 0

(* A login under way holds a role its user had when it began, so one that  *)
(* was taken away no longer ago.                                           *)
AttemptIsRecent ==
    \A t \in Threads : attempt[t] # NoAttempt /\ attempt[t].role # NoRole =>
        lapsed[attempt[t].user][attempt[t].role] <= attempt[t].since

(* A token holds a role that was taken away before the token was issued by *)
(* no more than a login takes.                                             *)
TokenIsRecent ==
    \A k \in tokens : lapsed[k.user][k.role] <= (TTL - k.left) + CheckTime

LoginInv == LoginTypeOK /\ CurrentIsFresh /\ AttemptIsRecent /\ TokenIsRecent

-----------------------------------------------------------------------------
(* Pruning a sequence of ages leaves a sequence of ages.                   *)
LEMMA PrunedType ==
    ASSUME NEW S, NEW ages \in Seq(S)
    PROVE  Pruned(ages) \in Seq(S)
<1> DEFINE old == {i \in DOMAIN ages : \A j \in 1..i : ~InWindow(ages[j])}
<1>1. IsFiniteSet(1..Len(ages)) /\ Cardinality(1..Len(ages)) = Len(ages)
  <2> DEFINE n == Len(ages)
  <2>1. n \in Nat
    OBVIOUS
  <2> HIDE DEF n
  <2>2. 1 \in Int /\ n \in Int
    BY ONLY <2>1
  <2>3. /\ IsFiniteSet(1..n)
        /\ Cardinality(1..n) = IF 1 > n THEN 0 ELSE n - 1 + 1
    BY ONLY <2>2, FS_Interval
  <2>4. IsFiniteSet(1..n) /\ Cardinality(1..n) = n
    BY ONLY <2>1, <2>3
  <2> QED
    BY <2>4 DEF n
<1>2. old \subseteq 1..Len(ages)
  OBVIOUS
<1>3. Cardinality(old) \in Nat /\ Cardinality(old) <= Len(ages)
  BY <1>1, <1>2, FS_Subset, FS_CardinalityType
<1> HIDE DEF old
<1>4. SubSeq(ages, Cardinality(old) + 1, Len(ages)) \in Seq(S)
  <2>1. \A i \in Cardinality(old) + 1 .. Len(ages) : ages[i] \in S
    BY <1>3
  <2> QED
    BY <1>3, <2>1, SubSeqProperties
<1> QED
  BY <1>4 DEF Pruned, old

(* Whoever is given a role by authenticate has it.                         *)
LEMMA AuthenticatedRole ==
    ASSUME NEW role \in Roles \cup {NoRole}, NEW right \in BOOLEAN, NEW grant \in Grants
    PROVE  /\ Authenticated(role, right, grant) \in Roles \cup {NoRole}
           /\ Authenticated(role, right, grant) \in {role, NoRole}
BY DEF Authenticated

(* Initially nobody is logged in and every role given is fresh.            *)
LEMMA LoginInitInv == Init => LoginInv
<1> SUFFICES ASSUME Init PROVE LoginInv
  OBVIOUS
<1> USE LoginAssumption DEF Init
<1>1. LoginTypeOK
  <2>1. <<>> \in Seq(0..(Window + 1))
    OBVIOUS
  <2>2. lapsed \in [Users -> [Roles -> Lapse]]
    BY DEF Lapse
  <2> QED
    BY <2>1, <2>2 DEF LoginTypeOK
<1>2. CurrentIsFresh
  BY DEF CurrentIsFresh
<1> QED
  BY <1>1, <1>2 DEF LoginInv, AttemptIsRecent, TokenIsRecent

(* A login begins with the role its user has now.                          *)
LEMMA AdmitInv ==
    ASSUME LoginInv, NEW t \in Threads, NEW a \in Addresses, NEW u \in Users,
           NEW right \in BOOLEAN, NEW grant \in Grants, Admit(t, a, u, right, grant)
    PROVE  LoginInv'
<1> USE DEF LoginInv
<1> DEFINE role == Authenticated(users[u], right, grant)
           begun == [address |-> a, user |-> u, role |-> role, since |-> 0]
<1>1. role \in Roles \cup {NoRole} /\ role \in {users[u], NoRole}
  BY AuthenticatedRole DEF LoginTypeOK
<1> HIDE DEF role
<1>2. begun \in Attempts
  BY <1>1, LoginAssumption DEF Attempts
<1>3. attempt' = [attempt EXCEPT ![t] = begun]
  BY DEF Admit, role
<1>4. LoginTypeOK'
  <2>1. Pruned(failures[a]) \in Seq(0..(Window + 1))
    BY PrunedType DEF LoginTypeOK
  <2> QED
    BY <1>2, <1>3, <2>1 DEF LoginTypeOK, Admit
<1>5. AttemptIsRecent'
  <2> SUFFICES ASSUME NEW q \in Threads, attempt'[q] # NoAttempt, attempt'[q].role # NoRole
               PROVE  lapsed[attempt'[q].user][attempt'[q].role] <= attempt'[q].since
    BY DEF AttemptIsRecent, Admit
  <2>1. CASE q = t
    BY <1>1, <1>3, <2>1 DEF CurrentIsFresh, LoginTypeOK
  <2>2. CASE q # t
    BY <1>3, <2>2 DEF AttemptIsRecent, LoginTypeOK
  <2> QED
    BY <2>1, <2>2
<1> QED
  BY <1>4, <1>5 DEF CurrentIsFresh, TokenIsRecent, Admit

(* What only prunes or counts failures changes nothing else.               *)
LEMMA CountingInv ==
    ASSUME LoginInv, NEW a \in Addresses,
           failures' = [failures EXCEPT ![a] = Pruned(@)],
           UNCHANGED <<users, attempt, tokens, wrong, lapsed>>
    PROVE  LoginInv'
<1> USE DEF LoginInv
<1>1. Pruned(failures[a]) \in Seq(0..(Window + 1))
  BY PrunedType DEF LoginTypeOK
<1> QED
  BY <1>1 DEF LoginTypeOK, CurrentIsFresh, AttemptIsRecent, TokenIsRecent

(* A refused login leaves its thread and no token.                         *)
LEMMA RefuseInv ==
    ASSUME LoginInv, NEW t \in Threads, Refuse(t)
    PROVE  LoginInv'
<1> USE DEF LoginInv
<1>1. attempt[t] \in Attempts
  BY DEF Refuse, LoginTypeOK
<1> DEFINE a == attempt[t].address
<1>2. a \in Addresses
  BY <1>1 DEF Attempts
<1>3. failures' = [failures EXCEPT ![a] = Append(@, 0)]
  BY DEF Refuse
<1> HIDE DEF a
<1>4. Append(failures[a], 0) \in Seq(0..(Window + 1))
  BY <1>2, LoginAssumption DEF LoginTypeOK
<1>5. LoginTypeOK'
  BY <1>2, <1>3, <1>4 DEF LoginTypeOK, Refuse
<1>6. \A q \in Threads : attempt'[q] # NoAttempt => attempt'[q] = attempt[q]
  BY DEF Refuse, LoginTypeOK
<1> QED
  BY <1>5, <1>6 DEF CurrentIsFresh, AttemptIsRecent, TokenIsRecent, Refuse

(* A token is issued with the role the login began with.                   *)
LEMMA SucceedInv ==
    ASSUME LoginInv, NEW t \in Threads, Succeed(t)
    PROVE  LoginInv'
<1> USE DEF LoginInv
<1>1. attempt[t] \in Attempts /\ attempt[t].role \in Roles
  BY DEF Succeed, LoginTypeOK, Attempts
<1> DEFINE a == attempt[t].address
<1>2. failures' = [failures EXCEPT ![a] = <<>>] /\ a \in Addresses
  BY <1>1 DEF Succeed, Attempts
<1> HIDE DEF a
<1>3. Token(attempt[t]) \in [user : Users, role : Roles, left : 1..TTL]
  BY <1>1, LoginAssumption DEF Token, Attempts
<1>4. LoginTypeOK'
  <2>1. <<>> \in Seq(0..(Window + 1))
    OBVIOUS
  <2> QED
    BY <1>2, <1>3, <2>1 DEF LoginTypeOK, Succeed
<1>5. \A q \in Threads : attempt'[q] # NoAttempt => attempt'[q] = attempt[q]
  BY DEF Succeed, LoginTypeOK
<1>6. lapsed[attempt[t].user][attempt[t].role] <= CheckTime
  <2>1. lapsed[attempt[t].user][attempt[t].role] <= attempt[t].since
    BY DEF AttemptIsRecent, Succeed
  <2>2. lapsed[attempt[t].user][attempt[t].role] \in Lapse
    BY <1>1 DEF LoginTypeOK, Attempts
  <2> QED
    BY <1>1, <2>1, <2>2, LoginAssumption DEF Attempts, Lapse
<1>7. TokenIsRecent'
  <2> SUFFICES ASSUME NEW k \in tokens'
               PROVE  lapsed[k.user][k.role] <= (TTL - k.left) + CheckTime
    BY DEF TokenIsRecent, Succeed
  <2>1. CASE k \in tokens
    BY <2>1 DEF TokenIsRecent
  <2>2. CASE k = Token(attempt[t])
    BY <1>6, <2>2, LoginAssumption DEF Token
  <2> QED
    BY <2>1, <2>2 DEF Succeed
<1> QED
  BY <1>4, <1>5, <1>7 DEF CurrentIsFresh, AttemptIsRecent, Succeed

(* A user's role is changed: the new one is fresh, the others keep their   *)
(* age.                                                                    *)
LEMMA SaveUsersInv ==
    ASSUME LoginInv, NEW u \in Users, NEW r \in Roles \cup {NoRole}, SaveUsers(u, r)
    PROVE  LoginInv'
<1> USE DEF LoginInv
<1>1. \A v \in Users, q \in Roles :
        /\ lapsed'[v][q] \in Lapse
        /\ lapsed'[v][q] <= lapsed[v][q]
        /\ lapsed'[v][q] = IF v = u /\ q = r THEN 0 ELSE lapsed[v][q]
  BY LoginAssumption DEF SaveUsers, LoginTypeOK, Lapse
<1>2. LoginTypeOK'
  <2>1. lapsed' \in [Users -> [Roles -> Lapse]]
    BY LoginAssumption DEF SaveUsers, LoginTypeOK, Lapse
  <2> QED
    BY <2>1 DEF LoginTypeOK, SaveUsers
<1>3. CurrentIsFresh'
  BY <1>1 DEF CurrentIsFresh, SaveUsers, LoginTypeOK
<1>4. AttemptIsRecent'
  <2> SUFFICES ASSUME NEW t \in Threads, attempt[t] # NoAttempt, attempt[t].role # NoRole
               PROVE  lapsed'[attempt[t].user][attempt[t].role] <= attempt[t].since
    BY DEF AttemptIsRecent, SaveUsers
  <2>1. attempt[t].user \in Users /\ attempt[t].role \in Roles /\ attempt[t].since \in Int
    BY DEF LoginTypeOK, Attempts
  <2> QED
    BY <1>1, <2>1, LoginAssumption DEF AttemptIsRecent, Lapse, LoginTypeOK
<1>5. TokenIsRecent'
  <2> SUFFICES ASSUME NEW k \in tokens
               PROVE  lapsed'[k.user][k.role] <= (TTL - k.left) + CheckTime
    BY DEF TokenIsRecent, SaveUsers
  <2>1. k.user \in Users /\ k.role \in Roles /\ k.left \in Int
    BY DEF LoginTypeOK
  <2> DEFINE was == lapsed[k.user][k.role]
             is == lapsed'[k.user][k.role]
             bound == (TTL - k.left) + CheckTime
  <2>2. was <= bound
    BY DEF TokenIsRecent
  <2>3. is <= was /\ was \in Int /\ is \in Int
    BY <1>1, <2>1, LoginAssumption DEF LoginTypeOK, Lapse
  <2>4. bound \in Int
    BY <2>1, LoginAssumption
  <2> HIDE DEF was, is, bound
  <2>5. is <= bound
    BY ONLY <2>2, <2>3, <2>4
  <2> QED
    BY <2>5 DEF is, bound
<1> QED
  BY <1>2, <1>3, <1>4, <1>5

(* A tick: a role that was taken away, a login and a token all become a    *)
(* tick older, and a token without time left is dropped.                   *)
LEMMA TickInv ==
    ASSUME LoginInv, Tick
    PROVE  LoginInv'
<1> USE DEF LoginInv
<1>1. \A u \in Users, q \in Roles :
        /\ lapsed'[u][q] \in Lapse
        /\ lapsed'[u][q] <= lapsed[u][q] + 1
        /\ users[u] = q => lapsed'[u][q] = 0
  BY LoginAssumption DEF Tick, LoginTypeOK, Lapse
<1>2. \A t \in Threads : attempt[t] # NoAttempt =>
        /\ attempt[t] \in Attempts
        /\ attempt'[t] \in Attempts
        /\ attempt'[t].user = attempt[t].user /\ attempt'[t].role = attempt[t].role
        /\ attempt'[t].since = attempt[t].since + 1
  <2> SUFFICES ASSUME NEW t \in Threads, attempt[t] # NoAttempt
               PROVE  /\ attempt[t] \in Attempts
                      /\ attempt'[t] \in Attempts
                      /\ attempt'[t].user = attempt[t].user
                      /\ attempt'[t].role = attempt[t].role
                      /\ attempt'[t].since = attempt[t].since + 1
    OBVIOUS
  <2>1. attempt[t] \in Attempts
    BY DEF LoginTypeOK
  <2>2. attempt'[t] = [attempt[t] EXCEPT !.since = @ + 1]
    BY DEF Tick
  <2>3. attempt[t].since < CheckTime
    BY DEF Tick
  <2> QED
    BY <2>1, <2>2, <2>3, LoginAssumption DEF Attempts
<1>3. \A k \in tokens' : \E old \in tokens :
        /\ k \in [user : Users, role : Roles, left : 1..TTL]
        /\ k.user = old.user /\ k.role = old.role /\ k.left = old.left - 1
  <2> SUFFICES ASSUME NEW k \in tokens'
               PROVE  \E old \in tokens :
                        /\ k \in [user : Users, role : Roles, left : 1..TTL]
                        /\ k.user = old.user /\ k.role = old.role
                        /\ k.left = old.left - 1
    OBVIOUS
  <2>1. PICK old \in tokens : k = [old EXCEPT !.left = @ - 1] /\ k.left > 0
    BY DEF Tick, Verifiable
  <2>2. old \in [user : Users, role : Roles, left : 1..TTL]
    BY DEF LoginTypeOK
  <2> QED
    BY <2>1, <2>2, LoginAssumption
<1>4. LoginTypeOK'
  <2>1. failures' \in [Addresses -> Seq(0..(Window + 1))]
    <3> SUFFICES ASSUME NEW a \in Addresses
                 PROVE  failures'[a] \in Seq(0..(Window + 1))
      BY DEF Tick
    <3>1. failures[a] \in Seq(0..(Window + 1))
      BY DEF LoginTypeOK
    <3>2. \A i \in 1..Len(failures[a]) :
            (IF InWindow(failures[a][i]) THEN failures[a][i] + 1 ELSE failures[a][i])
              \in 0..(Window + 1)
      BY <3>1, LoginAssumption DEF InWindow
    <3> DEFINE aged == [i \in 1..Len(failures[a]) |->
                          IF InWindow(failures[a][i]) THEN failures[a][i] + 1
                          ELSE failures[a][i]]
    <3>3. failures'[a] = aged
      BY <3>1 DEF Tick
    <3>4. aged \in [1..Len(failures[a]) -> 0..(Window + 1)]
      BY <3>2
    <3>5. Len(failures[a]) \in Nat
      BY <3>1
    <3> HIDE DEF aged
    <3>6. aged \in Seq(0..(Window + 1))
      BY <3>4, <3>5, SeqDef
    <3> QED
      BY <3>3, <3>6
  <2>2. lapsed' \in [Users -> [Roles -> Lapse]]
    BY <1>1 DEF Tick
  <2>3. attempt' \in [Threads -> Attempts \cup {NoAttempt}]
    BY <1>2 DEF Tick
  <2> QED
    BY <1>3, <2>1, <2>2, <2>3 DEF LoginTypeOK, Tick
<1>5. CurrentIsFresh'
  BY <1>1 DEF CurrentIsFresh, Tick, LoginTypeOK
<1>6. AttemptIsRecent'
  <2> SUFFICES ASSUME NEW t \in Threads, attempt'[t] # NoAttempt, attempt'[t].role # NoRole
               PROVE  lapsed'[attempt'[t].user][attempt'[t].role] <= attempt'[t].since
    BY DEF AttemptIsRecent
  <2>1. attempt[t] # NoAttempt
    BY DEF Tick
  <2>2. attempt[t].user \in Users /\ attempt[t].role \in Roles /\ attempt[t].since \in Int
    BY <1>2, <2>1 DEF Attempts
  <2>3. lapsed[attempt[t].user][attempt[t].role] <= attempt[t].since
    BY <1>2, <2>1 DEF AttemptIsRecent
  <2> QED
    BY <1>1, <1>2, <2>1, <2>2, <2>3, LoginAssumption DEF Lapse, LoginTypeOK
<1>7. TokenIsRecent'
  <2> SUFFICES ASSUME NEW k \in tokens'
               PROVE  lapsed'[k.user][k.role] <= (TTL - k.left) + CheckTime
    BY DEF TokenIsRecent
  <2>1. PICK old \in tokens : /\ k \in [user : Users, role : Roles, left : 1..TTL]
                              /\ k.user = old.user /\ k.role = old.role
                              /\ k.left = old.left - 1
    BY <1>3
  <2>2. lapsed[k.user][k.role] <= (TTL - old.left) + CheckTime
    BY <2>1 DEF TokenIsRecent
  <2>3. lapsed[k.user][k.role] \in Int /\ old.left \in Int
    BY <2>1, LoginAssumption DEF LoginTypeOK, Lapse
  <2> QED
    BY <1>1, <2>1, <2>2, <2>3, LoginAssumption DEF Lapse
<1> QED
  BY <1>4, <1>5, <1>6, <1>7

(* A restart forgets logins and failures, not tokens.                      *)
LEMMA RestartInv ==
    ASSUME LoginInv, NEW sameSecret \in BOOLEAN, Restart(sameSecret)
    PROVE  LoginInv'
<1> USE DEF LoginInv
<1>1. <<>> \in Seq(0..(Window + 1))
  OBVIOUS
<1>2. tokens' \subseteq tokens
  BY DEF Restart
<1>3. LoginTypeOK'
  BY <1>1, <1>2 DEF LoginTypeOK, Restart
<1>4. AttemptIsRecent'
  BY DEF AttemptIsRecent, Restart
<1> QED
  BY <1>2, <1>3, <1>4 DEF CurrentIsFresh, TokenIsRecent, Restart

(* Every step keeps the invariant.                                         *)
LEMMA LoginNextInv == LoginInv /\ [Next]_vars => LoginInv'
<1> SUFFICES ASSUME LoginInv, [Next]_vars PROVE LoginInv'
  OBVIOUS
<1>1. ASSUME NEW t \in Threads, NEW a \in Addresses, NEW u \in Users,
             NEW right \in BOOLEAN, NEW grant \in Grants, Admit(t, a, u, right, grant)
      PROVE  LoginInv'
  BY <1>1, AdmitInv
<1>2. ASSUME NEW t \in Threads, NEW a \in Addresses, ConfigBroken(t, a) PROVE LoginInv'
  BY <1>2, CountingInv DEF ConfigBroken
<1>3. ASSUME NEW t \in Threads, NEW a \in Addresses, LockedOut(t, a) PROVE LoginInv'
  BY <1>3, CountingInv DEF LockedOut
<1>4. ASSUME NEW t \in Threads, Finish(t) PROVE LoginInv'
  BY <1>4, RefuseInv, SucceedInv DEF Finish
<1>5. ASSUME NEW u \in Users, NEW r \in Roles \cup {NoRole}, SaveUsers(u, r) PROVE LoginInv'
  BY <1>5, SaveUsersInv
<1>6. CASE Tick
  BY <1>6, TickInv
<1>7. ASSUME NEW sameSecret \in BOOLEAN, Restart(sameSecret) PROVE LoginInv'
  BY <1>7, RestartInv
<1>8. CASE UNCHANGED vars
  BY <1>8 DEF vars, LoginInv, LoginTypeOK, CurrentIsFresh, AttemptIsRecent, TokenIsRecent
<1> QED
  BY <1>1, <1>2, <1>3, <1>4, <1>5, <1>6, <1>7, <1>8 DEF Next

(* The invariant holds of every behaviour.                                 *)
THEOREM LoginInvariant == Spec => []LoginInv
BY LoginInitInv, LoginNextInv, PTL DEF Spec

(* Ages, logins and tokens stay in their ranges.                           *)
THEOREM LoginTypeCorrect == Spec => []LoginTypeOK
<1>1. LoginInv => LoginTypeOK
  BY DEF LoginInv
<1> QED
  BY <1>1, LoginInvariant, PTL

(* A role that was taken from a user is honoured for no longer than a      *)
(* token lives and a login takes.                                          *)
THEOREM RolesAreRecent == Spec => []RoleIsRecent
<1>1. LoginInv => RoleIsRecent
  <2> SUFFICES ASSUME LoginInv, NEW k \in tokens
               PROVE  lapsed[k.user][k.role] < TTL + CheckTime
    BY DEF RoleIsRecent, Principals
  <2>1. lapsed[k.user][k.role] <= (TTL - k.left) + CheckTime
    BY DEF LoginInv, TokenIsRecent
  <2>2. k.left \in 1..TTL /\ lapsed[k.user][k.role] \in Lapse
    BY DEF LoginInv, LoginTypeOK
  <2> QED
    BY <2>1, <2>2, LoginAssumption DEF Lapse
<1> QED
  BY <1>1, LoginInvariant, PTL

-----------------------------------------------------------------------------
(* The limiter.                                                            *)

(* Oldest first: no entry is younger than one that follows it.             *)
OldestFirst(ages) == \A i, j \in 1..Len(ages) : i <= j => ages[j] <= ages[i]

(* The logins of an address that are being checked.                        *)
Checking(a) == {t \in Threads : attempt[t] # NoAttempt /\ attempt[t].address = a}

(* What the limiter has left of an address, once pruned, is its wrong      *)
(* answers inside the window; and the wrong answers still to come from the *)
(* logins it let pass are counted in.                                      *)
Within(a) ==
    /\ OldestFirst(failures[a])
    /\ wrong[a] = Pruned(failures[a])
    /\ Len(wrong[a]) + Cardinality(Checking(a)) <= MaxFailures - 1 + Cardinality(Threads)

LimiterInv == DOMAIN wrong = Addresses /\ \A a \in Addresses : Within(a)

(* The first k entries have left the window, the others have not.          *)
Split(ages, k) ==
    /\ \A i \in 1..k : ~InWindow(ages[i])
    /\ \A i \in (k + 1)..Len(ages) : InWindow(ages[i])

-----------------------------------------------------------------------------
(* What is left after such a prefix is what pruning leaves.                *)
LEMMA PrunedIs ==
    ASSUME NEW ages \in Seq(Nat), NEW k \in 0..Len(ages), Split(ages, k)
    PROVE  Pruned(ages) = SubSeq(ages, k + 1, Len(ages))
<1> DEFINE old == {i \in DOMAIN ages : \A j \in 1..i : ~InWindow(ages[j])}
<1>1. old = 1..k
  <2>0. DOMAIN ages = 1..Len(ages) /\ Len(ages) \in Nat
    OBVIOUS
  <2>1. \A i \in 1..k : i \in old
    BY <2>0 DEF Split
  <2>2. ASSUME NEW i \in old PROVE i \in 1..k
    <3>1. i \in 1..Len(ages) /\ i \in 1..i /\ ~InWindow(ages[i])
      BY <2>0
    <3> HIDE DEF old
    <3> QED
      BY <2>0, <3>1 DEF Split
  <2> QED
    BY <2>1, <2>2
<1> HIDE DEF old
<1>2. Cardinality(1..k) = k
  <2>1. k \in Nat /\ 1 \in Int /\ k \in Int
    OBVIOUS
  <2>2. Cardinality(1..k) = IF 1 > k THEN 0 ELSE k - 1 + 1
    BY <2>1, FS_Interval
  <2> QED
    BY <2>1, <2>2
<1> QED
  BY <1>1, <1>2 DEF Pruned, old

(* Entries in the order they were counted split in this way.               *)
LEMMA SplitExists ==
    ASSUME NEW ages \in Seq(Nat), OldestFirst(ages)
    PROVE  \E k \in 0..Len(ages) : Split(ages, k)
<1> DEFINE n == Len(ages)
           inside == {i \in 1..n : InWindow(ages[i])}
<1>0. n \in Nat /\ \A i \in 1..n : ages[i] \in Nat
  OBVIOUS
<1>1. CASE inside = {}
  <2>1. n \in 0..n /\ Split(ages, n)
    BY <1>0, <1>1 DEF Split
  <2> QED
    BY <2>1
<1>2. CASE inside # {}
  <2>1. inside \subseteq 1..n
    OBVIOUS
  <2>2. PICK first \in inside : \A i \in inside : first <= i
    <3> HIDE DEF n, inside
    <3> QED
      BY <1>0, <1>2, <2>1, LeastMember
  <2>3. first - 1 \in 0..n /\ first \in 1..n /\ InWindow(ages[first])
    BY <1>0
  <2>4. \A i \in 1..(first - 1) : ~InWindow(ages[i])
    BY <1>0, <2>2
  <2>5. \A i \in first..n : InWindow(ages[i])
    BY <1>0, <2>3, LoginAssumption DEF OldestFirst, InWindow
  <2>6. Split(ages, first - 1)
    BY <2>3, <2>4, <2>5 DEF Split
  <2> QED
    BY <2>3, <2>6
<1> QED
  BY <1>1, <1>2

(* Pruning, as far as the limiter's steps need it: it leaves the tail of   *)
(* the entries, in order, and nothing to prune.                            *)
LEMMA PrunedTail ==
    ASSUME NEW ages \in Seq(Nat), OldestFirst(ages)
    PROVE  \E k \in 0..Len(ages) :
              /\ Split(ages, k)
              /\ Pruned(ages) \in Seq(Nat)
              /\ Len(Pruned(ages)) = Len(ages) - k
              /\ \A i \in 1..(Len(ages) - k) : Pruned(ages)[i] = ages[k + i]
<1>1. PICK k \in 0..Len(ages) : Split(ages, k)
  BY SplitExists
<1>2. Pruned(ages) = SubSeq(ages, k + 1, Len(ages))
  BY <1>1, PrunedIs
<1> DEFINE n == Len(ages)
<1>3. n \in Int /\ k + 1 \in Int /\ \A i \in (k + 1)..n : ages[i] \in Nat
  OBVIOUS
<1> HIDE DEF n
<1>4. /\ SubSeq(ages, k + 1, n) \in Seq(Nat)
      /\ Len(SubSeq(ages, k + 1, n)) = IF k + 1 <= n THEN n - (k + 1) + 1 ELSE 0
      /\ \A i \in 1..(n - (k + 1) + 1) : SubSeq(ages, k + 1, n)[i] = ages[(k + 1) + i - 1]
  BY <1>3, SubSeqProperties
<1> DEFINE tail == SubSeq(ages, k + 1, n)
<1>5. Pruned(ages) = tail
  BY <1>2 DEF n
<1>6. /\ tail \in Seq(Nat)
      /\ Len(tail) = n - k
      /\ \A i \in 1..(n - k) : tail[i] = ages[k + i]
  <2>1. tail \in Seq(Nat) /\ Len(tail) = IF k + 1 <= n THEN n - (k + 1) + 1 ELSE 0
    BY <1>4
  <2>2. \A i \in 1..(n - (k + 1) + 1) : tail[i] = ages[(k + 1) + i - 1]
    BY <1>4
  <2> HIDE DEF tail
  <2>3. k \in 0..n
    BY DEF n
  <2> QED
    BY <1>3, <2>1, <2>2, <2>3
<1> HIDE DEF tail
<1> QED
  BY <1>1, <1>5, <1>6 DEF n

(* Pruned entries are in order and there is nothing more to prune.         *)
LEMMA PrunedTwice ==
    ASSUME NEW ages \in Seq(Nat), OldestFirst(ages)
    PROVE  OldestFirst(Pruned(ages)) /\ Pruned(Pruned(ages)) = Pruned(ages)
<1> DEFINE p == Pruned(ages)
           n == Len(ages)
<1>1. PICK k \in 0..n :
         /\ Split(ages, k)
         /\ p \in Seq(Nat)
         /\ Len(p) = n - k
         /\ \A i \in 1..(n - k) : p[i] = ages[k + i]
  BY PrunedTail
<1>2. n \in Nat /\ k \in Nat /\ \A i \in 1..n : ages[i] \in Nat
  OBVIOUS
<1>3. Split(ages, k) /\ OldestFirst(ages)
  BY <1>1
<1> HIDE DEF p
<1>4. OldestFirst(p)
  <2> SUFFICES ASSUME NEW i \in 1..(n - k), NEW j \in 1..(n - k), i <= j
               PROVE  p[j] <= p[i]
    BY <1>1 DEF OldestFirst
  <2>1. k + i \in 1..n /\ k + j \in 1..n /\ k + i <= k + j
    BY <1>2
  <2> QED
    BY <1>1, <2>1 DEF OldestFirst
<1>5. Split(p, 0)
  <2> SUFFICES ASSUME NEW i \in 1..(n - k) PROVE InWindow(p[i])
    BY <1>1 DEF Split
  <2>1. k + i \in (k + 1)..n
    BY <1>2
  <2> QED
    BY <1>1, <2>1 DEF Split
<1>6. 0 \in 0..Len(p)
  BY <1>1
<1>7. Pruned(p) = SubSeq(p, 0 + 1, Len(p))
  BY <1>1, <1>5, <1>6, PrunedIs
<1>8. SubSeq(p, 0 + 1, Len(p)) = p
  BY <1>1
<1> QED
  BY <1>4, <1>7, <1>8 DEF p

(* A failure that is counted now is the youngest and inside the window.    *)
LEMMA PrunedAppend ==
    ASSUME NEW ages \in Seq(Nat), OldestFirst(ages)
    PROVE  /\ OldestFirst(Append(ages, 0))
           /\ Pruned(Append(ages, 0)) = Append(Pruned(ages), 0)
<1> DEFINE p == Pruned(ages)
           n == Len(ages)
           more == Append(ages, 0)
<1>1. PICK k \in 0..n :
         /\ Split(ages, k)
         /\ p \in Seq(Nat)
         /\ Len(p) = n - k
         /\ \A i \in 1..(n - k) : p[i] = ages[k + i]
  BY PrunedTail
<1>2. n \in Nat /\ k \in Nat /\ \A i \in 1..n : ages[i] \in Nat
  OBVIOUS
<1>3. /\ more \in Seq(Nat) /\ Len(more) = n + 1 /\ more[n + 1] = 0
      /\ \A i \in 1..n : more[i] = ages[i]
  OBVIOUS
<1> HIDE DEF p, more
<1>4. OldestFirst(more)
  <2> SUFFICES ASSUME NEW i \in 1..(n + 1), NEW j \in 1..(n + 1), i <= j
               PROVE  more[j] <= more[i]
    BY <1>3 DEF OldestFirst
  <2>1. CASE j = n + 1
    <3>1. more[i] \in Nat
      BY <1>3
    <3> QED
      BY <1>3, <2>1, <3>1
  <2>2. CASE j # n + 1
    <3>1. i \in 1..n /\ j \in 1..n
      BY <1>2, <2>2
    <3> QED
      BY <1>3, <3>1 DEF OldestFirst
  <2> QED
    BY <2>1, <2>2
<1>5. Split(more, k)
  <2>1. ASSUME NEW i \in 1..k PROVE ~InWindow(more[i])
    <3>1. i \in 1..n
      BY <1>2
    <3> QED
      BY <1>1, <1>3, <3>1 DEF Split
  <2>2. ASSUME NEW i \in (k + 1)..(n + 1) PROVE InWindow(more[i])
    <3>1. CASE i = n + 1
      BY <1>3, <3>1, LoginAssumption DEF InWindow
    <3>2. CASE i # n + 1
      <4>1. i \in (k + 1)..n /\ i \in 1..n
        BY <1>2, <3>2
      <4> QED
        BY <1>1, <1>3, <4>1 DEF Split
    <3> QED
      BY <3>1, <3>2
  <2> QED
    BY <1>3, <2>1, <2>2 DEF Split
<1>6. Pruned(more) = SubSeq(more, k + 1, n + 1)
  <2>1. k \in 0..Len(more)
    BY <1>2, <1>3
  <2>2. Pruned(more) = SubSeq(more, k + 1, Len(more))
    BY <1>3, <1>5, <2>1, PrunedIs
  <2> QED
    BY <1>3, <2>2
<1> DEFINE tail == SubSeq(more, k + 1, n + 1)
           last == n + 1
<1>7. /\ tail \in Seq(Nat) /\ Len(tail) = n + 1 - k
      /\ \A i \in 1..(n + 1 - k) : tail[i] = more[k + i]
  <2>1. last \in Int /\ k + 1 \in Int /\ \A i \in (k + 1)..last : more[i] \in Nat
    BY <1>2, <1>3
  <2>2. k + 1 <= last /\ last - (k + 1) + 1 = n + 1 - k
    BY <1>2
  <2>3. tail = SubSeq(more, k + 1, last)
    OBVIOUS
  <2> HIDE DEF last, tail
  <2>4. /\ SubSeq(more, k + 1, last) \in Seq(Nat)
        /\ Len(SubSeq(more, k + 1, last)) = IF k + 1 <= last THEN last - (k + 1) + 1 ELSE 0
        /\ \A i \in 1..(last - (k + 1) + 1) :
              SubSeq(more, k + 1, last)[i] = more[(k + 1) + i - 1]
    BY <2>1, SubSeqProperties
  <2>5. /\ tail \in Seq(Nat) /\ Len(tail) = n + 1 - k
        /\ \A i \in 1..(n + 1 - k) : tail[i] = more[(k + 1) + i - 1]
    BY <2>2, <2>3, <2>4
  <2>6. \A i \in 1..(n + 1 - k) : (k + 1) + i - 1 = k + i
    BY <1>2
  <2> QED
    BY <2>5, <2>6
<1>8. Append(p, 0) \in Seq(Nat) /\ Len(Append(p, 0)) = n + 1 - k
  BY <1>1, <1>2
<1>9. ASSUME NEW i \in 1..(n + 1 - k) PROVE tail[i] = Append(p, 0)[i]
  <2>1. tail[i] = more[k + i]
    BY <1>7
  <2>2. CASE i = n + 1 - k
    <3>1. k + i = n + 1 /\ i = Len(p) + 1
      BY <1>1, <1>2, <2>2
    <3>2. Append(p, 0)[Len(p) + 1] = 0
      BY <1>1
    <3>3. Append(p, 0)[i] = 0
      BY <3>1, <3>2
    <3> QED
      BY <1>3, <2>1, <3>1, <3>3
  <2>3. CASE i # n + 1 - k
    <3>1. i \in 1..(n - k) /\ k + i \in 1..n
      BY <1>2, <2>3
    <3>2. Append(p, 0)[i] = p[i]
      BY <1>1, <3>1
    <3> QED
      BY <1>1, <1>3, <2>1, <3>1, <3>2
  <2> QED
    BY <2>2, <2>3
<1> HIDE DEF tail
<1>10. tail = Append(p, 0)
  BY <1>7, <1>8, <1>9, SameSequence
<1> QED
  BY <1>4, <1>6, <1>10 DEF tail, p, more

(* No failures, nothing to prune.                                          *)
LEMMA PrunedNone == OldestFirst(<<>>) /\ Pruned(<<>>) = <<>>
<1> DEFINE none == <<>>
<1>1. none \in Seq(Nat) /\ Len(none) = 0
  OBVIOUS
<1>2. OldestFirst(none)
  BY <1>1 DEF OldestFirst
<1> HIDE DEF none
<1>3. PICK k \in 0..Len(none) : Pruned(none) \in Seq(Nat) /\ Len(Pruned(none)) = Len(none) - k
  BY <1>1, <1>2, PrunedTail
<1>4. Pruned(none) \in Seq(Nat) /\ Len(Pruned(none)) = 0
  <2>1. k = 0
    BY <1>1
  <2> QED
    BY <1>1, <1>3, <2>1
<1> DEFINE left == Pruned(none)
<1>5. left = none
  <2>1. left \in Seq(Nat) /\ none \in Seq(Nat) /\ Len(left) = Len(none)
        /\ \A i \in 1..Len(left) : left[i] = none[i]
    BY <1>1, <1>4
  <2> HIDE DEF left
  <2> QED
    BY <2>1, SameSequence
<1>6. Pruned(none) = none
  BY <1>5 DEF left
<1> QED
  BY <1>2, <1>6 DEF none

(* A tick: the entries grow older, those in the window by a tick, and what *)
(* pruning leaves of them is what the window leaves of the wrong answers.  *)
Aged(ages) == [i \in 1..Len(ages) |->
                 IF InWindow(ages[i]) THEN ages[i] + 1 ELSE ages[i]]

(* Growing older keeps the order of the entries, and those that had left   *)
(* the window have left it still.                                          *)
LEMMA AgedOldestFirst ==
    ASSUME NEW ages \in Seq(Nat), OldestFirst(ages)
    PROVE  /\ Aged(ages) \in Seq(Nat) /\ Len(Aged(ages)) = Len(ages)
           /\ OldestFirst(Aged(ages))
<1> DEFINE n == Len(ages)
<1>0. n \in Nat /\ \A i \in 1..n : ages[i] \in Nat
  OBVIOUS
<1>1. Aged(ages) \in [1..n -> Nat]
  BY <1>0 DEF Aged
<1>2. Aged(ages) \in Seq(Nat) /\ Len(Aged(ages)) = n
  <2> HIDE DEF n
  <2>1. Aged(ages) \in Seq(Nat)
    BY <1>0, <1>1, SeqDef
  <2> QED
    BY <1>0, <1>1, <2>1
<1>3. ASSUME NEW i \in 1..n, NEW j \in 1..n, i <= j PROVE Aged(ages)[j] <= Aged(ages)[i]
  <2>1. ages[j] <= ages[i] /\ ages[i] \in Nat /\ ages[j] \in Nat
    BY <1>0, <1>3 DEF OldestFirst
  <2> QED
    BY <2>1, LoginAssumption DEF Aged, InWindow
<1> QED
  BY <1>2, <1>3 DEF OldestFirst

(* Pruned after a tick, the entries are what the window leaves of the ones *)
(* pruned before it.                                                       *)
LEMMA PrunedAged ==
    ASSUME NEW ages \in Seq(Nat), OldestFirst(ages)
    PROVE  /\ Pruned(Aged(ages)) = Kept(Older(Pruned(ages)), 0..Window)
           /\ Len(Pruned(Aged(ages))) <= Len(Pruned(ages))
<1> DEFINE n == Len(ages)
           p == Pruned(ages)
           aged == Aged(ages)
           older == Older(p)
           left == Pruned(aged)
<1>0. n \in Nat /\ \A i \in 1..n : ages[i] \in Nat
  OBVIOUS
<1>1. PICK k \in 0..n :
         /\ Split(ages, k) /\ p \in Seq(Nat) /\ Len(p) = n - k
         /\ \A i \in 1..(n - k) : p[i] = ages[k + i]
  BY PrunedTail
<1>2. /\ aged \in Seq(Nat) /\ Len(aged) = n /\ OldestFirst(aged)
      /\ \A i \in 1..n : aged[i] = IF InWindow(ages[i]) THEN ages[i] + 1 ELSE ages[i]
  BY AgedOldestFirst DEF Aged
<1> HIDE DEF aged, p
<1>3. PICK m \in 0..n :
         /\ Split(aged, m) /\ left \in Seq(Nat) /\ Len(left) = n - m
         /\ \A i \in 1..(n - m) : left[i] = aged[m + i]
  BY <1>2, PrunedTail
<1> HIDE DEF left
<1>4. k <= m
  <2> SUFFICES ASSUME m < k PROVE FALSE
    OBVIOUS
  <2>1. m + 1 \in 1..k /\ m + 1 \in 1..n /\ m + 1 \in (m + 1)..n
    BY <1>0
  <2>2. ~InWindow(ages[m + 1])
    BY <1>1, <2>1 DEF Split
  <2>3. InWindow(aged[m + 1])
    <3>1. Split(aged, m) /\ Len(aged) = n
      BY <1>2, <1>3
    <3> QED
      BY <2>1, <3>1 DEF Split
  <2> QED
    BY <1>2, <2>1, <2>2, <2>3
<1>5. /\ older \in Seq(Nat) /\ Len(older) = n - k
      /\ \A i \in 1..(n - k) : older[i] = aged[k + i]
  <2>1. DOMAIN p = 1..(n - k) /\ n - k \in Nat
    BY <1>0, <1>1
  <2>2. older \in [1..(n - k) -> Nat]
    <3>1. \A i \in DOMAIN p : p[i] + 1 \in Nat
      BY <1>1
    <3> QED
      BY ONLY <2>1, <3>1 DEF Older
  <2>3. older \in Seq(Nat) /\ Len(older) = n - k
    <3> DEFINE length == n - k
    <3>1. length \in Nat /\ older \in [1..length -> Nat]
      BY <2>1, <2>2
    <3> HIDE DEF length
    <3> HIDE DEF older
    <3>2. older \in Seq(Nat)
      BY <3>1, SeqDef
    <3>3. Len(older) = length
      BY <3>1, <3>2
    <3> QED
      BY <3>2, <3>3 DEF length
  <2>4. ASSUME NEW i \in 1..(n - k) PROVE older[i] = aged[k + i]
    <3>1. k + i \in 1..n /\ k + i \in (k + 1)..n
      BY <1>0
    <3>2. InWindow(ages[k + i])
      BY <1>1, <3>1 DEF Split
    <3>3. aged[k + i] = ages[k + i] + 1
      BY <1>2, <3>1, <3>2
    <3>4. older[i] = p[i] + 1
      BY <2>1 DEF Older
    <3> QED
      BY <1>1, <3>3, <3>4
  <2> QED
    BY <2>3, <2>4
<1> HIDE DEF older
<1> DEFINE S == 0..Window
           gone == m - k
<1>6. /\ gone \in 0..Len(older)
      /\ \A i \in 1..gone : older[i] \notin S
      /\ \A i \in (gone + 1)..Len(older) : older[i] \in S
  <2>1. gone \in 0..Len(older)
    BY <1>0, <1>4, <1>5
  <2>2. ASSUME NEW i \in 1..gone PROVE older[i] \notin S
    <3>1. k + i \in 1..m /\ i \in 1..(n - k)
      BY <1>0, <1>4
    <3>2. ~InWindow(aged[k + i])
      BY <1>3, <3>1 DEF Split
    <3>3. older[i] = aged[k + i]
      BY <1>5, <3>1
    <3>4. ~(older[i] <= Window)
      BY <3>2, <3>3 DEF InWindow
    <3> QED
      BY <3>4, LoginAssumption
  <2>3. ASSUME NEW i \in (gone + 1)..Len(older) PROVE older[i] \in S
    <3>0. Len(older) = n - k
      BY <1>5
    <3>1. k + i \in (m + 1)..n /\ i \in 1..(n - k) /\ k + i \in 1..n
      BY <1>0, <1>4, <3>0
    <3>2. InWindow(aged[k + i])
      BY <1>2, <1>3, <3>1 DEF Split
    <3>3. aged[k + i] \in Nat
      <4>1. aged \in Seq(Nat) /\ Len(aged) = n
        BY <1>2
      <4> HIDE DEF n
      <4> QED
        BY ONLY <3>1, <4>1
    <3>4. older[i] = aged[k + i]
      BY <1>5, <3>1
    <3>5. aged[k + i] <= Window
      BY <3>2 DEF InWindow
    <3> QED
      BY <3>3, <3>4, <3>5, LoginAssumption
  <2> QED
    BY <2>1, <2>2, <2>3
<1> DEFINE length == Len(older)
           tail == SubSeq(older, gone + 1, length)
<1>7. Kept(older, S) = tail
  <2> HIDE DEF S, gone
  <2> QED
    BY <1>5, <1>6, KeptTail
<1>8. /\ tail \in Seq(Nat) /\ Len(tail) = n - m
      /\ \A i \in 1..(n - m) : tail[i] = older[gone + i]
  <2>1. /\ length \in Int /\ gone + 1 \in Int
        /\ \A i \in (gone + 1)..length : older[i] \in Nat
    BY <1>5, <1>6
  <2>2. /\ gone + 1 <= length => length - (gone + 1) + 1 = n - m
        /\ gone + 1 > length => n - m = 0
        /\ length - (gone + 1) + 1 = n - m
        /\ \A i \in 1..(n - m) : (gone + 1) + i - 1 = gone + i
    BY <1>0, <1>4, <1>5
  <2>3. gone \in Int /\ n \in Int /\ m \in Int
    BY <1>0
  <2> HIDE DEF length, gone
  <2>4. /\ SubSeq(older, gone + 1, length) \in Seq(Nat)
        /\ Len(SubSeq(older, gone + 1, length)) =
              IF gone + 1 <= length THEN length - (gone + 1) + 1 ELSE 0
        /\ \A i \in 1..(length - (gone + 1) + 1) :
              SubSeq(older, gone + 1, length)[i] = older[(gone + 1) + i - 1]
    BY <2>1, SubSeqProperties
  <2>5. tail = SubSeq(older, gone + 1, length)
    OBVIOUS
  <2> HIDE DEF tail
  <2>6. tail \in Seq(Nat) /\ Len(tail) = n - m
    BY <2>1, <2>2, <2>3, <2>4, <2>5
  <2>7. \A i \in 1..(n - m) : tail[i] = older[gone + i]
    BY <2>2, <2>4, <2>5
  <2> QED
    BY <2>6, <2>7
<1>9. ASSUME NEW i \in 1..(n - m) PROVE tail[i] = left[i]
  <2>1. gone + i \in 1..(n - k) /\ k + (gone + i) = m + i
    BY <1>0, <1>4
  <2>2. tail[i] = older[gone + i] /\ older[gone + i] = aged[k + (gone + i)]
    BY <1>5, <1>8, <2>1
  <2> QED
    BY <1>3, <2>1, <2>2
<1> HIDE DEF tail, gone
<1>10. tail = left
  BY <1>3, <1>8, <1>9, SameSequence
<1>11. Len(left) <= Len(p)
  BY <1>0, <1>1, <1>3, <1>4
<1> QED
  BY <1>7, <1>10, <1>11 DEF left, older, p, aged

-----------------------------------------------------------------------------
(* The limiter's invariant, step by step.                                  *)

(* Recorded ages are numbers, and a set of threads has a size.             *)
LEMMA LimiterTypes ==
    /\ LoginTypeOK => \A a \in Addresses : failures[a] \in Seq(Nat)
    /\ Cardinality(Threads) \in Nat
    /\ \A S \in SUBSET Threads :
          /\ IsFiniteSet(S) /\ Cardinality(S) \in Nat
          /\ Cardinality(S) <= Cardinality(Threads)
<1>1. ASSUME LoginTypeOK, NEW a \in Addresses PROVE failures[a] \in Seq(Nat)
  <2>1. failures[a] \in Seq(0..(Window + 1))
    BY <1>1 DEF LoginTypeOK
  <2> QED
    BY <2>1, LoginAssumption
<1>2. ASSUME NEW S \in SUBSET Threads
      PROVE  /\ IsFiniteSet(S) /\ Cardinality(S) \in Nat
             /\ Cardinality(S) <= Cardinality(Threads)
  BY LoginAssumption, FS_Subset, FS_CardinalityType
<1> QED
  BY <1>1, <1>2, LoginAssumption, FS_CardinalityType

(* Nothing counted against an address: any thread may be checking for it.  *)
LEMMA CleanWithin ==
    ASSUME NEW a \in Addresses, failures'[a] = <<>>, wrong'[a] = <<>>
    PROVE  Within(a)'
<1>1. Checking(a)' \in SUBSET Threads
  BY DEF Checking
<1>2. Cardinality(Checking(a)') <= Cardinality(Threads) /\ Cardinality(Threads) \in Nat
      /\ Cardinality(Checking(a)') \in Nat
  BY <1>1, LimiterTypes
<1>3. Cardinality(Checking(a))' = Cardinality(Checking(a)')
  OBVIOUS
<1>4. Len(<<>>) = 0
  OBVIOUS
<1>5. MaxFailures - 1 \in Nat
  BY LoginAssumption
<1>6. Len(wrong'[a]) + Cardinality(Checking(a)') <= MaxFailures - 1 + Cardinality(Threads)
  BY <1>2, <1>4, <1>5
<1>7. OldestFirst(failures'[a]) /\ wrong'[a] = Pruned(failures'[a])
  BY PrunedNone
<1> QED
  BY <1>6, <1>7 DEF Within

(* A step that leaves an address's counts alone and admits no login to it. *)
LEMMA OtherWithin ==
    ASSUME LoginTypeOK, NEW a \in Addresses, Within(a), Checking(a)' \subseteq Checking(a),
           failures'[a] \in {failures[a], Pruned(failures[a])}, wrong'[a] = wrong[a]
    PROVE  Within(a)'
<1>1. failures[a] \in Seq(Nat) /\ OldestFirst(failures[a])
  BY LimiterTypes DEF Within
<1>2. OldestFirst(Pruned(failures[a])) /\ Pruned(Pruned(failures[a])) = Pruned(failures[a])
  BY <1>1, PrunedTwice
<1>3. OldestFirst(failures'[a]) /\ wrong'[a] = Pruned(failures'[a])
  BY <1>1, <1>2 DEF Within
<1>4. Checking(a) \in SUBSET Threads
  BY DEF Checking
<1>5. /\ Cardinality(Checking(a)') <= Cardinality(Checking(a))
      /\ Cardinality(Checking(a)') \in Nat /\ Cardinality(Checking(a)) \in Nat
  BY <1>4, LimiterTypes, FS_Subset
<1>6. Len(wrong[a]) \in Nat
  <2>1. Pruned(failures[a]) \in Seq(Nat)
    BY <1>1, PrunedType
  <2> QED
    BY <2>1 DEF Within
<1>7. Cardinality(Threads) \in Nat /\ MaxFailures \in Nat
  BY LimiterTypes, LoginAssumption
<1>8. Len(wrong'[a]) + Cardinality(Checking(a)') <= MaxFailures - 1 + Cardinality(Threads)
  BY <1>5, <1>6, <1>7 DEF Within
<1> QED
  BY <1>3, <1>8 DEF Within

(* Initially nothing is counted.                                           *)
LEMMA LimiterInit == Init => LimiterInv
<1> SUFFICES ASSUME Init, NEW a \in Addresses PROVE Within(a)
  BY DEF LimiterInv, Init
<1>1. failures[a] = <<>> /\ wrong[a] = <<>> /\ Checking(a) = {}
  BY DEF Init, Checking
<1>2. Cardinality(Checking(a)) = 0 /\ Len(wrong[a]) = 0
  BY <1>1, FS_EmptySet
<1>3. Len(wrong[a]) + Cardinality(Checking(a)) <= MaxFailures - 1 + Cardinality(Threads)
  BY <1>2, LimiterTypes, LoginAssumption
<1> QED
  BY <1>1, <1>3, PrunedNone DEF Within

(* A login is let pass only below the budget, and then every thread may be *)
(* checking one for the address.                                           *)
LEMMA AdmitWithin ==
    ASSUME LoginInv, NEW b \in Addresses, Within(b),
           NEW t \in Threads, NEW a \in Addresses, NEW u \in Users,
           NEW right \in BOOLEAN, NEW grant \in Grants, Admit(t, a, u, right, grant)
    PROVE  Within(b)'
<1>1. LoginTypeOK /\ failures[b] \in Seq(Nat)
  BY LimiterTypes DEF LoginInv
<1>2. /\ attempt[t] = NoAttempt /\ wrong' = wrong
      /\ attempt'[t].address = a /\ \A q \in Threads \ {t} : attempt'[q] = attempt[q]
      /\ failures' = [failures EXCEPT ![a] = Pruned(@)]
  BY <1>1 DEF Admit, LoginTypeOK
<1>3. CASE b # a
  <2>1. Checking(b)' \subseteq Checking(b)
    BY <1>2, <1>3 DEF Checking
  <2> QED
    BY <1>1, <1>2, <1>3, <2>1, OtherWithin
<1>4. CASE b = a
  <2>1. /\ OldestFirst(Pruned(failures[a]))
        /\ Pruned(Pruned(failures[a])) = Pruned(failures[a])
        /\ Pruned(failures[a]) \in Seq(Nat)
    BY <1>1, <1>4, PrunedTwice, PrunedType DEF Within
  <2>2. failures'[a] = Pruned(failures[a]) /\ wrong'[a] = Pruned(failures'[a])
    BY <1>1, <1>2, <1>4, <2>1 DEF Within, LoginTypeOK
  <2>3. Len(wrong'[a]) \in Nat /\ Len(wrong'[a]) < MaxFailures
    BY <1>2, <1>4, <2>1 DEF Within, Admit, Allows
  <2>4. Checking(a)' \in SUBSET Threads
    BY DEF Checking
  <2>5. /\ Cardinality(Checking(a)') <= Cardinality(Threads)
        /\ Cardinality(Threads) \in Nat /\ Cardinality(Checking(a)') \in Nat
    BY <2>4, LimiterTypes
  <2>6. Len(wrong'[a]) + Cardinality(Checking(a)') <= MaxFailures - 1 + Cardinality(Threads)
    BY <2>3, <2>5, LoginAssumption
  <2> QED
    BY <1>4, <2>1, <2>2, <2>6 DEF Within
<1> QED
  BY <1>3, <1>4

(* A wrong answer is counted, and its thread is no longer checking.        *)
LEMMA RefuseWithin ==
    ASSUME LoginInv, DOMAIN wrong = Addresses, NEW b \in Addresses, Within(b),
           NEW t \in Threads, Refuse(t)
    PROVE  Within(b)'
<1>1. LoginTypeOK /\ failures[b] \in Seq(Nat) /\ attempt[t] \in Attempts
  BY LimiterTypes DEF LoginInv, LoginTypeOK, Refuse
<1> DEFINE a == attempt[t].address
<1>2. /\ attempt[t] # NoAttempt /\ attempt'[t] = NoAttempt
      /\ \A q \in Threads \ {t} : attempt'[q] = attempt[q]
      /\ failures' = [failures EXCEPT ![a] = Append(@, 0)]
      /\ wrong' = [wrong EXCEPT ![a] = Append(@, 0)]
  BY <1>1 DEF Refuse, LoginTypeOK
<1>3. CASE b # a
  <2>1. Checking(b)' \subseteq Checking(b)
    BY <1>2, <1>3 DEF Checking
  <2>2. failures'[b] = failures[b] /\ wrong'[b] = wrong[b]
    BY <1>2, <1>3
  <2> HIDE DEF a
  <2> QED
    BY <1>1, <2>1, <2>2, OtherWithin
<1>4. CASE b = a
  <2>1. /\ OldestFirst(Append(failures[b], 0))
        /\ Pruned(Append(failures[b], 0)) = Append(Pruned(failures[b]), 0)
        /\ Pruned(failures[b]) \in Seq(Nat)
    BY <1>1, PrunedAppend, PrunedType DEF Within
  <2>2. failures'[b] = Append(failures[b], 0)
    BY <1>1, <1>2, <1>4 DEF LoginTypeOK
  <2>3. wrong'[b] = Append(wrong[b], 0)
    BY <1>2, <1>4
  <2>4. Checking(b)' = Checking(b) \ {t} /\ t \in Checking(b)
    BY <1>2, <1>4 DEF Checking
  <2>5. Checking(b) \in SUBSET Threads
    BY DEF Checking
  <2>6. /\ IsFiniteSet(Checking(b)) /\ Cardinality(Checking(b)) \in Nat
        /\ Cardinality(Threads) \in Nat
    BY <2>5, LimiterTypes
  <2>7. Cardinality(Checking(b)') = Cardinality(Checking(b)) - 1
    BY <2>4, <2>6, FS_RemoveElement
  <2>8. wrong[b] \in Seq(Nat) /\ Len(wrong'[b]) = Len(wrong[b]) + 1
    BY <2>1, <2>3 DEF Within
  <2>9. Len(wrong'[b]) + Cardinality(Checking(b)') <= MaxFailures - 1 + Cardinality(Threads)
    BY <2>6, <2>7, <2>8, LoginAssumption DEF Within
  <2>10. OldestFirst(failures'[b]) /\ wrong'[b] = Pruned(failures'[b])
    BY <2>1, <2>2, <2>3 DEF Within
  <2> QED
    BY <2>9, <2>10 DEF Within
<1> QED
  BY <1>3, <1>4

(* A success clears the address.                                           *)
LEMMA SucceedWithin ==
    ASSUME LoginInv, DOMAIN wrong = Addresses, NEW b \in Addresses, Within(b),
           NEW t \in Threads, Succeed(t)
    PROVE  Within(b)'
<1>1. LoginTypeOK
  BY DEF LoginInv
<1> DEFINE a == attempt[t].address
<1>2. /\ attempt'[t] = NoAttempt
      /\ \A q \in Threads \ {t} : attempt'[q] = attempt[q]
      /\ failures' = [failures EXCEPT ![a] = <<>>]
      /\ wrong' = [wrong EXCEPT ![a] = <<>>]
  BY <1>1 DEF Succeed, LoginTypeOK
<1> HIDE DEF a
<1>3. CASE b # a
  <2>1. Checking(b)' \subseteq Checking(b)
    BY <1>2 DEF Checking
  <2>2. failures'[b] = failures[b] /\ wrong'[b] = wrong[b]
    BY <1>2, <1>3
  <2> QED
    BY <1>1, <2>1, <2>2, OtherWithin
<1>4. CASE b = a
  <2>1. failures'[b] = <<>> /\ wrong'[b] = <<>>
    BY <1>1, <1>2, <1>4 DEF LoginTypeOK
  <2> QED
    BY <2>1, CleanWithin
<1> QED
  BY <1>3, <1>4

(* A tick lets what has left the window go from both.                      *)
LEMMA TickWithin ==
    ASSUME LoginInv, NEW b \in Addresses, Within(b), Tick
    PROVE  Within(b)'
<1>1. LoginTypeOK /\ failures[b] \in Seq(Nat) /\ OldestFirst(failures[b])
  BY LimiterTypes DEF LoginInv, Within
<1>2. /\ failures'[b] = Aged(failures[b])
      /\ wrong'[b] = Kept(Older(wrong[b]), 0..Window)
  <2>1. DOMAIN failures[b] = 1..Len(failures[b])
    BY <1>1
  <2> QED
    BY <2>1 DEF Tick, Aged
<1>3. Aged(failures[b]) \in Seq(Nat) /\ OldestFirst(Aged(failures[b]))
  BY <1>1, AgedOldestFirst
<1>4. /\ wrong'[b] = Pruned(failures'[b])
      /\ Len(Pruned(failures'[b])) <= Len(wrong[b])
  BY <1>1, <1>2, PrunedAged DEF Within
<1>5. Len(wrong'[b]) \in Nat /\ Len(wrong[b]) \in Nat
  <2>1. Pruned(failures'[b]) \in Seq(Nat) /\ Pruned(failures[b]) \in Seq(Nat)
    BY <1>1, <1>2, <1>3, PrunedType
  <2> QED
    BY <1>4, <2>1 DEF Within
<1>6. Checking(b)' \subseteq Checking(b) /\ Checking(b) \in SUBSET Threads
  <2> SUFFICES ASSUME NEW t \in Threads, attempt'[t] # NoAttempt, attempt'[t].address = b
               PROVE  attempt[t] # NoAttempt /\ attempt[t].address = b
    BY DEF Checking
  <2>1. attempt[t] # NoAttempt
    BY DEF Tick
  <2>2. attempt[t] \in Attempts /\ attempt'[t] = [attempt[t] EXCEPT !.since = @ + 1]
    BY <1>1, <2>1 DEF Tick, LoginTypeOK
  <2> QED
    BY <2>1, <2>2 DEF Attempts
<1>7. /\ Cardinality(Checking(b)') <= Cardinality(Checking(b))
      /\ Cardinality(Checking(b)') \in Nat /\ Cardinality(Checking(b)) \in Nat
      /\ Cardinality(Threads) \in Nat
  BY <1>6, LimiterTypes, FS_Subset
<1>8. Len(wrong'[b]) + Cardinality(Checking(b)') <= MaxFailures - 1 + Cardinality(Threads)
  BY <1>4, <1>5, <1>7, LoginAssumption DEF Within
<1> QED
  BY <1>2, <1>3, <1>4, <1>8 DEF Within

(* Every step keeps the limiter's invariant.                               *)
LEMMA LimiterNext == LoginInv /\ LimiterInv /\ [Next]_vars => LimiterInv'
<1> SUFFICES ASSUME LoginInv, LimiterInv, [Next]_vars PROVE LimiterInv'
  OBVIOUS
<1>0. DOMAIN wrong = Addresses /\ \A b \in Addresses : Within(b)
  BY DEF LimiterInv
<1>1. DOMAIN wrong' = Addresses
  BY <1>0 DEF Next, Admit, ConfigBroken, LockedOut, Finish, Refuse, Succeed, SaveUsers,
              Tick, Restart, vars
<1> SUFFICES ASSUME NEW b \in Addresses PROVE Within(b)'
  BY <1>1 DEF LimiterInv
<1>2. ASSUME NEW t \in Threads, NEW a \in Addresses, NEW u \in Users,
             NEW right \in BOOLEAN, NEW grant \in Grants, Admit(t, a, u, right, grant)
      PROVE  Within(b)'
  BY <1>0, <1>2, AdmitWithin
<1>3. ASSUME NEW a \in Addresses, failures' = [failures EXCEPT ![a] = Pruned(@)],
             UNCHANGED <<attempt, wrong>>
      PROVE  Within(b)'
  <2>1. Checking(b)' \subseteq Checking(b) /\ wrong'[b] = wrong[b]
    BY <1>3 DEF Checking
  <2>2. failures'[b] \in {failures[b], Pruned(failures[b])}
    BY <1>3 DEF LoginInv, LoginTypeOK
  <2> QED
    BY <1>0, <2>1, <2>2, OtherWithin DEF LoginInv
<1>4. ASSUME NEW t \in Threads, Finish(t) PROVE Within(b)'
  BY <1>0, <1>4, RefuseWithin, SucceedWithin DEF Finish
<1>5. CASE UNCHANGED <<failures, attempt, wrong>>
  BY <1>0, <1>5 DEF Within, Checking
<1>6. CASE Tick
  BY <1>0, <1>6, TickWithin
<1>7. ASSUME NEW sameSecret \in BOOLEAN, Restart(sameSecret) PROVE Within(b)'
  BY <1>7, CleanWithin DEF Restart
<1> QED
  BY <1>2, <1>3, <1>4, <1>5, <1>6, <1>7 DEF Next, ConfigBroken, LockedOut, SaveUsers, vars

(* 429 exactly when the address itself had its fill of wrong answers inside *)
(* the window, and at most one answer past the budget for each thread: for *)
(* any number of threads, addresses and failures and any window.           *)
THEOREM LimiterIsExact == Spec => []LimiterHolds
<1>1. LoginInv /\ LimiterInv => LimiterHolds
  <2> SUFFICES ASSUME LoginInv, LimiterInv, NEW a \in Addresses
               PROVE  /\ Allows(a) <=> Len(wrong[a]) < MaxFailures
                      /\ Len(wrong[a]) <= MaxFailures - 1 + Cardinality(Threads)
    BY DEF LimiterHolds
  <2>1. Within(a) /\ failures[a] \in Seq(Nat)
    BY LimiterTypes DEF LimiterInv, LoginInv
  <2>2. Pruned(failures[a]) \in Seq(Nat)
    BY <2>1, PrunedType
  <2>3. Len(wrong[a]) \in Nat
    BY <2>1, <2>2 DEF Within
  <2>4. Checking(a) \in SUBSET Threads
    BY DEF Checking
  <2>5. Cardinality(Checking(a)) \in Nat /\ Cardinality(Threads) \in Nat
    BY <2>4, LimiterTypes
  <2> QED
    BY <2>1, <2>3, <2>5, LoginAssumption DEF Within, Allows
<1> QED
  BY <1>1, LimiterInit, LimiterNext, LoginInvariant, PTL DEF Spec
=============================================================================
