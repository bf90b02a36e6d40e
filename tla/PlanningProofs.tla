--------------------------- MODULE PlanningProofs ---------------------------
(***************************************************************************)
(* What is proved of module Planning, for any departments, asks, models,   *)
(* configs, overrides and server delays, and plans of any length.          *)
(***************************************************************************)
EXTENDS Planning, SubsequenceProofs

(* The least and the greatest of two numbers.                              *)
LEMMA OfTwo ==
    ASSUME NEW a \in Int, NEW b \in Int
    PROVE  /\ Min({a, b}) = IF a <= b THEN a ELSE b
           /\ Max({a, b}) = IF a <= b THEN b ELSE a
<1>1. /\ Min({a, b}) \in {a, b} /\ Min({a, b}) <= a /\ Min({a, b}) <= b
  <2> DEFINE IsLeast(x) == \A y \in {a, b} : x <= y
  <2>1. IsLeast(IF a <= b THEN a ELSE b)
    OBVIOUS
  <2>2. \E x \in {a, b} : IsLeast(x)
    BY <2>1
  <2>3. Min({a, b}) = CHOOSE x \in {a, b} : IsLeast(x)
    BY DEF Min
  <2>4. Min({a, b}) \in {a, b} /\ IsLeast(Min({a, b}))
    <3> HIDE DEF IsLeast
    <3> QED
      BY <2>2, <2>3
  <2> QED
    BY <2>4
<1>2. /\ Max({a, b}) \in {a, b} /\ Max({a, b}) >= a /\ Max({a, b}) >= b
  <2> DEFINE IsMost(x) == \A y \in {a, b} : x >= y
  <2>1. IsMost(IF a <= b THEN b ELSE a)
    OBVIOUS
  <2>2. \E x \in {a, b} : IsMost(x)
    BY <2>1
  <2>3. Max({a, b}) = CHOOSE x \in {a, b} : IsMost(x)
    BY DEF Max
  <2>4. Max({a, b}) \in {a, b} /\ IsMost(Max({a, b}))
    <3> HIDE DEF IsMost
    <3> QED
      BY <2>2, <2>3
  <2> QED
    BY <2>4
<1> QED
  BY <1>1, <1>2

-----------------------------------------------------------------------------
(* The config of a run is as its request left it, a narrower one than the  *)
(* operator's.                                                             *)
Narrower(c, o) ==
    /\ c.departments \subseteq o.departments
    /\ c.max_gatherers <= o.max_gatherers
    /\ c.max_retries <= o.max_retries
    /\ c.veto \in o.veto_choices \cup {o.veto}

ConfigInv ==
    /\ stage \in {"arrived", "asking", "waiting"} \cup Ended
    /\ operator \in Configs \cup {NoConfig}
    /\ config \in ConfigSet \cup {NoConfig}
    /\ config # NoConfig => Narrower(config, operator)
    /\ stage \in {"arrived", "refused"} => config = NoConfig
    /\ stage \notin {"arrived", "refused"} => config \in ConfigSet

(* A record of the wrong shape is no config.                               *)
LEMMA NoConfigIsNone == NoConfig \notin ConfigSet
BY DEF NoConfig, ConfigSet

(* A request's number stays between the least there may be and the         *)
(* operator's.                                                             *)
LEMMA ClampedBelow ==
    ASSUME NEW low \in Nat, NEW ceiling \in Nat, low <= ceiling,
           NEW asked, asked # Unset => asked \in Nat
    PROVE  Clamped(low, asked, ceiling) \in low..ceiling
<1>1. CASE asked = Unset
  BY <1>1 DEF Clamped
<1>2. CASE asked # Unset
  <2> DEFINE m == Min({asked, ceiling})
  <2>1. asked \in Nat
    BY <1>2
  <2>2. m = IF asked <= ceiling THEN asked ELSE ceiling
    <3>1. asked \in Int /\ ceiling \in Int
      BY <2>1
    <3> QED
      BY <3>1, OfTwo
  <2> HIDE DEF m
  <2>3. m \in Nat /\ m <= ceiling
    BY <2>1, <2>2
  <2>4. Max({low, m}) = IF low <= m THEN m ELSE low
    <3>1. low \in Int /\ m \in Int
      BY <2>3
    <3> QED
      BY <3>1, OfTwo
  <2>5. Clamped(low, asked, ceiling) = Max({low, m})
    BY <1>2 DEF Clamped, m
  <2> QED
    BY <2>3, <2>4, <2>5
<1> QED
  BY <1>1, <1>2

(* Whatever is asked for, the copy is a config, and no wider.              *)
LEMMA NarrowedIsNarrower ==
    ASSUME NEW c \in Configs, NEW o \in Overrides, Acceptable(o, c)
    PROVE  Narrowed(o, c) \in ConfigSet /\ Narrower(Narrowed(o, c), c)
<1>1. c \in ConfigSet /\ o \in OverrideSet
  BY PlanningAssumption
<1>2. /\ c.departments \in SUBSET Departments /\ c.max_gatherers \in Nat \ {0}
      /\ c.max_retries \in Nat /\ c.veto \in Models /\ c.veto_choices \in SUBSET Models
      /\ c = [departments |-> c.departments, max_gatherers |-> c.max_gatherers,
              max_retries |-> c.max_retries, veto |-> c.veto, veto_choices |-> c.veto_choices]
  BY <1>1 DEF ConfigSet
<1>3. /\ o.max_gatherers # Unset => o.max_gatherers \in Nat
      /\ o.max_retries # Unset => o.max_retries \in Nat
      /\ o.veto # Unset => o.veto \in c.veto_choices
      /\ o.departments # Unset => o.departments \subseteq c.departments
  BY <1>1 DEF OverrideSet, Acceptable
<1> DEFINE g == Clamped(1, o.max_gatherers, c.max_gatherers)
           r == Clamped(0, o.max_retries, c.max_retries)
           v == IF o.veto = Unset THEN c.veto ELSE o.veto
           d == IF o.departments = Unset THEN c.departments ELSE o.departments
           n == Narrowed(o, c)
<1>4. g \in 1..c.max_gatherers
  <2>1. 1 \in Nat /\ 1 <= c.max_gatherers /\ c.max_gatherers \in Nat
    BY <1>2
  <2> QED
    BY <1>3, <2>1, ClampedBelow
<1>5. r \in 0..c.max_retries
  <2>1. 0 \in Nat /\ 0 <= c.max_retries
    BY <1>2
  <2> QED
    BY <1>2, <1>3, <2>1, ClampedBelow
<1>6. v \in Models /\ v \in c.veto_choices \cup {c.veto} /\ d \subseteq c.departments
  BY <1>2, <1>3
<1>7. n = [c EXCEPT !.max_gatherers = g, !.max_retries = r, !.veto = v, !.departments = d]
  BY DEF Narrowed
<1> HIDE DEF g, r, v, d, n
<1>8. n = [departments |-> d, max_gatherers |-> g, max_retries |-> r,
           veto |-> v, veto_choices |-> c.veto_choices]
  BY <1>2, <1>7
<1>9. g \in Nat \ {0} /\ r \in Nat /\ g <= c.max_gatherers /\ r <= c.max_retries
  BY <1>2, <1>4, <1>5
<1> QED
  BY <1>2, <1>6, <1>8, <1>9 DEF ConfigSet, Narrower, n

(* Every step keeps the copy within the config it was made from.           *)
LEMMA ConfigNextInv == ConfigInv /\ [Next]_vars => ConfigInv'
<1> SUFFICES ASSUME ConfigInv, [Next]_vars PROVE ConfigInv'
  OBVIOUS
<1>1. ASSUME NEW o \in Overrides, NEW c \in Configs \cup {NoConfig}, Refused(c, o)
      PROVE  ConfigInv'
  BY <1>1 DEF Refused, ConfigInv, Ended
<1>2. ASSUME NEW o \in Overrides, NEW c \in Configs, Accepted(c, o) PROVE ConfigInv'
  BY <1>2, NarrowedIsNarrower DEF Accepted, ConfigInv, Ended
<1>3. ASSUME NEW e, Except(e), stage = "asking" PROVE ConfigInv'
  <2>1. stage' \in {"failed", "waiting"} /\ UNCHANGED <<operator, config>>
    BY <1>3 DEF Except
  <2> QED
    BY <1>3, <2>1 DEF ConfigInv, Ended
<1>4. ASSUME NEW e \in Failures, CallFails(e) PROVE ConfigInv'
  BY <1>3, <1>4 DEF CallFails
<1>5. CASE CallAgain
  BY <1>5 DEF CallAgain, ConfigInv, Ended
<1>6. CASE Cancelled
  BY <1>6 DEF Cancelled, ConfigInv, Ended
<1>7. ASSUME NEW tasks, NotAPlan(tasks) PROVE ConfigInv'
  BY <1>3, <1>7 DEF NotAPlan
<1>8. ASSUME NEW tasks, Planned(tasks) PROVE ConfigInv'
  BY <1>8 DEF Planned, ConfigInv, Ended
<1>9. CASE Resting \/ UNCHANGED vars
  BY <1>9 DEF Resting, vars, ConfigInv, Ended
<1> QED
  BY <1>1, <1>2, <1>4, <1>5, <1>6, <1>7, <1>8, <1>9 DEF Next

(* There is no copy at the start.                                          *)
LEMMA ConfigInitInv == Init => ConfigInv
BY DEF Init, ConfigInv, Ended

-----------------------------------------------------------------------------
(* Retries.  What with_retry saw, failure by failure, and how long it      *)
(* waited after each.                                                      *)
Causes == {"rate_limit", "daily_quota", "overloaded", "bad_request", "no_key",
           "blocked", "invalid_plan", "invalid_quoting", "empty_plan"}
Seen == [cause : Causes, asks : Nat \cup {NoDelay}]
Repeatable(e) == e.cause \in {"rate_limit", "overloaded"} \cup Misread
Waited(e, w) ==
    /\ Repeatable(e)
    /\ w <= MaxDelay
    /\ e.asks # NoDelay => 2 * e.asks < w \/ w = MaxDelay

RetryInv ==
    /\ stage \in {"arrived", "asking", "waiting"} \cup Ended
    /\ tries \in Seq(Seen) /\ waits \in Seq(Nat)
    /\ \A i \in 1..Len(waits) : Waited(tries[i], waits[i])
    /\ stage \in {"arrived", "refused"} => tries = <<>> /\ waits = <<>>
    /\ stage \in {"asking", "waiting", "planned", "cancelled"} =>
         Len(waits) = Len(tries) /\ Len(tries) < Attempts
    /\ stage = "failed" =>
         /\ Len(tries) \in 1..Attempts /\ Len(waits) = Len(tries) - 1
         /\ IF tries[Len(tries)].cause = "daily_quota" THEN raised = QuotaExhausted
            ELSE /\ raised = tries[Len(tries)]
                 /\ \/ Len(tries) = Attempts
                    \/ raised.cause \in {"bad_request", "invalid_plan", "empty_plan"}

(* After a transient failure it waits what the server asked, if the        *)
(* server did, and at most MAX_DELAY.                                      *)
LEMMA WaitsLongEnough ==
    ASSUME NEW e \in Seen, IsTransient(e), NEW k \in 0..(Attempts - 2)
    PROVE  /\ RetryAfter(e, BaseDelay * 2^k) \in Nat
           /\ Waited(e, RetryAfter(e, BaseDelay * 2^k))
<1>1. Repeatable(e)
  BY DEF IsTransient, Repeatable
<1>2. CASE e.asks = NoDelay
  <2>1. k = 0 \/ k = 1
    BY DEF Attempts
  <2>2. BaseDelay * 2^k \in Nat /\ BaseDelay * 2^k <= MaxDelay
    <3>1. 2^0 = 1 /\ 2^1 = 2
      OBVIOUS
    <3>2. 2^k = 1 \/ 2^k = 2
      BY <2>1, <3>1
    <3> DEFINE p == 2^k
    <3>3. p = 1 \/ p = 2
      BY <3>2
    <3> HIDE DEF p
    <3>4. BaseDelay * p \in Nat /\ BaseDelay * p <= MaxDelay
      BY <3>3 DEF BaseDelay, MaxDelay
    <3> QED
      BY <3>4 DEF p
  <2> QED
    BY <1>1, <1>2, <2>2 DEF RetryAfter, Waited
<1>3. CASE e.asks # NoDelay
  <2> DEFINE asked == e.asks
             w == Min({2 * asked + 1, MaxDelay})
  <2>1. asked \in Nat
    BY <1>3 DEF Seen
  <2>2. 2 * asked + 1 \in Int /\ MaxDelay \in Int
    BY <2>1 DEF MaxDelay
  <2>3. w = IF 2 * asked + 1 <= MaxDelay THEN 2 * asked + 1 ELSE MaxDelay
    BY <2>2, OfTwo
  <2>4. RetryAfter(e, BaseDelay * 2^k) = w
    BY <1>3 DEF RetryAfter
  <2>5. w \in Nat /\ w <= MaxDelay /\ (2 * asked < w \/ w = MaxDelay)
    BY <2>1, <2>3 DEF MaxDelay
  <2> QED
    BY <1>1, <2>4, <2>5 DEF Waited
<1> QED
  BY <1>2, <1>3

(* Another failure: it is seen, and ends the call or is waited for.        *)
LEMMA ExceptRetry ==
    ASSUME RetryInv, stage = "asking", NEW e \in Seen, Except(e)
    PROVE  RetryInv'
<1> DEFINE n == Len(tries)
<1>1. /\ tries \in Seq(Seen) /\ waits \in Seq(Nat) /\ Len(waits) = n
      /\ n \in 0..(Attempts - 1)
      /\ \A i \in 1..n : Waited(tries[i], waits[i])
  BY DEF RetryInv, Attempts
<1>2. tries' = Append(tries, e)
  BY DEF Except
<1>3. /\ tries' \in Seq(Seen) /\ Len(tries') = n + 1 /\ tries'[n + 1] = e
      /\ \A i \in 1..n : tries'[i] = tries[i]
  BY <1>1, <1>2
<1>4. CASE stage' = "failed"
  <2>1. UNCHANGED waits
    BY <1>4 DEF Except
  <2>2. Len(tries') \in 1..Attempts /\ Len(waits') = Len(tries') - 1
    <3> DEFINE k == Len(tries')
    <3>1. k = n + 1 /\ Len(waits') = n /\ n \in 0..(Attempts - 1) /\ Attempts = 3
      BY <1>1, <1>3, <2>1 DEF Attempts
    <3> HIDE DEF k, n
    <3>2. k \in 1..Attempts /\ Len(waits') = k - 1
      BY <3>1
    <3> QED
      BY <3>2 DEF k
  <2>3. IF e.cause = "daily_quota" THEN raised' = QuotaExhausted
        ELSE raised' = e /\ (n + 1 = Attempts \/ ~Repeatable(e))
    <3>1. n \in 0..(Attempts - 1) /\ Attempts = 3
      BY <1>1 DEF Attempts
    <3>2. CASE IsDailyQuota(e)
      BY <1>4, <3>2 DEF Except, IsDailyQuota
    <3>3. CASE ~IsDailyQuota(e)
      <4>1. raised' = e /\ (n = Attempts - 1 \/ ~IsTransient(e))
        BY <1>4, <3>3 DEF Except
      <4>2. e.cause # "daily_quota" /\ (~IsTransient(e) => ~Repeatable(e))
        BY <3>3 DEF IsDailyQuota, IsTransient, Repeatable
      <4> HIDE DEF n
      <4>3. n = Attempts - 1 => n + 1 = Attempts
        BY <3>1
      <4> QED
        BY <4>1, <4>2, <4>3
    <3> QED
      BY <3>2, <3>3
  <2>4. e.cause # "daily_quota" /\ ~Repeatable(e) =>
          e.cause \in {"bad_request", "invalid_plan", "empty_plan"}
    BY DEF Seen, Causes, Repeatable, Misread
  <2>5. \A i \in 1..Len(waits') : Waited(tries'[i], waits'[i])
    BY <1>1, <1>3, <2>1
  <2> QED
    BY <1>1, <1>3, <1>4, <2>1, <2>2, <2>3, <2>4, <2>5 DEF RetryInv, Ended
<1>5. CASE stage' # "failed"
  <2> DEFINE w == RetryAfter(e, BaseDelay * 2^n)
  <2>1. n < Attempts - 1 /\ IsTransient(e) /\ stage' = "waiting" /\ waits' = Append(waits, w)
    BY <1>5 DEF Except
  <2>2. n \in 0..(Attempts - 2)
    BY <1>1, <2>1 DEF Attempts
  <2>3. w \in Nat /\ Waited(e, w)
    BY <2>1, <2>2, WaitsLongEnough
  <2> HIDE DEF w
  <2>4. /\ waits' \in Seq(Nat) /\ Len(waits') = n + 1 /\ waits'[n + 1] = w
        /\ \A i \in 1..n : waits'[i] = waits[i]
    BY <1>1, <2>1, <2>3
  <2>5. ASSUME NEW i \in 1..Len(waits') PROVE Waited(tries'[i], waits'[i])
    <3>1. i = n + 1 \/ i \in 1..n
      BY <1>1, <2>4
    <3> QED
      BY <1>1, <1>3, <2>3, <2>4, <3>1
  <2>6. Len(tries') < Attempts
    BY <1>1, <1>3, <2>1 DEF Attempts
  <2> QED
    BY <1>3, <2>1, <2>4, <2>5, <2>6 DEF RetryInv, Ended
<1> QED
  BY <1>4, <1>5

(* No call has failed at the start.                                        *)
LEMMA RetryInitInv == Init => RetryInv
<1> SUFFICES ASSUME Init PROVE RetryInv
  OBVIOUS
<1>1. tries = <<>> /\ waits = <<>> /\ stage = "arrived"
  BY DEF Init
<1>2. tries \in Seq(Seen) /\ waits \in Seq(Nat) /\ Len(waits) = 0
  BY <1>1
<1> QED
  BY <1>1, <1>2 DEF RetryInv

(* Every step keeps account of the failures and the waits.                 *)
LEMMA RetryNextInv == RetryInv /\ [Next]_vars => RetryInv'
<1> SUFFICES ASSUME RetryInv, [Next]_vars PROVE RetryInv'
  OBVIOUS
<1>1. ASSUME NEW o \in Overrides, NEW c \in Configs \cup {NoConfig}, Refused(c, o)
      PROVE  RetryInv'
  BY <1>1 DEF Refused, RetryInv, retryVars, Ended
<1>2. ASSUME NEW o \in Overrides, NEW c \in Configs, Accepted(c, o) PROVE RetryInv'
  <2>1. stage = "arrived" /\ stage' = "asking" /\ UNCHANGED <<tries, waits, raised>>
    BY <1>2 DEF Accepted, retryVars
  <2>2. Len(tries) = 0 /\ Len(waits) = 0
    BY <2>1 DEF RetryInv
  <2> QED
    BY <2>1, <2>2 DEF RetryInv, Attempts, Ended
<1>3. ASSUME NEW e \in Failures, CallFails(e) PROVE RetryInv'
  <2>1. e \in Seen
    BY PlanningAssumption DEF Failures, Seen, Causes
  <2> QED
    BY <1>3, <2>1, ExceptRetry DEF CallFails
<1>4. CASE CallAgain
  BY <1>4 DEF CallAgain, RetryInv, retryVars, Ended
<1>5. CASE Cancelled
  BY <1>5 DEF Cancelled, RetryInv, retryVars, Ended
<1>6. ASSUME NEW tasks, NotAPlan(tasks) PROVE RetryInv'
  <2>1. InvalidPlans \subseteq Seen /\ EmptyPlan \in Seen
    BY DEF InvalidPlans, EmptyPlan, Seen, Causes
  <2> QED
    BY <1>6, <2>1, ExceptRetry DEF NotAPlan
<1>7. ASSUME NEW tasks, Planned(tasks) PROVE RetryInv'
  BY <1>7 DEF Planned, RetryInv, retryVars, Ended
<1>8. CASE Resting \/ UNCHANGED vars
  BY <1>8 DEF Resting, vars, retryVars, RetryInv, Ended
<1> QED
  BY <1>1, <1>2, <1>3, <1>4, <1>5, <1>6, <1>7, <1>8 DEF Next

(* A call is repeated after a 429 of the minute and a 5xx, and never after *)
(* another failure that shows its cause; the wait is what the server asked *)
(* for and never more than 45 seconds; weather is not given up before      *)
(* three calls, and what is raised is the last failure.                    *)
THEOREM RetriesAreDisciplined == Spec => []RetryDisciplined
<1>1. ASSUME RetryInv PROVE RetryDisciplined
  <2> DEFINE n == Len(tries)
  <2>1. n \in Nat /\ Len(waits) \in Nat
    BY <1>1 DEF RetryInv
  <2>2. ASSUME NEW i \in 1..n, i < n \/ stage \in {"waiting", "asking", "planned"}
        PROVE  Waited(tries[i], waits[i])
    <3>1. stage \notin {"arrived", "refused"}
      BY <1>1, <2>2 DEF RetryInv
    <3>2. i \in 1..Len(waits)
      BY <1>1, <2>1, <2>2, <3>1 DEF RetryInv, Ended
    <3> QED
      BY <1>1, <3>2 DEF RetryInv
  <2>3. stage = "failed" =>
          /\ n > 0 /\ Len(waits) = n - 1
          /\ IF tries[n].cause = "daily_quota" THEN raised = QuotaExhausted
             ELSE /\ raised = tries[n]
                  /\ raised.cause \in {"rate_limit", "overloaded"} => n = Attempts
    BY <1>1 DEF RetryInv
  <2> QED
    BY <2>2, <2>3 DEF RetryDisciplined, Waited, Repeatable
<1> QED
  BY <1>1, RetryInitInv, RetryNextInv, PTL DEF Spec

-----------------------------------------------------------------------------
(* The loop of dedupe_tasks, for prompts of any kind.                      *)
TasksOf(P) == [department : Departments, prompt : P]
Books(P) == UNION {[D -> Seq(P)] : D \in SUBSET Departments}
States(P) == [order : Seq(Departments), prompts : Books(P)]
Nothing == [order |-> <<>>, prompts |-> <<>>]

(* The state the loop begins in.                                           *)
LEMMA NothingRead == ASSUME NEW P PROVE Nothing \in States(P) /\ DOMAIN Nothing.prompts = {}
<1>1. <<>> \in [{} -> Seq(P)] /\ <<>> \in Seq(Departments)
  OBVIOUS
<1>2. {} \in SUBSET Departments
  OBVIOUS
<1>3. <<>> \in Books(P)
  BY <1>1, <1>2 DEF Books
<1>4. Nothing.prompts = <<>> /\ DOMAIN <<>> = {}
  BY DEF Nothing
<1> QED
  BY <1>1, <1>3, <1>4 DEF Nothing, States

(* A task adds its department, if it is the first for it, and its prompt   *)
(* to what was heard for it, if it has one and was not heard before.       *)
Adding(q, none, e) == IF e \in none \/ Contains(q, e) THEN q ELSE Append(q, e)

(* What was heard for a department is a sequence of prompts.               *)
LEMMA HeardType ==
    ASSUME NEW P, NEW st \in States(P), NEW d
    PROVE  Heard(st, d) \in Seq(P)
<1>1. PICK D \in SUBSET Departments : st.prompts \in [D -> Seq(P)]
  BY DEF States, Books
<1> QED
  BY <1>1 DEF Heard

(* A task changes what was heard for its own department alone.             *)
LEMMA NotedAdds ==
    ASSUME NEW P, NEW st \in States(P), NEW task \in TasksOf(P)
    PROVE  /\ Noted(st, task) \in States(P)
           /\ DOMAIN Noted(st, task).prompts = DOMAIN st.prompts \cup {task.department}
           /\ Noted(st, task).order
                = IF task.department \in DOMAIN st.prompts THEN st.order
                  ELSE Append(st.order, task.department)
           /\ \A d : Heard(Noted(st, task), d)
                = IF d = task.department THEN Adding(Heard(st, d), {<<>>}, task.prompt)
                  ELSE Heard(st, d)
<1> DEFINE d0 == task.department
           heard == Heard(st, d0)
           now == Adding(heard, {<<>>}, task.prompt)
           order == IF d0 \in DOMAIN st.prompts THEN st.order ELSE Append(st.order, d0)
           D == DOMAIN st.prompts \cup {d0}
           book == [x \in D |-> IF x = d0 THEN now ELSE st.prompts[x]]
<1>1. d0 \in Departments /\ task.prompt \in P
  BY DEF TasksOf
<1>2. st.order \in Seq(Departments) /\ st.prompts \in Books(P)
  BY DEF States
<1>3. PICK E \in SUBSET Departments : st.prompts \in [E -> Seq(P)]
  BY <1>2 DEF Books
<1>4. heard \in Seq(P)
  BY HeardType
<1>5. now \in Seq(P)
  <2> HIDE DEF heard
  <2> QED
    BY <1>1, <1>4 DEF Adding
<1>6. now = IF task.prompt = <<>> \/ Contains(heard, task.prompt) THEN heard
            ELSE Append(heard, task.prompt)
  BY DEF Adding
<1> HIDE DEF now
<1>7. order \in Seq(Departments)
  BY <1>1, <1>2
<1>8. D \in SUBSET Departments /\ book \in [D -> Seq(P)]
  BY <1>1, <1>3, <1>5
<1>9. Noted(st, task) = [order |-> order, prompts |-> book]
  BY <1>6 DEF Noted
<1> HIDE DEF order, book, D
<1>10. Noted(st, task) \in States(P)
  BY <1>7, <1>8, <1>9 DEF States, Books
<1>11. Noted(st, task).prompts = book /\ Noted(st, task).order = order /\ DOMAIN book = D
  BY <1>8, <1>9
<1>12. ASSUME NEW d
       PROVE  Heard(Noted(st, task), d) = IF d = d0 THEN now ELSE Heard(st, d)
  <2>1. Heard(Noted(st, task), d) = IF d \in D THEN book[d] ELSE <<>>
    BY <1>11 DEF Heard
  <2>2. \A x \in D : book[x] = IF x = d0 THEN now ELSE st.prompts[x]
    BY DEF book
  <2>3. D = DOMAIN st.prompts \cup {d0}
    BY DEF D
  <2> QED
    BY <2>1, <2>2, <2>3 DEF Heard
<1> QED
  BY <1>10, <1>11, <1>12 DEF order, D, now, heard

(* state[n] is what was read of the first n tasks.                         *)
Reads(f, s) == f[0] = Nothing /\ \A n \in 1..Len(s) : f[n] = Noted(f[n - 1], s[n])

(* There is such a function, and Reading is its last value.                *)
LEMMA ReadFrom ==
    ASSUME NEW P, NEW s \in Seq(TasksOf(P))
    PROVE  \E f \in [0..Len(s) -> States(P)] : Reads(f, s) /\ Reading(s) = f[Len(s)]
<1> DEFINE N == Len(s)
           step == [x \in States(P) \X (1..N) |-> Noted(x[1], s[x[2]])]
           Solves(f) == f = [n \in 0..N |->
                               IF n = 0 THEN [order |-> <<>>, prompts |-> <<>>]
                               ELSE Noted(f[n - 1], s[n])]
<1>0. N \in Nat /\ \A n \in 1..N : s[n] \in TasksOf(P)
  OBVIOUS
<1>1. step \in [States(P) \X (1..N) -> States(P)]
  <2>1. ASSUME NEW x \in States(P) \X (1..N) PROVE Noted(x[1], s[x[2]]) \in States(P)
    <3>1. x[1] \in States(P) /\ s[x[2]] \in TasksOf(P)
      BY <1>0
    <3> QED
      BY <3>1, NotedAdds
  <2> QED
    BY <2>1
<1>2. PICK f \in [0..N -> States(P)] : Iterates(f, Nothing, step, N)
  <2> DEFINE all == States(P)
  <2>1. Nothing \in all /\ N \in Nat /\ step \in [all \X (1..N) -> all]
    BY <1>0, <1>1, NothingRead
  <2> HIDE DEF step, N, all
  <2>2. \E f \in [0..N -> all] : Iterates(f, Nothing, step, N)
    BY <2>1, Recursion
  <2> QED
    BY <2>2 DEF all
<1>3. \A n \in 1..N : f[n] = Noted(f[n - 1], s[n])
  <2> SUFFICES ASSUME NEW n \in 1..N PROVE f[n] = Noted(f[n - 1], s[n])
    OBVIOUS
  <2> DEFINE last == f[n - 1]
             x == <<last, n>>
  <2>1. n - 1 \in 0..N
    BY <1>0
  <2>2. x \in States(P) \X (1..N) /\ x[1] = last /\ x[2] = n
    BY <2>1
  <2>3. f[n] = step[x]
    BY <1>2 DEF Iterates
  <2> HIDE DEF x, last
  <2>4. step[x] = Noted(last, s[n])
    BY <2>2
  <2> QED
    BY <2>3, <2>4 DEF last
<1> HIDE DEF N, step
<1>4. Solves(f)
  <2>1. f = [n \in 0..N |-> f[n]]
    OBVIOUS
  <2>2. ASSUME NEW n \in 0..N
        PROVE  f[n] = IF n = 0 THEN [order |-> <<>>, prompts |-> <<>>]
                      ELSE Noted(f[n - 1], s[n])
    <3>1. n = 0 \/ n \in 1..N
      BY <1>0
    <3> QED
      BY <1>2, <1>3, <3>1 DEF Iterates, Nothing
  <2> QED
    BY <2>1, <2>2
<1>5. ASSUME NEW g, Solves(g) PROVE g = f
  <2>1. g = [n \in 0..N |-> g[n]]
    BY <1>5
  <2> DEFINE same == {n \in 0..N : g[n] = f[n]}
  <2>2. 0 \in same
    BY <1>0, <1>2, <1>5 DEF Iterates, Nothing
  <2>3. ASSUME NEW n \in 1..N, n - 1 \in same PROVE n \in same
    <3>1. n \in 0..N /\ n # 0 /\ g[n - 1] = f[n - 1]
      BY <1>0, <2>3
    <3>2. g[n] = Noted(g[n - 1], s[n])
      BY <1>5, <3>1
    <3> QED
      BY <1>3, <3>1, <3>2
  <2> HIDE DEF same
  <2>4. \A n \in 1..N : n - 1 \in same => n \in same
    BY <2>3
  <2>5. 0..N \subseteq same
    BY <1>0, <2>2, <2>4, UpTo
  <2> USE DEF same
  <2>6. \A n \in 0..N : g[n] = f[n]
    BY <2>5
  <2> QED
    BY <2>1, <2>6
<1>6. Reading(s) = (CHOOSE g : Solves(g))[N]
  BY DEF Reading, N
<1> HIDE DEF Solves
<1>7. (CHOOSE g : Solves(g)) = f
  BY <1>4, <1>5
<1> QED
  BY <1>2, <1>3, <1>6, <1>7 DEF N, Iterates, Reads

(* Without a task, nothing is read.                                        *)
LEMMA ReadingOfNone == Reading(<<>>) = Nothing
<1>1. <<>> \in Seq(TasksOf({})) /\ Len(<<>>) = 0
  OBVIOUS
<1>2. PICK f \in [0..Len(<<>>) -> States({})] : Reads(f, <<>>) /\ Reading(<<>>) = f[Len(<<>>)]
  BY <1>1, ReadFrom
<1> QED
  BY <1>1, <1>2 DEF Reads

(* A further task is noted after all that were read before it.             *)
LEMMA ReadingOfMore ==
    ASSUME NEW P, NEW s \in Seq(TasksOf(P)), NEW e \in TasksOf(P)
    PROVE  Reading(s) \in States(P) /\ Reading(Append(s, e)) = Noted(Reading(s), e)
<1> DEFINE n == Len(s)
           more == Append(s, e)
           k == n + 1
<1>1. /\ more \in Seq(TasksOf(P)) /\ Len(more) = k /\ n \in Nat
      /\ more[k] = e /\ \A i \in 1..n : more[i] = s[i]
  OBVIOUS
<1>2. PICK f \in [0..n -> States(P)] : Reads(f, s) /\ Reading(s) = f[n]
  BY ReadFrom
<1> HIDE DEF more
<1>3. PICK g \in [0..Len(more) -> States(P)] : Reads(g, more) /\ Reading(more) = g[Len(more)]
  BY <1>1, ReadFrom
<1> HIDE DEF n
<1> DEFINE same == {i \in 0..n : f[i] = g[i]}
<1>4. 0 \in same
  BY <1>1, <1>2, <1>3 DEF Reads
<1>5. ASSUME NEW i \in 1..n, i - 1 \in same PROVE i \in same
  <2>1. i \in 0..n /\ i \in 1..Len(more) /\ i \in 1..Len(s) /\ f[i - 1] = g[i - 1] /\ more[i] = s[i]
    BY <1>1, <1>5 DEF n
  <2>2. f[i] = Noted(f[i - 1], s[i])
    BY <1>2, <2>1 DEF Reads
  <2>3. g[i] = Noted(g[i - 1], more[i])
    BY <1>3, <2>1 DEF Reads
  <2> QED
    BY <2>1, <2>2, <2>3
<1>6. f[n] = g[n]
  <2>1. \A i \in 1..n : i - 1 \in same => i \in same
    BY <1>5
  <2>2. n \in 0..n
    BY <1>1
  <2> HIDE DEF same
  <2>3. 0..n \subseteq same
    BY <1>1, <1>4, <2>1, UpTo
  <2> QED
    BY <2>2, <2>3 DEF same
<1>7. k \in 1..Len(more) /\ k - 1 = n
  BY <1>1
<1> HIDE DEF k
<1>8. g[k] = Noted(g[n], e)
  BY <1>1, <1>3, <1>7 DEF Reads
<1>9. f[n] \in States(P)
  BY <1>1, <1>2
<1> QED
  BY <1>1, <1>2, <1>3, <1>6, <1>8, <1>9 DEF more

(* q lists what f shows, but for what is in none: each value once, in the  *)
(* order in which f first shows them.                                      *)
Listed(q, f, none) ==
    /\ \A i, j \in 1..Len(q) : q[i] = q[j] => i = j
    /\ \A i \in 1..Len(q) : q[i] \notin none /\ \E m \in 1..Len(f) : f[m] = q[i]
    /\ \A m \in 1..Len(f) : f[m] \notin none => \E i \in 1..Len(q) : q[i] = f[m]
    /\ \A i, j \in 1..Len(q) : i < j =>
          \A m \in 1..Len(f) : f[m] = q[j] => \E k \in 1..Len(f) : k < m /\ f[k] = q[i]

(* The list of what a sequence shows grows as the sequence does.           *)
LEMMA ListedOfMore ==
    ASSUME NEW T, NEW q \in Seq(T), NEW f \in Seq(T), NEW none, NEW e \in T,
           Listed(q, f, none)
    PROVE  Listed(Adding(q, none, e), Append(f, e), none)
<1> DEFINE n == Len(f)
           g == Append(f, e)
           h == Len(q)
           p == Adding(q, none, e)
<1>1. n \in Nat /\ h \in Nat /\ Len(g) = n + 1 /\ g[n + 1] = e /\ \A m \in 1..n : g[m] = f[m]
  OBVIOUS
<1>2. /\ \A i, j \in 1..h : q[i] = q[j] => i = j
      /\ \A i \in 1..h : q[i] \notin none /\ \E m \in 1..n : f[m] = q[i]
      /\ \A m \in 1..n : f[m] \notin none => \E i \in 1..h : q[i] = f[m]
      /\ \A i, j \in 1..h : i < j =>
            \A m \in 1..n : f[m] = q[j] => \E k \in 1..n : k < m /\ f[k] = q[i]
  BY DEF Listed
<1> HIDE DEF g
<1>3. ASSUME NEW m \in 1..(n + 1) PROVE m = n + 1 \/ m \in 1..n
  BY <1>1
<1>4. ASSUME NEW m \in 1..n PROVE m \in 1..(n + 1) /\ m < n + 1
  BY <1>1
<1>5. \A i, j \in 1..h : i < j =>
         \A m \in 1..(n + 1) : g[m] = q[j] => \E k \in 1..(n + 1) : k < m /\ g[k] = q[i]
  <2> SUFFICES ASSUME NEW i \in 1..h, NEW j \in 1..h, i < j, NEW m \in 1..(n + 1), g[m] = q[j]
               PROVE  \E k \in 1..(n + 1) : k < m /\ g[k] = q[i]
    OBVIOUS
  <2>1. PICK m0 \in 1..n : f[m0] = q[j] /\ m0 <= m
    <3>1. CASE m \in 1..n
      BY <1>1, <3>1
    <3>2. CASE m = n + 1
      <4>1. PICK m0 \in 1..n : f[m0] = q[j]
        BY <1>2
      <4> QED
        BY <1>4, <3>2, <4>1
    <3> QED
      BY <1>3, <3>1, <3>2
  <2>2. PICK k \in 1..n : k < m0 /\ f[k] = q[i]
    BY <1>2, <2>1
  <2>3. k \in 1..(n + 1) /\ k < m /\ g[k] = q[i]
    BY <1>1, <2>1, <2>2
  <2> QED
    BY <2>3
<1>6. \A i \in 1..h : q[i] \notin none /\ \E m \in 1..(n + 1) : g[m] = q[i]
  BY <1>1, <1>2, <1>4
<1>7. CASE e \in none \/ Contains(q, e)
  <2>1. p = q
    BY <1>7 DEF Adding
  <2>2. ASSUME NEW m \in 1..(n + 1), g[m] \notin none PROVE \E i \in 1..h : q[i] = g[m]
    BY <1>1, <1>2, <1>3, <1>7, <2>2 DEF Contains
  <2> HIDE DEF n, h
  <2>3. Listed(q, g, none)
    BY <1>1, <1>2, <1>5, <1>6, <2>2 DEF Listed, h
  <2> QED
    BY <2>1, <2>3 DEF g, p
<1>8. CASE ~(e \in none \/ Contains(q, e))
  <2> DEFINE l == h + 1
  <2>1. p = Append(q, e)
    BY <1>8 DEF Adding
  <2>2. Len(p) = l /\ p[l] = e /\ (\A i \in 1..h : p[i] = q[i]) /\ e \notin none
    BY <1>8, <2>1
  <2>3. \A i \in 1..h : q[i] # e
    BY <1>8 DEF Contains
  <2>4. ASSUME NEW m \in 1..n, f[m] = e PROVE FALSE
    <3>1. f[m] \notin none
      BY <2>2, <2>4
    <3>2. PICK i \in 1..h : q[i] = f[m]
      BY <1>2, <3>1
    <3> QED
      BY <2>3, <2>4, <3>2
  <2>5. \A i \in 1..l : i = l \/ i \in 1..h
    BY <1>1
  <2>6. \A i \in 1..h : i \in 1..l /\ i < l /\ ~(l < i)
    BY <1>1
  <2>7. l \in 1..l /\ n + 1 \in 1..(n + 1) /\ ~(l < l)
    BY <1>1
  <2> HIDE DEF p, l, h
  <2>8. \A i, j \in 1..l : p[i] = p[j] => i = j
    BY <1>2, <2>2, <2>3, <2>5
  <2>9. ASSUME NEW i \in 1..l
        PROVE  p[i] \notin none /\ \E m \in 1..(n + 1) : g[m] = p[i]
    <3>1. CASE i = l
      BY <1>1, <2>2, <2>7, <3>1
    <3>2. CASE i \in 1..h
      BY <1>6, <2>2, <3>2
    <3> QED
      BY <2>5, <3>1, <3>2
  <2>10. ASSUME NEW m \in 1..(n + 1), g[m] \notin none PROVE \E i \in 1..l : p[i] = g[m]
    <3>1. CASE m = n + 1
      BY <1>1, <2>2, <2>7, <3>1
    <3>2. CASE m \in 1..n
      <4>1. PICK i \in 1..h : q[i] = f[m]
        BY <1>1, <1>2, <2>10, <3>2
      <4>2. i \in 1..l /\ p[i] = g[m]
        BY <1>1, <2>2, <2>6, <3>2, <4>1
      <4> QED
        BY <4>2
    <3> QED
      BY <1>3, <3>1, <3>2
  <2>11. ASSUME NEW i \in 1..l, NEW j \in 1..l, i < j, NEW m \in 1..(n + 1), g[m] = p[j]
         PROVE  \E k \in 1..(n + 1) : k < m /\ g[k] = p[i]
    <3>1. i \in 1..h /\ p[i] = q[i]
      BY <2>2, <2>5, <2>6, <2>7, <2>11
    <3>2. CASE j \in 1..h
      BY <1>5, <2>2, <2>11, <3>1, <3>2
    <3>3. CASE j = l
      <4>1. m = n + 1
        BY <1>1, <1>3, <2>2, <2>4, <2>11, <3>3
      <4>2. PICK k \in 1..n : f[k] = q[i]
        BY <1>2, <3>1
      <4> QED
        BY <1>1, <1>4, <3>1, <4>1, <4>2
    <3> QED
      BY <2>5, <3>2, <3>3
  <2> HIDE DEF n
  <2>12. Listed(p, g, none)
    BY <1>1, <2>2, <2>8, <2>9, <2>10, <2>11 DEF Listed
  <2> QED
    BY <2>12 DEF g, p
<1> QED
  BY <1>7, <1>8

(* The departments of tasks, and their prompts for one of them.            *)
Column(u) == [i \in 1..Len(u) |-> u[i].department]
PromptsFor(u, d) == [i \in 1..Len(u) |-> IF u[i].department = d THEN u[i].prompt ELSE <<>>]

(* Both grow with the tasks.                                               *)
ColumnsGrow(P, u, e, v, d) ==
    /\ Column(u) \in Seq(Departments)
    /\ Column(v) = Append(Column(u), e.department)
    /\ PromptsFor(u, d) \in Seq(P \cup {<<>>})
    /\ PromptsFor(v, d)
         = Append(PromptsFor(u, d), IF e.department = d THEN e.prompt ELSE <<>>)

(* A further task adds one entry to each of them.                          *)
LEMMA Columns ==
    ASSUME NEW P, NEW u \in Seq(TasksOf(P)), NEW e \in TasksOf(P), NEW d
    PROVE  ColumnsGrow(P, u, e, Append(u, e), d)
<1> DEFINE n == Len(u)
           v == Append(u, e)
           k == n + 1
           Q == P \cup {<<>>}
           x == IF e.department = d THEN e.prompt ELSE <<>>
<1>1. n \in Nat /\ \A i \in 1..n : u[i].department \in Departments /\ u[i].prompt \in P
  <2>1. n \in Nat /\ \A i \in 1..n : u[i] \in TasksOf(P)
    OBVIOUS
  <2> QED
    BY <2>1 DEF TasksOf
<1>2. e.department \in Departments /\ e.prompt \in P
  BY DEF TasksOf
<1>3. /\ v \in Seq(TasksOf(P)) /\ Len(v) = k /\ v[k] = e
      /\ (\A i \in 1..n : v[i] = u[i]) /\ k \in Nat
  <2> DEFINE all == TasksOf(P)
  <2>1. u \in Seq(all) /\ e \in all
    OBVIOUS
  <2> HIDE DEF all
  <2>2. v \in Seq(all) /\ Len(v) = k /\ v[k] = e /\ k \in Nat
    BY <2>1
  <2>3. \A i \in 1..n : v[i] = u[i]
    BY <2>1
  <2> QED
    BY <2>2, <2>3 DEF all
<1>4. \A i \in 1..k : v[i] \in TasksOf(P) /\ (i = k \/ i \in 1..n)
  BY <1>1, <1>3
<1>5. \A i \in 1..k : v[i].department \in Departments /\ v[i].prompt \in P
  BY <1>4 DEF TasksOf
<1> HIDE DEF v
<1>6. Column(u) \in Seq(Departments) /\ Len(Column(u)) = n
      /\ \A i \in 1..n : Column(u)[i] = u[i].department
  BY <1>1 DEF Column
<1>7. Column(v) \in Seq(Departments) /\ Len(Column(v)) = k
      /\ \A i \in 1..k : Column(v)[i] = v[i].department
  BY <1>3, <1>5 DEF Column
<1>8. Column(v) = Append(Column(u), e.department)
  <2> DEFINE c == Append(Column(u), e.department)
  <2>1. c \in Seq(Departments) /\ Len(c) = k /\ c[k] = e.department
        /\ \A i \in 1..n : c[i] = Column(u)[i]
    BY <1>2, <1>6
  <2> HIDE DEF c, k, n
  <2>2. \A i \in 1..k : c[i] = Column(v)[i]
    BY <1>3, <1>4, <1>6, <1>7, <2>1
  <2>3. c \in Seq(Departments) /\ Column(v) \in Seq(Departments) /\ Len(c) = Len(Column(v))
        /\ \A i \in 1..Len(c) : c[i] = Column(v)[i]
    BY <1>7, <2>1, <2>2
  <2>4. c = Column(v)
    BY <2>3, SameSequence
  <2> QED
    BY <2>4 DEF c
<1>9. PromptsFor(u, d) \in Seq(Q) /\ Len(PromptsFor(u, d)) = n
      /\ \A i \in 1..n : PromptsFor(u, d)[i] = IF u[i].department = d THEN u[i].prompt ELSE <<>>
  <2>1. PromptsFor(u, d) \in [1..n -> Q]
    BY <1>1 DEF PromptsFor
  <2> QED
    BY <1>1, <2>1 DEF PromptsFor
<1>10. PromptsFor(v, d) \in Seq(Q) /\ Len(PromptsFor(v, d)) = k
       /\ \A i \in 1..k : PromptsFor(v, d)[i] = IF v[i].department = d THEN v[i].prompt ELSE <<>>
  <2>1. PromptsFor(v, d) \in [1..k -> Q]
    BY <1>3, <1>5 DEF PromptsFor
  <2> QED
    BY <1>3, <2>1 DEF PromptsFor
<1>11. PromptsFor(v, d) = Append(PromptsFor(u, d), x)
  <2> DEFINE c == Append(PromptsFor(u, d), x)
  <2>1. x \in Q
    BY <1>2
  <2> HIDE DEF Q, x
  <2>2. c \in Seq(Q) /\ Len(c) = k /\ c[k] = x
        /\ \A i \in 1..n : c[i] = PromptsFor(u, d)[i]
    BY <1>9, <2>1
  <2> HIDE DEF c, k, n
  <2>3. ASSUME NEW i \in 1..k PROVE c[i] = PromptsFor(v, d)[i]
    <3>1. PromptsFor(v, d)[i] = IF v[i].department = d THEN v[i].prompt ELSE <<>>
      BY <1>10
    <3>2. CASE i = k
      BY <1>3, <2>2, <3>1, <3>2 DEF x
    <3>3. CASE i \in 1..n
      <4>1. c[i] = PromptsFor(u, d)[i] /\ v[i] = u[i]
        BY <1>3, <2>2, <3>3
      <4>2. PromptsFor(u, d)[i] = IF u[i].department = d THEN u[i].prompt ELSE <<>>
        BY <1>9, <3>3
      <4> QED
        BY <3>1, <4>1, <4>2
    <3> QED
      BY <1>4, <3>2, <3>3
  <2>4. c \in Seq(Q) /\ PromptsFor(v, d) \in Seq(Q) /\ Len(c) = Len(PromptsFor(v, d))
        /\ \A i \in 1..Len(c) : c[i] = PromptsFor(v, d)[i]
    BY <1>10, <2>2, <2>3
  <2>5. c = PromptsFor(v, d)
    BY <2>4, SameSequence
  <2> QED
    BY <2>5 DEF c
<1> QED
  BY <1>6, <1>8, <1>9, <1>11 DEF ColumnsGrow, v

(* What the loop comes to: the departments, and for each its prompts, as   *)
(* the tasks first name them.                                              *)
ReadWell(u, P) ==
    /\ Reading(u) \in States(P)
    /\ \A d : d \in DOMAIN Reading(u).prompts <=> Contains(Reading(u).order, d)
    /\ Listed(Reading(u).order, Column(u), {})
    /\ \A d : Listed(Heard(Reading(u), d), PromptsFor(u, d), {<<>>})

(* After every sequence of tasks the loop has read it well.                *)
LEMMA ReadingIsFaithful ==
    ASSUME NEW P, NEW u \in Seq(TasksOf(P)) PROVE ReadWell(u, P)
<1> DEFINE well == {s \in Seq(TasksOf(P)) : ReadWell(s, P)}
<1>1. <<>> \in well
  <2>1. <<>> \in Seq(TasksOf(P)) /\ Len(<<>>) = 0
    OBVIOUS
  <2>2. Nothing \in States(P) /\ DOMAIN Nothing.prompts = {} /\ Nothing.order = <<>>
    BY NothingRead DEF Nothing
  <2>3. \A d : ~Contains(<<>>, d)
    BY <2>1 DEF Contains
  <2>4. \A d : Heard(Nothing, d) = <<>>
    BY <2>2 DEF Heard
  <2>5. \A f, N : Len(f) = 0 => Listed(<<>>, f, N)
    BY <2>1 DEF Listed
  <2>6. Len(Column(<<>>)) = 0 /\ \A d : Len(PromptsFor(<<>>, d)) = 0
    BY <2>1 DEF Column, PromptsFor
  <2> HIDE DEF well
  <2>7. ReadWell(<<>>, P)
    BY <2>2, <2>3, <2>4, <2>5, <2>6, ReadingOfNone DEF ReadWell
  <2> QED
    BY <2>1, <2>7 DEF well
<1>2. ASSUME NEW s \in Seq(TasksOf(P)), s \in well, NEW e \in TasksOf(P)
      PROVE  Append(s, e) \in well
  <2> DEFINE st == Reading(s)
             v == Append(s, e)
             d0 == e.department
             Q == P \cup {<<>>}
             nt == Noted(st, e)
  <2>1. ReadWell(s, P)
    BY <1>2
  <2>2. st \in States(P) /\ Reading(v) = nt
    BY ReadingOfMore
  <2>3. v \in Seq(TasksOf(P)) /\ d0 \in Departments /\ e.prompt \in P
    BY DEF TasksOf
  <2>4. /\ nt \in States(P) /\ DOMAIN nt.prompts = DOMAIN st.prompts \cup {d0}
        /\ nt.order = IF d0 \in DOMAIN st.prompts THEN st.order ELSE Append(st.order, d0)
        /\ \A d : Heard(nt, d) = IF d = d0 THEN Adding(Heard(st, d), {<<>>}, e.prompt)
                                 ELSE Heard(st, d)
    BY <2>2, NotedAdds
  <2>5. \A d : d \in DOMAIN st.prompts <=> Contains(st.order, d)
    BY <2>1 DEF ReadWell
  <2>6. st.order \in Seq(Departments)
    BY <2>2 DEF States
  <2>12. \A d : ColumnsGrow(P, s, e, v, d)
    BY Columns
  <2> HIDE DEF st, v, nt
  <2>7. nt.order = Adding(st.order, {}, d0)
    BY <2>4, <2>5 DEF Adding
  <2>8. \A d : d \in DOMAIN nt.prompts <=> Contains(nt.order, d)
    <3>1. \A d : Contains(Append(st.order, d0), d) <=> Contains(st.order, d) \/ d = d0
      <4> DEFINE q == st.order
                 k == Len(q) + 1
                 r == Append(q, d0)
      <4>1. Len(r) = k /\ r[k] = d0 /\ \A i \in 1..Len(q) : r[i] = q[i]
        BY <2>3, <2>6
      <4>2. /\ Len(q) \in Nat /\ k \in 1..k
            /\ (\A i \in 1..k : i = k \/ i \in 1..Len(q))
            /\ \A i \in 1..Len(q) : i \in 1..k
        BY <2>6
      <4> HIDE DEF k, r
      <4>3. \A d : Contains(r, d) <=> Contains(q, d) \/ d = d0
        BY <4>1, <4>2 DEF Contains
      <4> QED
        BY <4>3 DEF r
    <3> QED
      BY <2>4, <2>5, <3>1
  <2>9. Listed(nt.order, Column(v), {})
    <3>1. Column(s) \in Seq(Departments) /\ Column(v) = Append(Column(s), d0)
      BY <2>12 DEF ColumnsGrow
    <3>2. Listed(st.order, Column(s), {})
      BY <2>1 DEF ReadWell, st
    <3> QED
      BY <2>3, <2>6, <2>7, <3>1, <3>2, ListedOfMore
  <2>10. ASSUME NEW d PROVE Listed(Heard(nt, d), PromptsFor(v, d), {<<>>})
    <3> DEFINE f == PromptsFor(s, d)
               x == IF d0 = d THEN e.prompt ELSE <<>>
               q == Heard(st, d)
               none == {<<>>}
    <3>1. f \in Seq(Q) /\ PromptsFor(v, d) = Append(f, x)
      BY <2>12 DEF ColumnsGrow
    <3>2. q \in Seq(Q)
      <4>1. q \in Seq(P)
        BY <2>2, HeardType
      <4> QED
        BY <4>1
    <3>3. Listed(q, f, none)
      BY <2>1 DEF ReadWell, st
    <3>4. x \in Q
      BY <2>3
    <3>5. Heard(nt, d) = Adding(q, none, x)
      BY <2>4 DEF Adding
    <3> HIDE DEF f, x, q, Q, none
    <3>6. Listed(Adding(q, none, x), Append(f, x), none)
      BY <3>1, <3>2, <3>3, <3>4, ListedOfMore
    <3> QED
      BY <3>1, <3>5, <3>6 DEF none
  <2>11. ReadWell(v, P)
    BY <2>2, <2>4, <2>8, <2>9, <2>10 DEF ReadWell
  <2> QED
    BY <2>3, <2>11 DEF v
<1> HIDE DEF well
<1>3. Seq(TasksOf(P)) \subseteq well
  BY <1>1, <1>2, Grown
<1> QED
  BY <1>3 DEF well

(* "; ".join of no prompt, of one, and of prompts of one ask each.         *)
LEMMA FlattenOfNone == FlattenSeq(<<>>) = <<>>
<1>1. Len(<<>>) = 0
  OBVIOUS
<1> QED
  BY <1>1 DEF FlattenSeq

(* "; ".join of one prompt is that prompt.                                 *)
LEMMA FlattenOfOne == ASSUME NEW p PROVE FlattenSeq(<<p>>) = p
<1> DEFINE s == <<p>>
           Solves(f) == f = [i \in 1..Len(s) |-> IF i = 1 THEN s[i] ELSE f[i - 1] \o s[i]]
           f0 == [i \in 1..1 |-> p]
<1>1. Len(s) = 1 /\ s[1] = p /\ \A i \in 1..1 : i = 1
  OBVIOUS
<1>2. FlattenSeq(s) = (CHOOSE f : Solves(f))[Len(s)]
  <2>1. Len(s) # 0
    BY <1>1
  <2> HIDE DEF s
  <2> QED
    BY <2>1 DEF FlattenSeq
<1> HIDE DEF s
<1>3. Solves(f0)
  <2>1. \A i \in 1..Len(s) : f0[i] = IF i = 1 THEN s[i] ELSE f0[i - 1] \o s[i]
    BY <1>1
  <2>2. f0 = [i \in 1..Len(s) |-> f0[i]]
    BY <1>1
  <2> HIDE DEF f0
  <2> QED
    BY <2>1, <2>2
<1>4. ASSUME NEW g, Solves(g) PROVE g[1] = p
  BY <1>1, <1>4
<1> HIDE DEF Solves, f0
<1>5. Solves(CHOOSE f : Solves(f))
  BY <1>3
<1> QED
  BY <1>1, <1>2, <1>4, <1>5 DEF s

(* Prompts of one ask each are joined to the sequence of their asks.       *)
LEMMA FlattenOfSingles ==
    ASSUME NEW A, NEW s \in Seq({<<a>> : a \in A})
    PROVE  FlattenSeq(s) = [i \in 1..Len(s) |-> s[i][1]]
<1> DEFINE N == Len(s)
           Solves(f) == f = [i \in 1..Len(s) |-> IF i = 1 THEN s[i] ELSE f[i - 1] \o s[i]]
           joined(n) == [i \in 1..n |-> s[i][1]]
<1>1. N \in Nat /\ \A i \in 1..N : s[i] \in {<<a>> : a \in A}
  OBVIOUS
<1>2. \A i \in 1..N : s[i] = <<s[i][1]>> /\ s[i][1] \in A
  <2> SUFFICES ASSUME NEW i \in 1..N PROVE s[i] = <<s[i][1]>> /\ s[i][1] \in A
    OBVIOUS
  <2>1. PICK a \in A : s[i] = <<a>>
    BY <1>1
  <2> QED
    BY <2>1
<1>3. ASSUME NEW n \in 1..N, n # 1 PROVE joined(n) = joined(n - 1) \o s[n]
  <2> DEFINE last == n - 1
             a == s[n][1]
             both == joined(last) \o <<a>>
  <2>1. last \in Nat /\ n = last + 1 /\ s[n] = <<a>> /\ a \in A
    BY <1>1, <1>2, <1>3
  <2>2. \A i \in 1..n : s[i][1] \in A
    BY <1>1, <1>2
  <2> HIDE DEF last, a
  <2>3. joined(last) \in Seq(A) /\ Len(joined(last)) = last
    BY <2>1, <2>2
  <2>4. joined(n) \in Seq(A) /\ Len(joined(n)) = n
    BY <2>1, <2>2
  <2>5. \A i \in 1..last : joined(last)[i] = s[i][1]
    OBVIOUS
  <2>6. \A i \in 1..n : joined(n)[i] = s[i][1]
    OBVIOUS
  <2>9. s[n][1] = a
    BY DEF a
  <2> HIDE DEF joined
  <2>7. both \in Seq(A) /\ Len(both) = n /\ both[n] = a
        /\ \A i \in 1..last : both[i] = joined(last)[i]
    <3> DEFINE before == joined(last)
    <3>1. before \in Seq(A) /\ a \in A
      BY <2>1, <2>3
    <3>2. both = before \o <<a>>
      OBVIOUS
    <3> HIDE DEF before, both
    <3>3. both = Append(before, a)
      BY <3>1, <3>2, AppendIsConcat
    <3>4. /\ Append(before, a) \in Seq(A) /\ Len(Append(before, a)) = Len(before) + 1
          /\ \A i \in 1..Len(before) : Append(before, a)[i] = before[i]
          /\ Append(before, a)[Len(before) + 1] = a
      BY <3>1, AppendProperties
    <3>5. Len(before) = last
      BY <2>3 DEF before
    <3> QED
      BY <2>1, <3>3, <3>4, <3>5 DEF before
  <2> HIDE DEF both
  <2>8. \A i \in 1..n : both[i] = joined(n)[i]
    <3> SUFFICES ASSUME NEW i \in 1..n PROVE both[i] = joined(n)[i]
      OBVIOUS
    <3>1. i = n \/ i \in 1..last
      BY <2>1
    <3> QED
      BY <2>5, <2>6, <2>7, <2>9, <3>1
  <2>10. both = joined(n)
    BY <2>4, <2>7, <2>8, SameSequence
  <2> QED
    BY <2>1, <2>10 DEF both, last
<1>4. ASSUME N # 0 PROVE joined(1) = s[1]
  <2>1. 1 \in 1..N
    BY <1>1, <1>4
  <2> DEFINE a == s[1][1]
  <2>2. s[1] = <<a>>
    BY <1>2, <2>1
  <2>3. joined(1) = [i \in 1..1 |-> a]
    OBVIOUS
  <2> HIDE DEF a, joined
  <2> QED
    BY <2>2, <2>3
<1> DEFINE f0 == [n \in 1..N |-> joined(n)]
<1>5. Solves(f0)
  <2>1. ASSUME NEW n \in 1..N PROVE f0[n] = IF n = 1 THEN s[n] ELSE f0[n - 1] \o s[n]
    <3>1. n # 1 => n - 1 \in 1..N
      BY <1>1
    <3>2. N # 0
      BY <1>1
    <3> HIDE DEF joined
    <3>3. f0[n] = joined(n) /\ (n # 1 => f0[n - 1] = joined(n - 1))
      BY <3>1
    <3> HIDE DEF f0, N
    <3> QED
      BY <1>3, <1>4, <3>2, <3>3
  <2>2. f0 = [n \in 1..N |-> f0[n]]
    OBVIOUS
  <2> HIDE DEF f0
  <2> QED
    BY <2>1, <2>2
<1> HIDE DEF joined
<1>6. ASSUME NEW g, Solves(g) PROVE g = f0
  <2>1. g = [n \in 1..N |-> g[n]]
    BY <1>6
  <2> DEFINE same == {n \in 0..N : n = 0 \/ g[n] = joined(n)}
  <2>2. 0 \in same
    BY <1>1
  <2>3. ASSUME NEW n \in 1..N, n - 1 \in same PROVE n \in same
    <3>1. n \in 0..N
      BY <1>1
    <3>2. g[n] = IF n = 1 THEN s[n] ELSE g[n - 1] \o s[n]
      BY <1>6
    <3>3. n = 1 \/ (n # 1 /\ g[n - 1] = joined(n - 1))
      BY <2>3
    <3>4. N # 0
      BY <1>1
    <3> HIDE DEF N
    <3>5. g[n] = joined(n)
      BY <1>3, <1>4, <3>2, <3>3, <3>4
    <3> QED
      BY <3>1, <3>5
  <2> HIDE DEF same, N
  <2>4. \A n \in 1..N : n - 1 \in same => n \in same
    BY <2>3
  <2>5. 0..N \subseteq same
    BY <1>1, <2>2, <2>4, UpTo
  <2>6. ASSUME NEW n \in 1..N PROVE g[n] = joined(n)
    <3>1. n \in 0..N /\ n # 0
      BY <1>1
    <3> QED
      BY <2>5, <3>1 DEF same
  <2> QED
    BY <2>1, <2>6
<1> HIDE DEF f0
<1>7. N # 0 => FlattenSeq(s) = (CHOOSE f : Solves(f))[N]
  BY DEF FlattenSeq
<1> HIDE DEF Solves, N
<1>8. (CHOOSE f : Solves(f)) = f0
  BY <1>5, <1>6
<1>9. CASE N # 0
  <2>1. f0[N] = joined(N)
    BY <1>1, <1>9 DEF f0
  <2> QED
    BY <1>7, <1>8, <1>9, <2>1 DEF joined, N
<1>10. CASE N = 0
  <2>1. s = <<>>
    BY <1>10 DEF N
  <2>2. <<>> = [i \in 1..Len(<<>>) |-> <<>>[i][1]]
    OBVIOUS
  <2> QED
    BY <2>1, <2>2, FlattenOfNone
<1> QED
  BY <1>9, <1>10

(* dedupe_tasks, read from the loop's last state.                          *)
LEMMA DedupeFromReading ==
    ASSUME NEW P, NEW u \in Seq(TasksOf(P))
    PROVE  Dedupe(u) = [i \in 1..Len(Reading(u).order) |->
                          [department |-> Reading(u).order[i],
                           prompt |-> FlattenSeq(Heard(Reading(u), Reading(u).order[i]))]]
<1> DEFINE st == Reading(u)
           q == st.order
<1>1. ReadWell(u, P)
  BY ReadingIsFaithful
<1>2. st \in States(P) /\ \A d : d \in DOMAIN st.prompts <=> Contains(q, d)
  BY <1>1 DEF ReadWell
<1>3. q \in Seq(Departments)
  BY <1>2 DEF States
<1>4. DOMAIN q = 1..Len(q)
  BY <1>3
<1>5. \A i \in 1..Len(q) : Heard(st, q[i]) = st.prompts[q[i]]
  BY <1>2 DEF Heard, Contains
<1>6. Dedupe(u) = [i \in DOMAIN q |-> [department |-> q[i],
                                       prompt |-> FlattenSeq(st.prompts[q[i]])]]
  BY DEF Dedupe
<1> HIDE DEF st, q
<1>7. Dedupe(u) = [i \in 1..Len(q) |-> [department |-> q[i],
                                        prompt |-> FlattenSeq(Heard(st, q[i]))]]
  BY <1>4, <1>5, <1>6
<1> QED
  BY <1>7 DEF st, q

(* Tasks for departments of their own stay as they are.                    *)
Distinct(u) == \A i, j \in 1..Len(u) : u[i].department = u[j].department => i = j
Once(p) == IF p = <<>> THEN <<>> ELSE <<p>>
ReadAsIs(u) ==
    /\ Reading(u).order = Column(u)
    /\ \A i \in 1..Len(u) : Heard(Reading(u), u[i].department) = Once(u[i].prompt)

(* Each of them is read as it is, by induction over the tasks.             *)
LEMMA ReadingOfDistinct ==
    ASSUME NEW P, NEW u \in Seq(TasksOf(P)), Distinct(u)
    PROVE  ReadAsIs(u)
<1> DEFINE asis == {s \in Seq(TasksOf(P)) : Distinct(s) => ReadAsIs(s)}
           all == TasksOf(P)
<1>1. <<>> \in asis
  <2>1. <<>> \in Seq(TasksOf(P)) /\ Len(<<>>) = 0
    OBVIOUS
  <2>2. Column(<<>>) = <<>> /\ Nothing.order = <<>>
    BY <2>1 DEF Column, Nothing
  <2>3. ReadAsIs(<<>>)
    BY <2>1, <2>2, ReadingOfNone DEF ReadAsIs
  <2> QED
    BY <2>1, <2>3
<1>2. ASSUME NEW s \in Seq(all), s \in asis, NEW e \in all PROVE Append(s, e) \in asis
  <2> DEFINE st == Reading(s)
             v == Append(s, e)
             d0 == e.department
             nt == Noted(st, e)
             n == Len(s)
             k == n + 1
  <2>1. /\ v \in Seq(all) /\ n \in Nat /\ Len(v) = k /\ v[k] = e
        /\ \A i \in 1..n : v[i] = s[i]
    <3> HIDE DEF all
    <3> QED
      OBVIOUS
  <2>2. (\A i \in 1..n : i \in 1..k /\ i # k) /\ k \in 1..k /\ \A i \in 1..k : i = k \/ i \in 1..n
    BY <2>1
  <2> SUFFICES ASSUME Distinct(v) PROVE ReadAsIs(v)
    BY <2>1
  <2> HIDE DEF v, k
  <2>3. \A i \in 1..n : s[i].department # d0
    BY <2>1, <2>2 DEF Distinct
  <2>4. Distinct(s)
    BY <2>1, <2>2 DEF Distinct, n
  <2>5. ReadAsIs(s)
    BY <1>2, <2>4
  <2>6. ReadWell(s, P)
    BY ReadingIsFaithful
  <2>7. st \in States(P) /\ Reading(v) = nt
    BY ReadingOfMore DEF v
  <2>8. /\ nt.order = IF d0 \in DOMAIN st.prompts THEN st.order ELSE Append(st.order, d0)
        /\ \A d : Heard(nt, d) = IF d = d0 THEN Adding(Heard(st, d), {<<>>}, e.prompt)
                                 ELSE Heard(st, d)
    BY <2>7, NotedAdds
  <2>9. d0 \notin DOMAIN st.prompts
    <3>1. d0 \in DOMAIN st.prompts <=> Contains(Column(s), d0)
      BY <2>5, <2>6 DEF ReadWell, ReadAsIs
    <3>2. Len(Column(s)) = n /\ \A i \in 1..n : Column(s)[i] = s[i].department
      BY <2>1 DEF Column
    <3> QED
      BY <2>3, <3>1, <3>2 DEF Contains
  <2>10. ColumnsGrow(P, s, e, v, d0)
    BY Columns DEF v
  <2> HIDE DEF nt
  <2>11. nt.order = Column(v)
    BY <2>5, <2>8, <2>9, <2>10 DEF ColumnsGrow, ReadAsIs
  <2>12. Adding(<<>>, {<<>>}, e.prompt) = Once(e.prompt)
    <3> DEFINE none == <<>>
    <3>1. ~Contains(none, e.prompt) /\ Append(none, e.prompt) = <<e.prompt>>
      BY DEF Contains
    <3> QED
      BY <3>1 DEF Adding, Once
  <2>13. Heard(nt, d0) = Once(e.prompt)
    <3>1. Heard(st, d0) = <<>>
      BY <2>9 DEF Heard
    <3>2. Heard(nt, d0) = Adding(Heard(st, d0), {<<>>}, e.prompt)
      BY <2>8
    <3> QED
      BY <2>12, <3>1, <3>2
  <2>14. ASSUME NEW i \in 1..k PROVE Heard(nt, v[i].department) = Once(v[i].prompt)
    <3>1. CASE i = k
      BY <2>1, <2>13, <3>1
    <3>2. CASE i \in 1..n
      <4>1. v[i] = s[i] /\ s[i].department # d0
        BY <2>1, <2>3, <3>2
      <4>2. Heard(nt, s[i].department) = Heard(st, s[i].department)
        BY <2>8, <4>1
      <4>3. Heard(st, s[i].department) = Once(s[i].prompt)
        BY <2>5, <3>2 DEF ReadAsIs
      <4> QED
        BY <4>1, <4>2, <4>3
    <3> QED
      BY <2>2, <3>1, <3>2
  <2> QED
    BY <2>1, <2>7, <2>11, <2>14 DEF ReadAsIs
<1> HIDE DEF asis
<1>3. Seq(all) \subseteq asis
  BY <1>1, <1>2, Grown
<1> QED
  BY <1>3 DEF asis

(* So a second pass of dedupe_tasks changes nothing.                       *)
LEMMA DedupeOfDistinct ==
    ASSUME NEW P, NEW u \in Seq(TasksOf(P)), Distinct(u)
    PROVE  Dedupe(u) = u
<1> DEFINE q == Reading(u).order
           n == Len(u)
           entry(i) == [department |-> q[i], prompt |-> FlattenSeq(Heard(Reading(u), q[i]))]
<1>1. ReadAsIs(u)
  BY ReadingOfDistinct
<1>2. n \in Nat /\ (\A i \in 1..n : u[i] \in TasksOf(P)) /\ u = [i \in 1..n |-> u[i]]
  <2> DEFINE all == TasksOf(P)
  <2>1. u \in Seq(all)
    OBVIOUS
  <2> HIDE DEF all
  <2>2. n \in Nat /\ (\A i \in 1..n : u[i] \in all) /\ u = [i \in 1..n |-> u[i]]
    BY <2>1
  <2> QED
    BY <2>2 DEF all
<1>3. q = Column(u)
  BY <1>1 DEF ReadAsIs
<1>4. Len(q) = n /\ \A i \in 1..n : q[i] = u[i].department
  BY <1>2, <1>3 DEF Column
<1>5. \A p : FlattenSeq(Once(p)) = p
  BY FlattenOfNone, FlattenOfOne DEF Once
<1>6. Dedupe(u) = [i \in 1..Len(q) |-> entry(i)]
  BY DedupeFromReading
<1> HIDE DEF q, n
<1>7. ASSUME NEW i \in 1..n PROVE entry(i) = u[i]
  <2>1. u[i] = [department |-> u[i].department, prompt |-> u[i].prompt]
    BY <1>2 DEF TasksOf
  <2>2. Heard(Reading(u), q[i]) = Once(u[i].prompt)
    BY <1>1, <1>4 DEF ReadAsIs, n
  <2>3. FlattenSeq(Heard(Reading(u), q[i])) = u[i].prompt
    BY <1>5, <2>2
  <2> QED
    BY <1>4, <2>1, <2>3
<1> HIDE DEF entry
<1>8. Dedupe(u) = [i \in 1..n |-> u[i]]
  BY <1>4, <1>6, <1>7
<1> QED
  BY <1>2, <1>8

(* What a department is asked: all its prompts.                            *)
Joined(u, d) == FlattenSeq(Heard(Reading(u), d))
Prompts == {<<>>} \cup {<<a>> : a \in Asks}

(* A plan's tasks have no prompt, or a prompt of one ask.                  *)
LEMMA TasksAreTasks == Tasks = TasksOf(Prompts)
BY DEF Tasks, TasksOf, Prompts

(* The asks for a department are the prompts that were heard for it.       *)
LEMMA PromptsJoined ==
    ASSUME NEW u \in Seq(Tasks), NEW d
    PROVE  /\ Joined(u, d) \in Seq(Asks) /\ Len(Joined(u, d)) = Len(Heard(Reading(u), d))
           /\ \A i \in 1..Len(Joined(u, d)) : Heard(Reading(u), d)[i] = <<Joined(u, d)[i]>>
<1> DEFINE h == Heard(Reading(u), d)
           n == Len(h)
           singles == {<<a>> : a \in Asks}
<1>1. ReadWell(u, Prompts)
  BY TasksAreTasks, ReadingIsFaithful
<1>2. h \in Seq(Prompts)
  BY <1>1, HeardType DEF ReadWell
<1>3. Listed(h, PromptsFor(u, d), {<<>>})
  BY <1>1 DEF ReadWell
<1> HIDE DEF h
<1>4. n \in Nat /\ h = [i \in 1..n |-> h[i]] /\ \A i \in 1..n : h[i] \in singles
  <2>1. \A i \in 1..n : h[i] \in Prompts /\ h[i] # <<>>
    BY <1>2, <1>3 DEF Listed
  <2> QED
    BY <1>2, <2>1 DEF Prompts
<1>5. h \in Seq(singles)
  <2> HIDE DEF singles, n
  <2>1. h \in [1..n -> singles]
    BY <1>4
  <2> QED
    BY <1>4, <2>1
<1>6. FlattenSeq(h) = [i \in 1..Len(h) |-> h[i][1]]
  BY <1>5, FlattenOfSingles
<1>7. \A i \in 1..n : h[i] = <<h[i][1]>> /\ h[i][1] \in Asks
  <2> SUFFICES ASSUME NEW i \in 1..n PROVE h[i] = <<h[i][1]>> /\ h[i][1] \in Asks
    OBVIOUS
  <2>1. PICK a \in Asks : h[i] = <<a>>
    BY <1>4
  <2> QED
    BY <2>1
<1> HIDE DEF n
<1> DEFINE p == [i \in 1..n |-> h[i][1]]
<1>8. p \in Seq(Asks) /\ Len(p) = n /\ \A i \in 1..n : p[i] = h[i][1]
  <2>1. p \in [1..n -> Asks]
    BY <1>7
  <2> QED
    BY <1>4, <2>1
<1>9. Joined(u, d) = p
  BY <1>6 DEF Joined, h, n
<1> HIDE DEF p
<1>10. \A i \in 1..n : h[i] = <<p[i]>>
  BY <1>7, <1>8
<1> QED
  BY <1>8, <1>9, <1>10 DEF h, n

(* The requests of a plan: one for each of the first departments it names, *)
(* with all it asks of them.                                               *)
LEMMA RequestsOfPlan ==
    ASSUME NEW u \in Seq(Tasks), NEW cap \in Nat \ {0}
    PROVE  PlanToRequests(FirstTasks(Dedupe(u), cap))
             = [i \in 1..Min({cap, Len(Reading(u).order)}) |->
                  [request_id |-> <<Reading(u).order[i], i>>,
                   department |-> Reading(u).order[i],
                   query |-> Joined(u, Reading(u).order[i])]]
<1> DEFINE q == Reading(u).order
           l == Len(q)
           D == Dedupe(u)
           n == Min({cap, l})
           F == FirstTasks(D, cap)
           all == TasksOf(Seq(Asks))
<1>1. ReadWell(u, Prompts)
  BY TasksAreTasks, ReadingIsFaithful
<1>2. q \in Seq(Departments) /\ l \in Nat /\ \A i \in 1..l : q[i] \in Departments
  <2>1. q \in Seq(Departments)
    BY <1>1 DEF ReadWell, States
  <2> HIDE DEF q
  <2> QED
    BY <2>1
<1>3. D = [i \in 1..l |-> [department |-> q[i], prompt |-> Joined(u, q[i])]]
  BY TasksAreTasks, DedupeFromReading DEF Joined
<1>4. \A i, j \in 1..l : q[i] = q[j] => i = j
  BY <1>1 DEF ReadWell, Listed
<1>5. \A i \in 1..l : Joined(u, q[i]) \in Seq(Asks)
  BY PromptsJoined
<1> HIDE DEF q, D, all
<1>6. D \in Seq(all) /\ Len(D) = l
  <2>1. D \in [1..l -> all]
    BY <1>2, <1>3, <1>5 DEF all, TasksOf
  <2> HIDE DEF l
  <2> QED
    BY <1>2, <2>1
<1> HIDE DEF l
<1>7. n \in Nat /\ n <= l /\ n = IF cap <= l THEN cap ELSE l
  <2>1. cap \in Int /\ l \in Int
    BY <1>2
  <2>2. n = IF cap <= l THEN cap ELSE l
    BY <2>1, OfTwo
  <2> HIDE DEF n
  <2> QED
    BY <1>2, <2>2
<1>8. F = SubSeq(D, 1, n)
  BY <1>6 DEF FirstTasks
<1> HIDE DEF n, F
<1>9. F \in Seq(all) /\ Len(F) = n /\ DOMAIN F = 1..n /\ \A i \in 1..n : F[i] = D[i]
  <2>1. \A i \in 1..n : i \in 1..l
    BY <1>2, <1>7
  <2>2. \A i \in 1..n : D[i] \in all
    BY <1>6, <2>1
  <2>3. F = [i \in 1..n |-> D[i]]
    BY <1>6, <1>7, <1>8
  <2>4. F \in [1..n -> all]
    BY <2>2, <2>3
  <2> QED
    BY <1>7, <2>3, <2>4
<1> DEFINE entry(i) == [department |-> q[i], prompt |-> Joined(u, q[i])]
<1>10. \A i \in 1..n : F[i] = entry(i)
  <2>1. \A i \in 1..n : i \in 1..l
    BY <1>2, <1>7
  <2>2. D = [i \in 1..l |-> entry(i)]
    BY <1>3
  <2> HIDE DEF entry
  <2> QED
    BY <1>9, <2>1, <2>2
<1>11. \A i \in 1..n : F[i].department = q[i] /\ F[i].prompt = Joined(u, q[i])
  <2> SUFFICES ASSUME NEW i \in 1..n
               PROVE  F[i].department = q[i] /\ F[i].prompt = Joined(u, q[i])
    OBVIOUS
  <2>1. entry(i).department = q[i] /\ entry(i).prompt = Joined(u, q[i])
    OBVIOUS
  <2>2. F[i] = entry(i)
    BY <1>10
  <2> HIDE DEF entry
  <2> QED
    BY <2>1, <2>2
<1>12. Distinct(F)
  <2>1. \A i \in 1..n : i \in 1..l
    BY <1>2, <1>7
  <2> QED
    BY <1>4, <1>9, <1>11, <2>1 DEF Distinct
<1>13. Dedupe(F) = F
  <2>1. F \in Seq(TasksOf(Seq(Asks)))
    BY <1>9 DEF all
  <2> QED
    BY <1>12, <2>1, DedupeOfDistinct
<1>15. PlanToRequests(F) = [i \in 1..n |-> [request_id |-> <<F[i].department, i>>,
                                            department |-> F[i].department,
                                            query |-> F[i].prompt]]
  BY <1>9, <1>13 DEF PlanToRequests
<1>16. PlanToRequests(F) = [i \in 1..n |-> [request_id |-> <<q[i], i>>,
                                            department |-> q[i],
                                            query |-> Joined(u, q[i])]]
  BY <1>11, <1>15
<1> QED
  BY <1>16 DEF F, D, n, q, l

-----------------------------------------------------------------------------
(* What the requests of a run are made of.                                 *)
PlanInv ==
    /\ stage = "planned" =>
         /\ answer \in Seq(Tasks) /\ Valid(answer)
         /\ config \in ConfigSet
         /\ requests = PlanToRequests(FirstTasks(Dedupe(answer), config.max_gatherers))
    /\ stage # "planned" => answer = <<>> /\ requests = <<>>

(* There is no plan at the start.                                          *)
LEMMA PlanInitInv == Init => PlanInv
BY DEF Init, PlanInv

(* Every step keeps the requests those of the answer.                      *)
LEMMA PlanNextInv == ConfigInv /\ PlanInv /\ [Next]_vars => PlanInv'
<1> SUFFICES ASSUME ConfigInv, PlanInv, [Next]_vars PROVE PlanInv'
  OBVIOUS
<1>1. ASSUME NEW o \in Overrides, NEW c \in Configs \cup {NoConfig}, Refused(c, o)
      PROVE  PlanInv'
  BY <1>1 DEF Refused, planVars, PlanInv
<1>2. ASSUME NEW o \in Overrides, NEW c \in Configs, Accepted(c, o) PROVE PlanInv'
  BY <1>2 DEF Accepted, planVars, PlanInv
<1>3. ASSUME NEW e, Except(e), stage = "asking" PROVE PlanInv'
  <2>1. stage' # "planned" /\ UNCHANGED <<answer, requests>>
    BY <1>3 DEF Except, planVars
  <2> QED
    BY <1>3, <2>1 DEF PlanInv
<1>4. ASSUME NEW e \in Failures, CallFails(e) PROVE PlanInv'
  BY <1>3, <1>4 DEF CallFails
<1>5. CASE CallAgain
  BY <1>5 DEF CallAgain, planVars, PlanInv
<1>6. CASE Cancelled
  BY <1>6 DEF Cancelled, planVars, PlanInv
<1>7. ASSUME NEW tasks, NotAPlan(tasks) PROVE PlanInv'
  BY <1>3, <1>7 DEF NotAPlan
<1>8. ASSUME NEW tasks \in BoundedSeq(Tasks, MaxTasks), Planned(tasks) PROVE PlanInv'
  <2>1. tasks \in Seq(Tasks)
    <3>1. PICK m \in 0..MaxTasks : tasks \in [1..m -> Tasks]
      BY DEF BoundedSeq, SeqOf
    <3>2. m \in Nat
      BY PlanningAssumption
    <3> QED
      BY <3>1, <3>2
  <2>2. /\ stage' = "planned" /\ answer' = tasks /\ config' = config
        /\ requests' = PlanToRequests(FirstTasks(Dedupe(tasks), config.max_gatherers))
        /\ Valid(tasks)
    BY <1>8 DEF Planned
  <2>3. config \in ConfigSet
    BY <1>8 DEF Planned, ConfigInv
  <2>4. Valid(answer)'
    BY <2>2 DEF Valid
  <2> QED
    BY <2>1, <2>2, <2>3, <2>4 DEF PlanInv
<1>9. CASE Resting \/ UNCHANGED vars
  <2>1. UNCHANGED <<stage, answer, requests, config>>
    BY <1>9 DEF Resting, vars, planVars
  <2>2. Valid(answer)' <=> Valid(answer)
    BY <2>1 DEF Valid
  <2> QED
    BY <2>1, <2>2 DEF PlanInv
<1> QED
  BY <1>1, <1>2, <1>4, <1>5, <1>6, <1>7, <1>8, <1>9 DEF Next

(* The first of some positions is one of them.                             *)
LEMMA FirstIsLeast ==
    ASSUME NEW k \in Nat, NEW S, S \subseteq 1..k, S # {}
    PROVE  Min(S) \in S /\ \A n \in S : Min(S) <= n
<1> DEFINE IsLeast(n) == \A m \in S : n <= m
<1>1. \E n \in S : IsLeast(n)
  BY LeastMember
<1>2. Min(S) = CHOOSE n \in S : IsLeast(n)
  BY DEF Min
<1>3. Min(S) \in S /\ IsLeast(Min(S))
  <2> HIDE DEF IsLeast
  <2> QED
    BY <1>1, <1>2
<1> QED
  BY <1>3

(* As many values as positions, when no value has two.                     *)
LEMMA CountOfDistinct ==
    ASSUME NEW n \in Nat, NEW f, NEW S, \A x : x \in S <=> \E i \in 1..n : f[i] = x,
           \A i, j \in 1..n : f[i] = f[j] => i = j
    PROVE  Cardinality(S) = n
<1> DEFINE g == [i \in 1..n |-> f[i]]
<1>1. g \in Bijection(1..n, S)
  BY DEF Bijection, Injection, Surjection, IsInjective
<1> HIDE DEF g
<1>2. ExistsBijection(1..n, S)
  BY <1>1 DEF ExistsBijection
<1> QED
  BY <1>2, FS_CountingElements

(* The requests of a plan, one by one.                                     *)
Order == Reading(answer).order
Shape ==
    LET n == Len(requests) IN
    /\ n \in Nat /\ n <= Len(Order) /\ DOMAIN requests = 1..n
    /\ n = Min({config.max_gatherers, Len(Order)})
    /\ \A i \in 1..n : /\ requests[i].request_id = <<Order[i], i>>
                       /\ requests[i].department = Order[i]
                       /\ requests[i].query = Joined(answer, Order[i])

(* The requests of a plan that was taken have that shape.                  *)
LEMMA PlanHasShape == PlanInv /\ stage = "planned" => Shape
<1> SUFFICES ASSUME PlanInv, stage = "planned" PROVE Shape
  OBVIOUS
<1> DEFINE cap == config.max_gatherers
           q == Order
           l == Len(q)
           n == Min({cap, l})
           entry(i) == [request_id |-> <<q[i], i>>, department |-> q[i],
                        query |-> Joined(answer, q[i])]
<1>1. answer \in Seq(Tasks) /\ config \in ConfigSet
      /\ requests = PlanToRequests(FirstTasks(Dedupe(answer), cap))
  BY DEF PlanInv
<1>2. cap \in Nat \ {0}
  BY <1>1 DEF ConfigSet
<1>3. requests = [i \in 1..n |-> entry(i)]
  <2>1. answer \in Seq(Tasks) /\ cap \in Nat \ {0}
    BY <1>1, <1>2
  <2> HIDE DEF cap
  <2>2. PlanToRequests(FirstTasks(Dedupe(answer), cap)) = [i \in 1..n |-> entry(i)]
    BY <2>1, RequestsOfPlan DEF Order
  <2> QED
    BY <1>1, <2>2
<1>4. l \in Nat
  <2>1. ReadWell(answer, Prompts)
    BY <1>1, TasksAreTasks, ReadingIsFaithful
  <2>2. q \in Seq(Departments)
    BY <2>1 DEF ReadWell, States, Order
  <2> QED
    BY <2>2
<1> HIDE DEF l, cap
<1>5. n \in Nat /\ n <= l
  <2>1. cap \in Int /\ l \in Int
    BY <1>2, <1>4
  <2>2. n = IF cap <= l THEN cap ELSE l
    BY <2>1, OfTwo
  <2> HIDE DEF n
  <2> QED
    BY <1>2, <1>4, <2>2
<1> HIDE DEF n
<1>6. \A i \in 1..n : /\ entry(i).request_id = <<q[i], i>>
                      /\ entry(i).department = q[i] /\ entry(i).query = Joined(answer, q[i])
  OBVIOUS
<1> HIDE DEF entry, q
<1>7. Len(requests) = n /\ DOMAIN requests = 1..n /\ \A i \in 1..n : requests[i] = entry(i)
  BY <1>3, <1>5
<1> QED
  BY <1>5, <1>6, <1>7 DEF Shape, n, l, q, cap

(* Its departments were read as the answer first names them.               *)
LEMMA PlanIsRead ==
    ASSUME PlanInv, stage = "planned"
    PROVE  /\ answer \in Seq(Tasks) /\ Valid(answer) /\ Len(answer) \in Nat
           /\ DOMAIN answer = 1..Len(answer)
           /\ Order \in Seq(Departments) /\ Len(Order) \in Nat
           /\ Listed(Order, Column(answer), {})
           /\ Len(Column(answer)) = Len(answer)
           /\ \A i \in 1..Len(answer) : Column(answer)[i] = answer[i].department
<1>1. answer \in Seq(Tasks) /\ Valid(answer)
  BY DEF PlanInv
<1>2. ReadWell(answer, Prompts)
  BY <1>1, TasksAreTasks, ReadingIsFaithful
<1>3. Order \in Seq(Departments) /\ Listed(Order, Column(answer), {})
  BY <1>2 DEF ReadWell, States, Order
<1>4. Len(answer) \in Nat /\ DOMAIN answer = 1..Len(answer)
  BY <1>1
<1>5. /\ Len(Column(answer)) = Len(answer)
      /\ \A i \in 1..Len(answer) : Column(answer)[i] = answer[i].department
  BY <1>4 DEF Column
<1> QED
  BY <1>1, <1>3, <1>4, <1>5

(* One gatherer per department, under an id of its own, as many as allowed.*)
LEMMA OneEach ==
    ASSUME PlanInv, stage = "planned"
    PROVE  /\ Served \subseteq config.departments
           /\ Cardinality(Served) = Len(requests)
           /\ Cardinality({requests[i].request_id : i \in DOMAIN requests}) = Len(requests)
           /\ Len(requests) = Min({config.max_gatherers, Cardinality(Mentioned)})
<1> DEFINE n == Len(requests)
           l == Len(Order)
           m == Len(answer)
<1>1. /\ n \in Nat /\ n <= l /\ DOMAIN requests = 1..n /\ n = Min({config.max_gatherers, l})
      /\ \A i \in 1..n : requests[i].department = Order[i]
                         /\ requests[i].request_id = <<Order[i], i>>
  BY PlanHasShape DEF Shape
<1>2. /\ l \in Nat /\ DOMAIN answer = 1..m
      /\ \A i \in 1..m : Column(answer)[i] = answer[i].department
      /\ \A i, j \in 1..l : Order[i] = Order[j] => i = j
      /\ \A i \in 1..l : \E k \in 1..m : Column(answer)[k] = Order[i]
      /\ \A k \in 1..m : \E i \in 1..l : Order[i] = Column(answer)[k]
      /\ \A k \in 1..m : answer[k].department \in config.departments
  BY PlanIsRead DEF Listed, Valid
<1> HIDE DEF n, l, m
<1>3. \A i \in 1..n : i \in 1..l
  BY <1>1, <1>2
<1>4. Served = {Order[i] : i \in 1..n}
  BY <1>1 DEF Served
<1>5. Mentioned = {Order[i] : i \in 1..l}
  <2>1. Mentioned = {answer[k].department : k \in 1..m}
    BY <1>2 DEF Mentioned
  <2>2. \A x : x \in Mentioned <=> x \in {Order[i] : i \in 1..l}
    BY <1>2, <2>1
  <2> QED
    BY <2>2
<1>6. Served \subseteq config.departments
  BY <1>2, <1>3, <1>4
<1> DEFINE order == Order
<1>7. Cardinality(Served) = n
  <2>1. /\ n \in Nat /\ \A x : x \in Served <=> \E i \in 1..n : order[i] = x
        /\ \A i, j \in 1..n : order[i] = order[j] => i = j
    <3>1. n \in Nat
      BY <1>1
    <3>2. \A x : x \in Served <=> \E i \in 1..n : order[i] = x
      BY <1>4
    <3>3. ASSUME NEW i \in 1..n, NEW j \in 1..n, order[i] = order[j] PROVE i = j
      <4>1. i \in 1..l /\ j \in 1..l
        BY <1>3
      <4> QED
        BY <1>2, <3>3, <4>1
    <3> QED
      BY <3>1, <3>2, <3>3
  <2> HIDE DEF order
  <2> QED
    BY <2>1, CountOfDistinct
<1>8. Cardinality(Mentioned) = l
  <2>1. /\ l \in Nat /\ \A x : x \in Mentioned <=> \E i \in 1..l : order[i] = x
        /\ \A i, j \in 1..l : order[i] = order[j] => i = j
    BY <1>2, <1>5
  <2> HIDE DEF order
  <2> QED
    BY <2>1, CountOfDistinct
<1>9. Cardinality({requests[i].request_id : i \in DOMAIN requests}) = n
  <2> DEFINE f == [i \in 1..n |-> <<Order[i], i>>]
             S == {requests[i].request_id : i \in DOMAIN requests}
  <2>1. \A i \in 1..n : f[i] = requests[i].request_id
    BY <1>1
  <2>2. \A i, j \in 1..n : f[i] = f[j] => i = j
    OBVIOUS
  <2>4. \A x : x \in S <=> \E i \in 1..n : f[i] = x
    <3> HIDE DEF f
    <3> QED
      BY <1>1, <2>1
  <2> HIDE DEF f, S
  <2>3. Cardinality(S) = n
    <3>1. n \in Nat
      BY <1>1
    <3> QED
      BY <2>2, <2>4, <3>1, CountOfDistinct
  <2> QED
    BY <2>3 DEF S
<1> QED
  BY <1>1, <1>6, <1>7, <1>8, <1>9 DEF n

(* The departments served are those the plan mentions first.               *)
LEMMA FirstComeFirstServed ==
    ASSUME PlanInv, stage = "planned", NEW d \in Served, NEW e \in Mentioned \ Served
    PROVE  FirstMention(d) < FirstMention(e)
<1> DEFINE n == Len(requests)
           l == Len(Order)
           m == Len(answer)
           col == Column(answer)
           At(x) == {i \in DOMAIN answer : answer[i].department = x}
<1>1. /\ n \in Nat /\ n <= l /\ DOMAIN requests = 1..n
      /\ \A i \in 1..n : requests[i].department = Order[i]
  BY PlanHasShape DEF Shape
<1>2. /\ l \in Nat /\ m \in Nat /\ DOMAIN answer = 1..m
      /\ \A i \in 1..m : col[i] = answer[i].department
      /\ \A k \in 1..m : \E i \in 1..l : Order[i] = col[k]
      /\ \A i, j \in 1..l : i < j =>
            \A k \in 1..m : col[k] = Order[j] => \E h \in 1..m : h < k /\ col[h] = Order[i]
  BY PlanIsRead DEF Listed
<1> HIDE DEF n, l, m, col
<1>3. PICK i \in 1..n : Order[i] = d
  BY <1>1 DEF Served
<1>4. PICK j \in 1..l : Order[j] = e
  <2>1. PICK k \in 1..m : answer[k].department = e
    BY <1>2 DEF Mentioned
  <2>2. PICK i0 \in 1..l : Order[i0] = col[k]
    BY <1>2
  <2>3. col[k] = e
    BY <1>2, <2>1
  <2> QED
    BY <2>2, <2>3
<1>5. j \notin 1..n
  BY <1>1, <1>4 DEF Served
<1>6. i \in 1..l /\ i < j
  BY <1>1, <1>2, <1>5
<1>7. At(e) \subseteq 1..m /\ At(e) # {}
  BY <1>2 DEF Mentioned
<1>8. Min(At(e)) \in At(e)
  BY <1>2, <1>7, FirstIsLeast
<1>9. PICK h \in 1..m : h < Min(At(e)) /\ col[h] = d
  <2> DEFINE t == Min(At(e))
  <2>1. t \in 1..m /\ col[t] = e
    BY <1>2, <1>8
  <2> HIDE DEF t
  <2>2. \A k \in 1..m : col[k] = Order[j] => \E h \in 1..m : h < k /\ col[h] = Order[i]
    BY <1>2, <1>6
  <2>3. \E h \in 1..m : h < t /\ col[h] = d
    BY <1>3, <1>4, <2>1, <2>2
  <2> QED
    BY <2>3 DEF t
<1>10. h \in At(d) /\ At(d) \subseteq 1..m /\ At(d) # {}
  BY <1>2, <1>9
<1>11. Min(At(d)) \in At(d) /\ Min(At(d)) <= h
  BY <1>2, <1>10, FirstIsLeast
<1>12. Min(At(d)) < Min(At(e))
  <2>1. Min(At(d)) \in Int /\ Min(At(e)) \in Int
    BY <1>7, <1>8, <1>10, <1>11
  <2> HIDE DEF At
  <2> QED
    BY <1>9, <1>11, <2>1
<1> QED
  BY <1>12 DEF FirstMention

(* A department is asked all the plan asks of it, once and in its order.   *)
AllAsked(d, query) ==
    LET At(a) == {i \in DOMAIN answer : answer[i].department = d /\ answer[i].prompt = <<a>>}
    IN /\ IsInjective(query)
       /\ \A a \in Asks : At(a) # {} <=> a \in ToSet(query)
       /\ \A i, j \in DOMAIN query : i < j => Min(At(query[i])) < Min(At(query[j]))

(* By what dedupe_tasks heard for it, each ask once and in order.          *)
LEMMA NoAskIsLost ==
    ASSUME PlanInv, stage = "planned", NEW d PROVE AllAsked(d, Joined(answer, d))
<1> DEFINE h == Heard(Reading(answer), d)
           f == PromptsFor(answer, d)
           p == Joined(answer, d)
           m == Len(answer)
           n == Len(p)
           At(a) == {i \in DOMAIN answer : answer[i].department = d /\ answer[i].prompt = <<a>>}
<1>1. answer \in Seq(Tasks) /\ m \in Nat /\ DOMAIN answer = 1..m
  BY PlanIsRead
<1>2. Listed(h, f, {<<>>})
  BY <1>1, TasksAreTasks, ReadingIsFaithful DEF ReadWell
<1>3. p \in Seq(Asks) /\ Len(h) = n /\ \A i \in 1..n : h[i] = <<p[i]>>
  BY <1>1, PromptsJoined
<1>4. Len(f) = m /\ \A i \in 1..m : f[i] = IF answer[i].department = d THEN answer[i].prompt ELSE <<>>
  BY <1>1 DEF PromptsFor
<1> HIDE DEF p, h, f
<1>5. n \in Nat /\ DOMAIN p = 1..n /\ \A i \in 1..n : p[i] \in Asks
  BY <1>3
<1> HIDE DEF n, m
<1>6. ASSUME NEW a, NEW i \in 1..m PROVE i \in At(a) <=> f[i] = <<a>>
  BY <1>1, <1>4
<1>7. \A a : At(a) \subseteq 1..m
  BY <1>1
<1> HIDE DEF At
<1>8. /\ \A i, j \in 1..n : h[i] = h[j] => i = j
      /\ \A i \in 1..n : \E k \in 1..m : f[k] = h[i]
      /\ \A k \in 1..m : f[k] \notin {<<>>} => \E i \in 1..n : h[i] = f[k]
      /\ \A i, j \in 1..n : i < j =>
            \A k \in 1..m : f[k] = h[j] => \E g \in 1..m : g < k /\ f[g] = h[i]
  BY <1>2, <1>3, <1>4 DEF Listed
<1>9. IsInjective(p)
  <2>1. ASSUME NEW i \in 1..n, NEW j \in 1..n, p[i] = p[j] PROVE i = j
    <3>1. h[i] = h[j]
      BY <1>3, <2>1
    <3> QED
      BY <1>8, <3>1
  <2> QED
    BY <1>5, <2>1 DEF IsInjective
<1>10. ASSUME NEW i \in 1..n PROVE At(p[i]) # {}
  <2>1. PICK k \in 1..m : f[k] = h[i]
    BY <1>8
  <2>2. f[k] = <<p[i]>>
    BY <1>3, <2>1
  <2>3. k \in At(p[i])
    BY <1>6, <2>2
  <2> QED
    BY <2>3
<1>11. ASSUME NEW a \in Asks PROVE At(a) # {} <=> a \in ToSet(p)
  <2>1. ASSUME At(a) # {} PROVE \E i \in 1..n : p[i] = a
    <3>1. PICK k \in 1..m : f[k] = <<a>>
      BY <1>6, <1>7, <2>1
    <3>2. f[k] \notin {<<>>}
      BY <3>1
    <3>3. PICK i \in 1..n : h[i] = f[k]
      BY <1>8, <3>2
    <3>4. <<p[i]>> = <<a>>
      BY <1>3, <3>1, <3>3
    <3> QED
      BY <3>4
  <2> QED
    BY <1>5, <1>10, <2>1 DEF ToSet
<1>12. ASSUME NEW i \in 1..n, NEW j \in 1..n, i < j PROVE Min(At(p[i])) < Min(At(p[j]))
  <2> DEFINE S == At(p[i])
             T == At(p[j])
  <2>1. S \subseteq 1..m /\ S # {} /\ T \subseteq 1..m /\ T # {}
    BY <1>7, <1>10
  <2> HIDE DEF S, T
  <2>2. Min(S) \in S /\ (\A k \in S : Min(S) <= k) /\ Min(T) \in T
    BY <1>1, <2>1, FirstIsLeast
  <2>3. Min(T) \in 1..m
    BY <2>1, <2>2
  <2>4. f[Min(T)] = h[j]
    BY <1>3, <1>6, <2>2, <2>3 DEF T
  <2>5. PICK g \in 1..m : g < Min(T) /\ f[g] = h[i]
    BY <1>8, <1>12, <2>3, <2>4
  <2>6. g \in S
    BY <1>3, <1>6, <2>5 DEF S
  <2>7. Min(S) < Min(T)
    <3>1. Min(S) \in 1..m /\ Min(S) <= g
      BY <2>1, <2>2, <2>6
    <3> QED
      BY <1>1, <2>3, <2>5, <3>1
  <2> QED
    BY <2>7 DEF S, T
<1> QED
  BY <1>5, <1>9, <1>11, <1>12 DEF AllAsked, p, At

(* The fan-out costs one gatherer per department and loses no ask.         *)
THEOREM FanOutIsTrue == Spec => []FanOut
<1>1. PlanInv => FanOut
  <2> SUFFICES ASSUME PlanInv, stage = "planned" PROVE FanOut
    BY DEF FanOut
  <2>1. \A k \in DOMAIN requests : /\ requests[k].department = Order[k]
                                   /\ requests[k].query = Joined(answer, Order[k])
    BY PlanHasShape DEF Shape
  <2>2. \A k \in DOMAIN requests : AllAsked(Order[k], Joined(answer, Order[k]))
    BY NoAskIsLost
  <2>3. ASSUME NEW k \in DOMAIN requests
        PROVE  LET query == requests[k].query
                   asked(i) == answer[i].department = requests[k].department
                   At(a) == {i \in DOMAIN answer : asked(i) /\ answer[i].prompt = <<a>>}
               IN /\ IsInjective(query)
                  /\ \A a \in Asks : At(a) # {} <=> a \in ToSet(query)
                  /\ \A i, j \in DOMAIN query : i < j => Min(At(query[i])) < Min(At(query[j]))
    <3>1. AllAsked(requests[k].department, requests[k].query)
      BY <2>1, <2>2
    <3> QED
      BY <3>1 DEF AllAsked
  <2>4. \A d \in Served, e \in Mentioned \ Served : FirstMention(d) < FirstMention(e)
    BY FirstComeFirstServed
  <2> QED
    BY <2>3, <2>4, OneEach DEF FanOut
<1>2. Init => ConfigInv /\ PlanInv
  BY ConfigInitInv, PlanInitInv
<1>3. ConfigInv /\ PlanInv /\ [Next]_vars => (ConfigInv /\ PlanInv)'
  BY ConfigNextInv, PlanNextInv
<1> QED
  BY <1>1, <1>2, <1>3, PTL DEF Spec

(* A run's copy of the config is the operator's or a narrower one, the     *)
(* plan and its requests are of the right types, and at most ATTEMPTS      *)
(* calls are made.                                                         *)
THEOREM PlansAreTyped == Spec => []PlanningTypeOK
<1>1. ASSUME ConfigInv, RetryInv, PlanInv PROVE PlanningTypeOK
  <2> DEFINE Requests == [request_id : Departments \X Nat, department : Departments,
                          query : Seq(Asks)]
  <2>1. answer \in Seq(Tasks)
    <3>1. <<>> \in Seq(Tasks)
      OBVIOUS
    <3> QED
      BY <1>1, <3>1 DEF PlanInv
  <2>2. requests \in Seq(Requests)
    <3>1. CASE stage = "planned"
      <4> DEFINE cap == config.max_gatherers
                 q == Order
                 n == Min({cap, Len(q)})
                 entry(i) == [request_id |-> <<q[i], i>>, department |-> q[i],
                              query |-> Joined(answer, q[i])]
      <4>1. answer \in Seq(Tasks) /\ cap \in Nat \ {0}
            /\ requests = PlanToRequests(FirstTasks(Dedupe(answer), cap))
        BY <1>1, <3>1 DEF PlanInv, ConfigSet
      <4>2. n \in Nat /\ n <= Len(q)
        <5>1. Shape
          BY <1>1, <3>1, PlanHasShape
        <5> QED
          BY <5>1 DEF Shape
      <4>3. q \in Seq(Departments)
        BY <1>1, <3>1, PlanIsRead
      <4>4. requests = [i \in 1..n |-> entry(i)]
        <5> HIDE DEF cap
        <5>1. PlanToRequests(FirstTasks(Dedupe(answer), cap)) = [i \in 1..n |-> entry(i)]
          BY <4>1, RequestsOfPlan DEF Order
        <5> QED
          BY <4>1, <5>1
      <4> HIDE DEF n, q
      <4>5. ASSUME NEW i \in 1..n PROVE entry(i) \in Requests
        <5>1. q[i] \in Departments /\ i \in Nat
          BY <4>2, <4>3
        <5>2. Joined(answer, q[i]) \in Seq(Asks)
          BY <4>1, PromptsJoined
        <5> QED
          BY <5>1, <5>2
      <4> HIDE DEF entry, Requests
      <4>6. requests \in [1..n -> Requests]
        BY <4>4, <4>5
      <4> QED
        BY <4>2, <4>6
    <3>2. CASE stage # "planned"
      <4> HIDE DEF Requests
      <4>1. <<>> \in Seq(Requests)
        OBVIOUS
      <4> QED
        BY <1>1, <3>2, <4>1 DEF PlanInv
    <3> QED
      BY <3>1, <3>2
  <2>3. Len(tries) <= Attempts /\ Len(waits) < Attempts
    <3>1. Len(tries) \in Nat /\ Len(waits) \in Nat
      BY <1>1 DEF RetryInv
    <3>2. CASE stage \in {"arrived", "refused"}
      <4>1. Len(tries) = 0 /\ Len(waits) = 0
        BY <1>1, <3>2 DEF RetryInv
      <4> QED
        BY <4>1 DEF Attempts
    <3>3. CASE stage \notin {"arrived", "refused"}
      BY <1>1, <3>1, <3>3 DEF RetryInv, Attempts, Ended
    <3> QED
      BY <3>2, <3>3
  <2> QED
    BY <1>1, <2>1, <2>2, <2>3 DEF PlanningTypeOK, ConfigInv, Narrower
<1>2. Init => ConfigInv /\ RetryInv /\ PlanInv
  BY ConfigInitInv, RetryInitInv, PlanInitInv
<1>3. ConfigInv /\ RetryInv /\ PlanInv /\ [Next]_vars => (ConfigInv /\ RetryInv /\ PlanInv)'
  BY ConfigNextInv, RetryNextInv, PlanNextInv
<1> QED
  BY <1>1, <1>2, <1>3, PTL DEF Spec
=============================================================================
