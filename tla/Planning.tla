------------------------------ MODULE Planning ------------------------------
(***************************************************************************)
(* From the request to the gatherers: apply_overrides of                   *)
(* src/src/agentic/server/runs.py, the planner of                          *)
(* state_manager/manager_planning.py, and with_retry of retry.py, under    *)
(* which it calls its model (as do the gatherer and the synthesizer).      *)
(*                                                                         *)
(* A task's prompt is the sequence of asks that "; " joins in it: empty    *)
(* for the empty string, one ask as a planner writes it.  Delays are in    *)
(* half seconds.                                                           *)
(***************************************************************************)
EXTENDS Integers, Sequences, FiniteSets, SequencesExt, FiniteSetsExt

CONSTANTS
    Departments,  \* every name a planner may write
    Asks,
    Models,       \* model names a request may name
    Configs,      \* environment configs that may be loaded
    Overrides,    \* what requests ask for
    RetryDelays,  \* retryDelays of a 429, in seconds
    NoDelay,      \* a failure that names none
    Unset,        \* a knob the request leaves alone
    MaxTasks      \* bound: tasks in a plan

Attempts == 3      \* ATTEMPTS
BaseDelay == 3     \* BASE_DELAY
MaxDelay == 90     \* MAX_DELAY

ConfigSet == [departments : SUBSET Departments, max_gatherers : Nat \ {0},
              max_retries : Nat, veto : Models, veto_choices : SUBSET Models]
OverrideSet == [max_gatherers : 1..64 \cup {Unset}, max_retries : 0..10 \cup {Unset},
                veto : Models \cup {Unset}, departments : SUBSET Departments \cup {Unset}]

(* A config that allows no gatherer at all is not considered.              *)
ASSUME PlanningAssumption ==
    /\ Configs \subseteq ConfigSet
    /\ Overrides \subseteq OverrideSet
    /\ RetryDelays \subseteq Nat /\ NoDelay \notin Nat
    /\ MaxTasks \in Nat

VARIABLES
    stage,     \* "arrived", "refused", "asking", "waiting", "planned",
               \* "failed" or "cancelled"
    operator,  \* the config as it was loaded
    config,    \* the per-run copy
    answer,    \* the tasks of the planner's answer
    requests,  \* the GatherRequests made of it
    tries,     \* the failures with_retry saw
    waits,     \* how long it slept after them
    raised     \* what it raised

planVars == <<answer, requests>>
retryVars == <<tries, waits, raised>>
vars == <<stage, operator, config, planVars, retryVars>>

NoConfig == [departments |-> {}]
Tasks == [department : Departments, prompt : {<<>>} \cup {<<a>> : a \in Asks}]

(* What stops a call: a 429 of the minute and one of the day, a 5xx, a     *)
(* request or key that the service refuses, and the answer without content *)
(* that _plan_once puts down to a missing key or a blocked response; and   *)
(* two plans that _plan_once does not take.                                *)
Failures ==
    [cause : {"rate_limit", "daily_quota"}, asks : RetryDelays \cup {NoDelay}]
        \cup [cause : {"overloaded", "bad_request", "no_key", "blocked"}, asks : {NoDelay}]

(* The validation error quotes what the model wrote, which may hold one of *)
(* is_transient's words.                                                   *)
InvalidPlans == [cause : {"invalid_plan", "invalid_quoting"}, asks : {NoDelay}]
EmptyPlan == [cause |-> "empty_plan", asks |-> NoDelay]
NothingRaised == [cause |-> "none", asks |-> NoDelay]
QuotaExhausted == [cause |-> "QuotaExhausted", asks |-> NoDelay]

Init ==
    /\ stage = "arrived"
    /\ operator = NoConfig /\ config = NoConfig
    /\ answer = <<>> /\ requests = <<>>
    /\ tries = <<>> /\ waits = <<>>
    /\ raised = NothingRaised

-----------------------------------------------------------------------------
(* apply_overrides                                                         *)

Acceptable(o, c) ==
    /\ o.veto # Unset => o.veto \in c.veto_choices
    /\ o.departments # Unset => o.departments # {} /\ o.departments \subseteq c.departments

(* Fault: a request's number replaces the operator's.                      *)
ClampedToRequest(low, asked, ceiling) == IF asked = Unset THEN ceiling ELSE Max({low, asked})

(* A number is clamped to the operator's.                                  *)
Clamped(low, asked, ceiling) ==
    IF asked = Unset THEN ceiling ELSE Max({low, Min({asked, ceiling})})

Narrowed(o, c) ==
    [c EXCEPT !.max_gatherers = Clamped(1, o.max_gatherers, @),
              !.max_retries = Clamped(0, o.max_retries, @),
              !.veto = IF o.veto = Unset THEN @ ELSE o.veto,
              !.departments = IF o.departments = Unset THEN @ ELSE o.departments]

(* 503 for a config that does not load, 400 for a knob that is refused.    *)
Refused(c, o) ==
    /\ stage = "arrived"
    /\ c # NoConfig => ~Acceptable(o, c)
    /\ stage' = "refused"
    /\ operator' = c
    /\ UNCHANGED <<config, planVars, retryVars>>

Accepted(c, o) ==
    /\ stage = "arrived"
    /\ Acceptable(o, c)
    /\ stage' = "asking"
    /\ operator' = c
    /\ config' = Narrowed(o, c)
    /\ UNCHANGED <<planVars, retryVars>>

-----------------------------------------------------------------------------
(* with_retry                                                              *)

IsDailyQuota(e) == e.cause = "daily_quota"

(* Failures whose message holds a word such as "unavailable", though they  *)
(* are not weather: _plan_once's own text for an answer without content    *)
(* does, whatever the cause.                                               *)
Misread == {"no_key", "blocked", "invalid_quoting"}

(* By code, or by words of the message.                                    *)
IsTransient(e) ==
    /\ ~IsDailyQuota(e)
    /\ e.cause \in {"rate_limit", "overloaded"} \cup Misread

(* Fault: the server's own delay is not read.                              *)
RetryAfterBackoff(e, fallback) == fallback

RetryAfter(e, fallback) ==
    IF e.asks = NoDelay THEN fallback ELSE Min({2 * e.asks + 1, MaxDelay})

(* Call number Len(tries) + 1 failed with e.                               *)
Except(e) ==
    /\ tries' = Append(tries, e)
    /\ \/ /\ IsDailyQuota(e)
          /\ stage' = "failed" /\ raised' = QuotaExhausted
          /\ UNCHANGED waits
       \/ /\ ~IsDailyQuota(e)
          /\ Len(tries) = Attempts - 1 \/ ~IsTransient(e)
          /\ stage' = "failed" /\ raised' = e
          /\ UNCHANGED waits
       \/ /\ Len(tries) < Attempts - 1 /\ IsTransient(e)
          /\ stage' = "waiting"
          /\ waits' = Append(waits, RetryAfter(e, BaseDelay * 2^Len(tries)))
          /\ UNCHANGED raised
    /\ UNCHANGED <<operator, config, planVars>>

CallFails(e) ==
    /\ stage = "asking"
    /\ Except(e)

(* asyncio.sleep is over: the next call.                                   *)
CallAgain ==
    /\ stage = "waiting"
    /\ stage' = "asking"
    /\ UNCHANGED <<operator, config, planVars, retryVars>>

(* CancelledError is not an Exception: it is never retried.                *)
Cancelled ==
    /\ stage \in {"asking", "waiting"}
    /\ stage' = "cancelled"
    /\ UNCHANGED <<operator, config, planVars, retryVars>>

-----------------------------------------------------------------------------
(* The plan                                                                *)

(* One task of dedupe_tasks' loop: "order" and "prompts".                  *)
Heard(state, d) == IF d \in DOMAIN state.prompts THEN state.prompts[d] ELSE <<>>
Noted(state, task) ==
    LET d == task.department
        heard == Heard(state, d)
        now == IF task.prompt = <<>> \/ Contains(heard, task.prompt) THEN heard
               ELSE Append(heard, task.prompt)
    IN [order |-> IF d \in DOMAIN state.prompts THEN state.order
                  ELSE Append(state.order, d),
        prompts |-> [x \in DOMAIN state.prompts \cup {d} |->
                       IF x = d THEN now ELSE state.prompts[x]]]

(* The loop.                                                               *)
Reading(tasks) ==
    LET state[n \in 0..Len(tasks)] ==
            IF n = 0 THEN [order |-> <<>>, prompts |-> <<>>]
            ELSE Noted(state[n - 1], tasks[n])
    IN state[Len(tasks)]

(* Fault: of the tasks for a department the first is kept.                 *)
DedupeFirst(tasks) ==
    LET state == Reading(tasks)
    IN [i \in DOMAIN state.order |->
          [department |-> state.order[i],
           prompt |-> IF state.prompts[state.order[i]] = <<>> THEN <<>>
                      ELSE state.prompts[state.order[i]][1]]]

(* dedupe_tasks: one task per department, with all its asks.               *)
Dedupe(tasks) ==
    LET state == Reading(tasks)
    IN [i \in DOMAIN state.order |->
          [department |-> state.order[i],
           prompt |-> FlattenSeq(state.prompts[state.order[i]])]]

FirstTasks(tasks, n) == SubSeq(tasks, 1, Min({n, Len(tasks)}))

(* plan_to_requests dedupes again; ids are department and position.        *)
PlanToRequests(tasks) ==
    LET once == Dedupe(tasks)
    IN [i \in DOMAIN once |->
          [request_id |-> <<once[i].department, i>>,
           department |-> once[i].department,
           query |-> once[i].prompt]]

(* The schema admits the departments of the run's config alone.            *)
Valid(tasks) == \A i \in DOMAIN tasks : tasks[i].department \in config.departments

NotAPlan(tasks) ==
    /\ stage = "asking"
    /\ \/ ~Valid(tasks) /\ \E e \in InvalidPlans : Except(e)
       \/ tasks = <<>> /\ Except(EmptyPlan)

(* The cap comes after the deduplication.                                  *)
Planned(tasks) ==
    /\ stage = "asking"
    /\ tasks # <<>> /\ Valid(tasks)
    /\ stage' = "planned"
    /\ answer' = tasks
    /\ requests' = PlanToRequests(FirstTasks(Dedupe(tasks), config.max_gatherers))
    /\ UNCHANGED <<operator, config, retryVars>>

-----------------------------------------------------------------------------
Ended == {"refused", "planned", "failed", "cancelled"}
Resting == stage \in Ended /\ UNCHANGED vars

Next ==
    \/ \E o \in Overrides :
         \/ \E c \in Configs \cup {NoConfig} : Refused(c, o)
         \/ \E c \in Configs : Accepted(c, o)
    \/ \E e \in Failures : CallFails(e)
    \/ CallAgain
    \/ Cancelled
    \/ \E tasks \in BoundedSeq(Tasks, MaxTasks) : NotAPlan(tasks) \/ Planned(tasks)
    \/ Resting

Spec == Init /\ [][Next]_vars

-----------------------------------------------------------------------------
(* A run's copy of the config is the operator's or a narrower one; at most *)
(* ATTEMPTS calls are made.                                                *)
PlanningTypeOK ==
    /\ stage \in {"arrived", "asking", "waiting"} \cup Ended
    /\ operator \in Configs \cup {NoConfig}
    /\ config \in ConfigSet \cup {NoConfig}
    /\ config # NoConfig =>
         /\ config.departments \subseteq operator.departments
         /\ config.max_gatherers <= operator.max_gatherers
         /\ config.max_retries <= operator.max_retries
         /\ config.veto \in operator.veto_choices \cup {operator.veto}
    /\ answer \in Seq(Tasks)
    /\ requests \in Seq([request_id : Departments \X Nat, department : Departments,
                         query : Seq(Asks)])
    /\ Len(tries) <= Attempts /\ Len(waits) < Attempts

FirstMention(d) == Min({i \in DOMAIN answer : answer[i].department = d})
Mentioned == {answer[i].department : i \in DOMAIN answer}
Served == {requests[i].department : i \in DOMAIN requests}

(* The fan-out costs one gatherer per department, and loses no ask: the    *)
(* departments served are the first ones the plan mentions, as many as the *)
(* operator and the request allow, each once and under an id of its own,   *)
(* and each is asked everything the plan asks of it, once, in its order.   *)
FanOut ==
    stage = "planned" =>
        /\ Served \subseteq config.departments
        /\ Cardinality(Served) = Len(requests)
        /\ Cardinality({requests[i].request_id : i \in DOMAIN requests}) = Len(requests)
        /\ Len(requests) = Min({config.max_gatherers, Cardinality(Mentioned)})
        /\ \A d \in Served, e \in Mentioned \ Served : FirstMention(d) < FirstMention(e)
        /\ \A k \in DOMAIN requests :
             LET query == requests[k].query
                 asked(i) == answer[i].department = requests[k].department
                 At(a) == {i \in DOMAIN answer : asked(i) /\ answer[i].prompt = <<a>>}
             IN /\ IsInjective(query)
                /\ \A a \in Asks : At(a) # {} <=> a \in ToSet(query)
                /\ \A i, j \in DOMAIN query : i < j => Min(At(query[i])) < Min(At(query[j]))

(* A call is repeated after a 429 of the minute or a 5xx and after no      *)
(* other failure that shows its cause: a spent daily quota ends it at once *)
(* under a name of its own, a refused key or request as itself.  The wait  *)
(* is what the server asked, and never more than 45 seconds.  Weather is   *)
(* not given up before three calls, and what is raised is the last         *)
(* failure.  Of the failures that is_transient misreads, a missing key     *)
(* among them, it claims neither that they are repeated nor that they are  *)
(* not: the code repeats them, and says that a bad key surfaces at once.   *)
RetryDisciplined ==
    LET n == Len(tries) IN
    /\ \A i \in 1..n : i < n \/ stage \in {"waiting", "asking", "planned"} =>
         /\ tries[i].cause \in {"rate_limit", "overloaded"} \cup Misread
         /\ waits[i] <= MaxDelay
         /\ tries[i].asks # NoDelay => 2 * tries[i].asks < waits[i] \/ waits[i] = MaxDelay
    /\ stage = "failed" =>
         /\ n > 0 /\ Len(waits) = n - 1
         /\ IF tries[n].cause = "daily_quota" THEN raised = QuotaExhausted
            ELSE /\ raised = tries[n]
                 /\ raised.cause \in {"rate_limit", "overloaded"} => n = Attempts
=============================================================================
