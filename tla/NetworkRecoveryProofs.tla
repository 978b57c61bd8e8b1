------------------------ MODULE NetworkRecoveryProofs ------------------------
(***************************************************************************)
(* The recovery access point, for any set of intents, any graces and any   *)
(* number of requests and troubles: one apply has the radio at a time, the *)
(* latch stands for an access point that came up, and a join that failed   *)
(* does not leave the radio empty.                                         *)
(***************************************************************************)
EXTENDS NetworkRecovery, FiniteSetTheorems, TLAPS

\* What a task has in hand at each point of its work.
ApplyPoints == {"lock", "disable", "free", "down", "join", "tail", "ensure",
                "raised", "rejoin"}
TaskAt(w) ==
  /\ task[w].pc \in {"idle", "load", "forget"} => ~task[w].apply
  /\ task[w].pc \in ApplyPoints => task[w].apply
  /\ task[w].apply \/ task[w].pc = "forget" => task[w].intent \in IntentType
  /\ task[w].pc \in {"release", "raise"} => task[w].name \in Aps

\* Only the join of a station takes the hotspot down, and an apply that raised
\* the hotspot itself is at its end.
DownedAt(w) ==
  /\ task[w].downed =>
       /\ task[w].apply /\ task[w].intent.role = "Sta"
       /\ task[w].pc \notin {"lock", "disable"}
  /\ task[w].pc = "free" => task[w].intent.role = "Sta"
  /\ task[w].raised => task[w].pc \in {"raised", "rejoin"}

TaskInv == \A w \in Tasks : TaskAt(w) /\ DownedAt(w)

\* An undisturbed apply that raised the hotspot finds it up, and gives the radio
\* back to the station only unless a declared Ethernet lacks its carrier.
SteadyInv ==
  steady => \A w \in Tasks : lock = w =>
    /\ task[w].pc = "raised" => up # {}
    /\ task[w].pc = "rejoin" => ~NoCarrier(task[w].intent)

IInv == TypeOK /\ TaskInv /\ LatchHonest /\ SteadyInv

(***************************************************************************)
(* The parts of TypeOK.                                                    *)
(***************************************************************************)
Points == {"idle", "load", "check", "release", "raise", "lock", "disable", "free",
           "down", "join", "tail", "ensure", "raised", "rejoin", "forget"}
Profiles == {"sta", "hs", "rec"}

\* The apply that is past its lock holds it.
Holds(w) == task[w].apply /\ task[w].pc # "lock"

\* A set with at most one element, without counting.
Single(S) == \A p, q \in S : p = q

OwnerInv ==
  /\ task \in [Tasks -> TaskType] /\ lock \in Tasks \cup {None}
  /\ \A w \in Tasks : Holds(w) <=> lock = w
  /\ TaskInv
RadioInv ==
  /\ radio \in Radios /\ up \subseteq Profiles
  /\ saved \subseteq {"sta", "hs"} /\ auto \subseteq {"sta", "hs"}
  /\ radio = "exclusive" => Single(up)
FlagType ==
  /\ port \in BOOLEAN /\ cable \in BOOLEAN /\ (cable => port)
  /\ range \in BOOLEAN /\ psk \in BOOLEAN
  /\ flight \in BOOLEAN /\ captive \in BOOLEAN
  /\ steady \in BOOLEAN /\ lit \in BOOLEAN
ViewType ==
  view \in [reach : {"Unknown", "Offline", "Online", "Limited", "Portal"},
            ticks : 0 .. BootTicks, critical : BOOLEAN, ever : BOOLEAN]
CountType ==
  intent \in IntentType /\ requests \in 0 .. MaxRequests /\ troubles \in 0 .. MaxTrouble

LEMMA Count ==
  ASSUME NEW S \in SUBSET Profiles
  PROVE  Cardinality(S) <= 1 <=> Single(S)
<1>1. IsFiniteSet(S)
  <2>1. IsFiniteSet({"sta"}) /\ IsFiniteSet({"hs"}) /\ IsFiniteSet({"rec"})
    BY FS_Singleton
  <2>2. IsFiniteSet(Profiles)
    <3>1. IsFiniteSet({"sta"} \cup {"hs"})
      BY <2>1, FS_Union
    <3>2. IsFiniteSet(({"sta"} \cup {"hs"}) \cup {"rec"})
      BY <2>1, <3>1, FS_Union
    <3>3. Profiles = ({"sta"} \cup {"hs"}) \cup {"rec"}
      BY DEF Profiles
    <3> QED
      BY <3>2, <3>3
  <2> QED
    BY <2>2, FS_Subset
<1>2. Cardinality(S) \in Nat
  BY <1>1, FS_CardinalityType
<1>3. CASE S = {}
  BY <1>3, FS_EmptySet DEF Single
<1>4. ASSUME NEW p \in S PROVE Cardinality(S) <= 1 <=> Single(S)
  <2>1. CASE S = {p}
    BY <2>1, FS_Singleton DEF Single
  <2>2. ASSUME NEW q \in S, q # p PROVE Cardinality(S) > 1
    <3>1. {p, q} \subseteq S /\ IsFiniteSet(S)
      BY <1>1, <2>2
    <3>2. Cardinality({p, q}) <= Cardinality(S)
      BY <3>1, FS_Subset
    <3>3. Cardinality({p, q}) = 2
      <4>1. IsFiniteSet({p}) /\ Cardinality({p}) = 1
        BY FS_Singleton
      <4>2. Cardinality({p} \cup {q}) = Cardinality({p}) + 1
        BY <2>2, <4>1, FS_AddElement
      <4>3. {p} \cup {q} = {p, q}
        OBVIOUS
      <4> QED
        BY <4>1, <4>2, <4>3
    <3> QED
      BY <1>2, <3>2, <3>3
  <2>3. CASE S # {p}
    <3>1. PICK q \in S : q # p
      BY <2>3
    <3>2. Cardinality(S) > 1
      BY <2>2, <3>1
    <3>3. ~Single(S)
      BY <3>1 DEF Single
    <3> QED
      BY <1>2, <3>2, <3>3
  <2> QED
    BY <2>1, <2>3
<1> QED
  BY <1>3, <1>4

LEMMA TypeParts ==
  TypeOK /\ TaskInv <=> OwnerInv /\ RadioInv /\ FlagType /\ ViewType /\ CountType
<1>1. up \subseteq Profiles => (Cardinality(up) <= 1 <=> Single(up))
  BY Count
<1> QED
  BY <1>1 DEF TypeOK, OwnerInv, RadioInv, FlagType, ViewType, CountType, Holds, Profiles

(***************************************************************************)
(* The tasks and the lock.                                                 *)
(***************************************************************************)
Alone(w) == \A k \in Tasks : k # w => task'[k] = task[k]

LEMMA IdleFacts ==
  /\ Idle \in TaskType /\ Idle.pc = "idle" /\ ~Idle.apply
  /\ ~Idle.downed /\ ~Idle.raised
  BY DEF Idle, TaskType

LEMMA GotoFacts ==
  ASSUME task \in [Tasks -> TaskType], NEW w \in Tasks, NEW p \in Points, Goto(w, p)
  PROVE  /\ task' \in [Tasks -> TaskType] /\ Alone(w) /\ task'[w].pc = p
         /\ task'[w].apply = task[w].apply /\ task'[w].intent = task[w].intent
         /\ task'[w].name = task[w].name /\ task'[w].downed = task[w].downed
         /\ task'[w].raised = task[w].raised
  BY DEF Goto, Alone, TaskType, Points

LEMMA OwnerStep ==
  ASSUME OwnerInv, NEW w \in Tasks, task' \in [Tasks -> TaskType], Alone(w),
         TaskAt(w)' /\ DownedAt(w)',
         \/ UNCHANGED lock /\ (Holds(w)' <=> Holds(w))
         \/ lock' = Unlocked(w) /\ ~Holds(w)'
         \/ lock = None /\ lock' = w /\ Holds(w)'
  PROVE  OwnerInv'
<1>n. None \notin Tasks
  BY NoneAssumption
<1>1. ASSUME NEW k \in Tasks PROVE TaskAt(k)' /\ DownedAt(k)'
  BY DEF Alone, OwnerInv, TaskInv, TaskAt, DownedAt
<1>2. ASSUME NEW k \in Tasks, k # w PROVE (Holds(k)' <=> lock' = k)
  BY <1>2, <1>n DEF Alone, OwnerInv, Holds, Unlocked
<1>3. Holds(w)' <=> lock' = w
  BY <1>n DEF OwnerInv, Unlocked
<1>4. lock' \in Tasks \cup {None}
  BY DEF OwnerInv, Unlocked
<1> QED
  BY <1>1, <1>2, <1>3, <1>4 DEF OwnerInv, TaskInv

LEMMA OwnerSame ==
  ASSUME OwnerInv, UNCHANGED <<task, lock>>
  PROVE  OwnerInv'
  BY DEF OwnerInv, TaskInv, TaskAt, DownedAt, Holds

\* A task comes to its end.
LEMMA EndStep ==
  ASSUME OwnerInv, NEW w \in Tasks, task' = [task EXCEPT ![w] = Idle],
         lock' = Unlocked(w)
  PROVE  OwnerInv'
<1>1. task' \in [Tasks -> TaskType] /\ Alone(w) /\ task'[w] = Idle
  BY IdleFacts DEF OwnerInv, Alone
<1>2. TaskAt(w)' /\ DownedAt(w)' /\ ~Holds(w)'
  BY <1>1, IdleFacts DEF TaskAt, DownedAt, Holds, ApplyPoints
<1> QED
  BY <1>1, <1>2, OwnerStep

\* A task that holds what it needs for p goes there.
LEMMA MoveStep ==
  ASSUME OwnerInv, NEW w \in Tasks, NEW p \in Points, Goto(w, p), UNCHANGED lock,
         task[w].pc # "lock", p # "lock",
         p \in {"idle", "load", "forget"} => ~task[w].apply,
         p \in ApplyPoints => task[w].apply,
         p = "forget" => task[w].intent \in IntentType,
         p \in {"release", "raise"} => task[w].name \in Aps,
         p \notin {"disable", "free"},
         task[w].raised => p \in {"raised", "rejoin"}
  PROVE  OwnerInv'
<1>1. /\ task' \in [Tasks -> TaskType] /\ Alone(w) /\ task'[w].pc = p
      /\ task'[w].apply = task[w].apply /\ task'[w].intent = task[w].intent
      /\ task'[w].name = task[w].name /\ task'[w].downed = task[w].downed
      /\ task'[w].raised = task[w].raised
  BY GotoFacts DEF OwnerInv
<1>2. TaskAt(w) /\ DownedAt(w)
  BY DEF OwnerInv, TaskInv
<1>3. TaskAt(w)'
  BY <1>1, <1>2 DEF TaskAt
<1>4. DownedAt(w)'
  BY <1>1, <1>2 DEF DownedAt
<1>5. Holds(w)' <=> Holds(w)
  BY <1>1 DEF Holds
<1> QED
  BY <1>1, <1>3, <1>4, <1>5, OwnerStep

\* An apply takes the lock.
LEMMA TakeStep ==
  ASSUME OwnerInv, NEW w \in Tasks, NEW p \in ApplyPoints \ {"lock", "raised", "rejoin"},
         Goto(w, p), task[w].pc = "lock", lock = None, lock' = w,
         p = "free" => task[w].intent.role = "Sta"
  PROVE  OwnerInv'
<1>0. p \in Points
  BY DEF ApplyPoints, Points
<1>1. /\ task' \in [Tasks -> TaskType] /\ Alone(w) /\ task'[w].pc = p
      /\ task'[w].apply = task[w].apply /\ task'[w].intent = task[w].intent
      /\ task'[w].downed = task[w].downed /\ task'[w].raised = task[w].raised
  BY <1>0, GotoFacts DEF OwnerInv
<1>2. TaskAt(w) /\ DownedAt(w) /\ task[w].apply
  BY DEF OwnerInv, TaskInv, TaskAt, ApplyPoints
<1>3. TaskAt(w)' /\ DownedAt(w)' /\ Holds(w)'
  BY <1>1, <1>2 DEF TaskAt, DownedAt, Holds, ApplyPoints
<1> QED
  BY <1>1, <1>3, OwnerStep

\* A task begins with a record of its own: an apply that waits for the lock, or
\* nothing.
LEMMA BeginStep ==
  ASSUME OwnerInv, NEW w \in Tasks, NEW t \in TaskType, UNCHANGED lock,
         task' = [task EXCEPT ![w] = t], ~Holds(w),
         t = Idle \/ (t.pc = "lock" /\ t.apply /\ t.intent \in IntentType
                      /\ ~t.downed /\ ~t.raised)
  PROVE  OwnerInv'
<1>1. task' \in [Tasks -> TaskType] /\ Alone(w) /\ task'[w] = t
  BY DEF OwnerInv, Alone
<1>2. TaskAt(w)' /\ DownedAt(w)' /\ ~Holds(w)'
  BY <1>1, IdleFacts DEF TaskAt, DownedAt, Holds, ApplyPoints
<1> QED
  BY <1>1, <1>2, OwnerStep

\* The supervisor and the verbs.
LEMMA VerbOwner ==
  ASSUME OwnerInv, CountType,
         \/ Supervise
         \/ \E i \in Intents, secret, apply \in BOOLEAN : IntentSet(i, secret, apply)
         \/ IntentApply \/ Forget \/ ForgetSaves \/ Restart,
         psk \in BOOLEAN
  PROVE  OwnerInv'
<1>t. task \in [Tasks -> TaskType] /\ "sup" \in Tasks /\ "op" \in Tasks
  BY DEF OwnerInv, Tasks
<1>n. \A w \in Tasks : task[w].pc \in {"idle", "load", "forget"} =>
        ~task[w].apply /\ ~task[w].raised /\ ~Holds(w) /\ lock # w
  BY DEF OwnerInv, TaskInv, TaskAt, DownedAt, Holds
<1>a. ASSUME NEW i \in IntentType, NEW secret \in BOOLEAN
      PROVE  /\ Applying(i, secret) \in TaskType /\ Applying(i, secret).pc = "lock"
             /\ Applying(i, secret).apply /\ Applying(i, secret).intent = i
             /\ ~Applying(i, secret).downed /\ ~Applying(i, secret).raised
  BY DEF Applying, Idle, TaskType
<1>1. CASE Probe
  <2>1. PICK p \in {"check", "load", "idle"} : Goto("sup", p)
    BY <1>1 DEF Probe
  <2>2. UNCHANGED lock /\ task["sup"].pc = "idle"
    BY <1>1 DEF Probe
  <2> QED
    BY <1>n, <1>t, <2>1, <2>2, MoveStep DEF Points, ApplyPoints
<1>2. CASE LoadIntent
  <2>1. UNCHANGED lock /\ ~Holds("sup")
    BY <1>2, <1>n, <1>t DEF LoadIntent
  <2>2. task' = [task EXCEPT !["sup"] = Applying(intent, psk)]
        \/ task' = [task EXCEPT !["sup"] = Idle]
    BY <1>2 DEF LoadIntent, Applying
  <2> QED
    BY <1>a, <1>t, <2>1, <2>2, BeginStep, IdleFacts DEF CountType
<1>3. ASSUME NEW i \in Intents, NEW secret \in BOOLEAN, NEW apply \in BOOLEAN,
             IntentSet(i, secret, apply)
      PROVE  OwnerInv'
  <2>1. UNCHANGED lock /\ ~Holds("op") /\ i \in IntentType
    BY <1>3, <1>n, <1>t, IntentsAssumption DEF IntentSet, Asks
  <2>2. task' = [task EXCEPT !["op"] = Applying(i, secret)]
        \/ task' = [task EXCEPT !["op"] = Idle]
    BY <1>3 DEF IntentSet, Asks
  <2> QED
    BY <1>a, <1>t, <2>1, <2>2, BeginStep, IdleFacts
<1>4. CASE IntentApply
  <2>1. UNCHANGED lock /\ ~Holds("op")
        /\ task' = [task EXCEPT !["op"] = Applying(intent, psk)]
    BY <1>4, <1>n, <1>t DEF IntentApply, Asks
  <2> QED
    BY <1>a, <1>t, <2>1, BeginStep DEF CountType
<1>5. CASE Forget
  <2>1. /\ task' = [task EXCEPT !["op"].pc = "forget", !["op"].intent = intent]
        /\ UNCHANGED lock /\ task["op"].pc = "idle"
    BY <1>5 DEF Forget, Undisturbed
  <2>2. /\ task' \in [Tasks -> TaskType] /\ Alone("op")
        /\ task'["op"].pc = "forget" /\ task'["op"].intent = intent
        /\ task'["op"].apply = task["op"].apply
        /\ task'["op"].raised = task["op"].raised
        /\ task'["op"].downed = task["op"].downed
    <3> DEFINE t == [task["op"] EXCEPT !.pc = "forget", !.intent = intent]
    <3>1. task["op"] \in TaskType
      BY <1>t
    <3>2. /\ t \in TaskType /\ t.pc = "forget" /\ t.intent = intent
          /\ t.apply = task["op"].apply /\ t.raised = task["op"].raised
          /\ t.downed = task["op"].downed
      BY <3>1 DEF TaskType, CountType
    <3>3. task' = [task EXCEPT !["op"] = t]
      BY <1>t, <2>1
    <3> HIDE DEF t
    <3> QED
      BY <1>t, <3>2, <3>3 DEF Alone
  <2>3. ~task["op"].apply /\ ~task["op"].raised
    BY <1>n, <1>t, <2>1
  <2>4. ~task["op"].downed
    BY <1>t, <2>3 DEF OwnerInv, TaskInv, DownedAt
  <2>5. TaskAt("op")' /\ DownedAt("op")' /\ (Holds("op")' <=> Holds("op"))
    BY <2>2, <2>3, <2>4 DEF TaskAt, DownedAt, Holds, ApplyPoints, CountType
  <2> QED
    BY <1>t, <2>1, <2>2, <2>5, OwnerStep
<1>6. CASE ForgetSaves
  <2>1. task' = [task EXCEPT !["op"] = Idle] /\ UNCHANGED lock /\ ~Holds("op")
    BY <1>6, <1>n, <1>t DEF ForgetSaves, Undisturbed
  <2> QED
    BY <1>t, <2>1, BeginStep, IdleFacts
<1>7. CASE Restart
  <2>1. task' = [w \in Tasks |-> Idle] /\ lock' = None
    BY <1>7 DEF Restart
  <2>2. \A w \in Tasks : task'[w] = Idle /\ lock' # w
    BY <2>1, NoneAssumption
  <2>3. \A w \in Tasks : TaskAt(w)' /\ DownedAt(w)' /\ ~Holds(w)'
    BY <2>2, IdleFacts DEF TaskAt, DownedAt, Holds, ApplyPoints
  <2> QED
    BY <2>1, <2>2, <2>3, IdleFacts DEF OwnerInv, TaskInv
<1> QED
  BY <1>1, <1>2, <1>3, <1>4, <1>5, <1>6, <1>7 DEF Supervise

\* The steps of a raise and of an apply.
LEMMA StepOwner ==
  ASSUME OwnerInv, NEW w \in Tasks, Step(w)
  PROVE  OwnerInv'
<1>t. task \in [Tasks -> TaskType] /\ task[w] \in TaskType
  BY DEF OwnerInv
<1>i. TaskAt(w) /\ DownedAt(w)
  BY DEF OwnerInv, TaskInv
<1>f. Finish(w) => OwnerInv'
  BY EndStep DEF Finish
<1>r. \A ok : RaiseReturns(w, ok) => OwnerInv'
  BY EndStep DEF RaiseReturns
<1>e. task[w].pc = "tail" /\ Ending(w) => OwnerInv'
  <2>1. ASSUME task[w].pc = "tail", Goto(w, "check"), UNCHANGED lock PROVE OwnerInv'
    BY <1>i, <2>1, MoveStep DEF DownedAt, Points, ApplyPoints
  <2> QED
    BY <1>f, <2>1 DEF Ending
<1>1. CASE Check(w)
  <2>1. ASSUME NEW n \in Aps,
               task' = [task EXCEPT ![w].pc = "release", ![w].name = n],
               task[w].pc = "check", UNCHANGED lock
        PROVE  OwnerInv'
    <3> DEFINE t == [task[w] EXCEPT !.pc = "release", !.name = n]
    <3>1. /\ t \in TaskType /\ t.pc = "release" /\ t.name = n
          /\ t.apply = task[w].apply /\ t.raised = task[w].raised
          /\ t.downed = task[w].downed /\ t.intent = task[w].intent
      BY <1>t DEF TaskType
    <3>2. task' = [task EXCEPT ![w] = t]
      BY <1>t, <2>1
    <3> HIDE DEF t
    <3>3. task' \in [Tasks -> TaskType] /\ Alone(w) /\ task'[w] = t
      BY <1>t, <3>1, <3>2 DEF Alone
    <3>4. TaskAt(w)' /\ DownedAt(w)' /\ (Holds(w)' <=> Holds(w))
      BY <1>i, <2>1, <3>1, <3>3 DEF TaskAt, DownedAt, Holds, ApplyPoints
    <3> QED
      BY <2>1, <3>3, <3>4, OwnerStep
  <2>2. CASE RaiseReturns(w, FALSE)
    BY <1>r, <2>2
  <2>3. CASE ~RaiseReturns(w, FALSE)
    <3>1. /\ task[w].pc = "check" /\ UNCHANGED lock
          /\ \E vif \in {TRUE, radio = "concurrent"} :
               task' = [task EXCEPT ![w].pc = "release", ![w].name =
                 IF "hs" \in saved /\ vif THEN "hs" ELSE "rec"]
      BY <1>1, <2>3 DEF Check
    <3>2. PICK n \in Aps : task' = [task EXCEPT ![w].pc = "release", ![w].name = n]
      BY <3>1 DEF Aps
    <3> QED
      BY <2>1, <3>1, <3>2
  <2> QED
    BY <2>2, <2>3
<1>2. CASE Release(w)
  BY <1>2, <1>i, MoveStep
  DEF Release, TaskAt, DownedAt, Points, ApplyPoints
<1>3. CASE Raise(w)
  BY <1>3, <1>r DEF Raise
<1>4. CASE ApplyBegin(w)
  <2>1. CASE Finish(w)
    BY <1>f, <2>1
  <2>2. CASE ~Finish(w)
    <3>1. /\ task[w].pc = "lock" /\ lock = None /\ lock' = w
          /\ \/ Goto(w, "disable") \/ Goto(w, "ensure") \/ Goto(w, "tail")
             \/ Goto(w, "free") /\ task[w].intent.role = "Sta"
      BY <1>4, <2>2 DEF ApplyBegin, MayBegin
    <3> QED
      BY <3>1, TakeStep DEF ApplyPoints
  <2> QED
    BY <2>1, <2>2
<1>5. CASE Disable(w) \/ Rejoin(w)
  BY <1>5, <1>f DEF Disable, Rejoin
<1>6. CASE Free(w)
  <2>1. PICK p \in {"down", "check"} :
          task' = [task EXCEPT ![w].downed = TRUE, ![w].pc = p]
    BY <1>6 DEF Free
  <2>2. task[w].pc = "free" /\ UNCHANGED lock
    BY <1>6 DEF Free
  <2> DEFINE t == [task[w] EXCEPT !.downed = TRUE, !.pc = p]
  <2>3. /\ t \in TaskType /\ t.pc = p /\ t.name = task[w].name
        /\ t.apply = task[w].apply /\ t.raised = task[w].raised
        /\ t.downed = TRUE /\ t.intent = task[w].intent
    BY <1>t DEF TaskType
  <2>4. task' = [task EXCEPT ![w] = t]
    BY <1>t, <2>1
  <2> HIDE DEF t
  <2>5. task' \in [Tasks -> TaskType] /\ Alone(w) /\ task'[w] = t
    BY <1>t, <2>3, <2>4 DEF Alone
  <2>6. TaskAt(w)' /\ DownedAt(w)' /\ (Holds(w)' <=> Holds(w))
    BY <1>i, <2>2, <2>3, <2>5 DEF TaskAt, DownedAt, Holds, ApplyPoints
  <2> QED
    BY <2>2, <2>5, <2>6, OwnerStep
<1>7. CASE DownSta(w) \/ Join(w)
  <2>1. /\ task[w].pc \in {"down", "join"} /\ UNCHANGED lock
        /\ Goto(w, "join") \/ Goto(w, "tail") \/ Goto(w, "check")
    BY <1>7 DEF DownSta, Join
  <2> QED
    BY <1>i, <2>1, MoveStep DEF TaskAt, DownedAt, Points, ApplyPoints
<1>8. CASE Tail(w)
  <2>1. task[w].pc = "tail" /\ (Ending(w) \/ (Goto(w, "ensure") /\ UNCHANGED lock))
    BY <1>8 DEF Tail
  <2> QED
    BY <1>e, <1>i, <2>1, MoveStep DEF TaskAt, DownedAt, Points, ApplyPoints
<1>9. CASE Ensure(w)
  <2>1. CASE Finish(w)
    BY <1>f, <2>1
  <2>2. CASE Goto(w, "check") /\ UNCHANGED lock
    BY <1>9, <1>i, <2>2, MoveStep
    DEF Ensure, TaskAt, DownedAt, Points, ApplyPoints
  <2>3. CASE /\ task' = [task EXCEPT ![w].raised = TRUE, ![w].pc = "raised"]
             /\ UNCHANGED lock
    <3> DEFINE t == [task[w] EXCEPT !.raised = TRUE, !.pc = "raised"]
    <3>1. /\ t \in TaskType /\ t.pc = "raised" /\ t.name = task[w].name
          /\ t.apply = task[w].apply /\ t.raised = TRUE
          /\ t.downed = task[w].downed /\ t.intent = task[w].intent
      BY <1>t DEF TaskType
    <3>2. task' = [task EXCEPT ![w] = t]
      BY <1>t, <2>3
    <3> HIDE DEF t
    <3>3. task' \in [Tasks -> TaskType] /\ Alone(w) /\ task'[w] = t
      BY <1>t, <3>1, <3>2 DEF Alone
    <3>4. TaskAt(w)' /\ DownedAt(w)' /\ (Holds(w)' <=> Holds(w))
      BY <1>9, <1>i, <3>1, <3>3 DEF Ensure, TaskAt, DownedAt, Holds, ApplyPoints
    <3> QED
      BY <2>3, <3>3, <3>4, OwnerStep
  <2> QED
    BY <1>9, <2>1, <2>2, <2>3 DEF Ensure
<1>10. CASE Restore(w)
  <2>1. /\ task[w].pc = "raised"
        /\ Finish(w) \/ (Goto(w, "rejoin") /\ UNCHANGED lock)
    BY <1>10 DEF Restore
  <2> QED
    BY <1>f, <1>i, <2>1, MoveStep DEF TaskAt, DownedAt, Points, ApplyPoints
<1> QED
  BY <1>1, <1>2, <1>3, <1>4, <1>5, <1>6, <1>7, <1>8, <1>9, <1>10 DEF Step

World ==
  \/ Disconnect \/ FlightOn \/ FlightOff \/ CaptiveBegins \/ CaptiveEnds
  \/ Plug \/ Roam \/ \E p \in {"sta", "hs"} : Autoconnect(p)
Verbs ==
  \/ Supervise
  \/ \E i \in Intents, secret, apply \in BOOLEAN : IntentSet(i, secret, apply)
  \/ IntentApply \/ Forget \/ ForgetSaves \/ Restart

LEMMA NextCases == Next <=> Verbs \/ World \/ \E w \in Tasks : Step(w)
  BY DEF Next, Verbs, World

LEMMA WorldLeaves == World => UNCHANGED <<task, lock, view, lit, requests, intent, psk>>
  BY DEF World, Disconnect, FlightOn, FlightOff, CaptiveBegins, CaptiveEnds, Plug,
         Roam, Autoconnect, Undisturbed, kept

LEMMA NextOwner ==
  ASSUME OwnerInv, CountType, psk \in BOOLEAN, [Next]_vars
  PROVE  OwnerInv'
<1>1. CASE World \/ UNCHANGED vars
  BY <1>1, OwnerSame, WorldLeaves DEF vars
<1>2. CASE Verbs
  BY <1>2, VerbOwner DEF Verbs
<1> QED
  BY <1>1, <1>2, NextCases, StepOwner

(***************************************************************************)
(* The radio.                                                              *)
(***************************************************************************)
LEMMA RadioStep ==
  ASSUME RadioInv, UNCHANGED radio, saved' \subseteq {"sta", "hs"},
         auto' \subseteq {"sta", "hs"},
         \/ up' \subseteq up
         \/ \E p \in Profiles : up' = Activated(p)
         \/ \E p \in Profiles : up' = up \cup {p} /\ (radio = "exclusive" => up = {})
  PROVE  RadioInv'
  BY DEF RadioInv, Activated, Single

LEMMA StepRadio ==
  ASSUME RadioInv, OwnerInv, NEW w \in Tasks, Step(w)
  PROVE  RadioInv'
<1>t. TaskAt(w)
  BY DEF OwnerInv, TaskInv
<1>d. \A ps : Down(ps) => up' \subseteq up /\ auto' \subseteq auto
  BY DEF Down
<1>u. \A p : /\ Up(p) => up' = Activated(p)
             /\ UpFails(p) => UNCHANGED up
  BY DEF Up, UpFails
<1>a. saved \subseteq {"sta", "hs"} /\ auto \subseteq {"sta", "hs"}
  BY DEF RadioInv
<1> USE DEF world, Rest
<1>1. CASE Check(w)
  BY <1>1, <1>a, RadioStep DEF Check, nm
<1>2. CASE Release(w) \/ Disable(w) \/ Free(w) \/ DownSta(w)
  BY <1>2, <1>a, <1>d, RadioStep DEF Release, Disable, Free, DownSta
<1>3. CASE Raise(w)
  <2>1. task[w].name \in Profiles
    BY <1>3, <1>t DEF Raise, TaskAt, Aps, Profiles
  <2>2. UNCHANGED <<radio, saved>> /\ auto' \subseteq auto \cup saved
        /\ (up' = Activated(task[w].name) \/ up' = up)
    BY <1>3, <1>u DEF Raise
  <2> QED
    BY <1>a, <2>1, <2>2, RadioStep
<1>4. CASE ApplyBegin(w)
  BY <1>4, <1>a, <1>d, RadioStep DEF ApplyBegin
<1>5. CASE Join(w) \/ Rejoin(w)
  <2>1. UNCHANGED radio /\ saved' \subseteq {"sta", "hs"} /\ auto' \subseteq {"sta", "hs"}
    BY <1>5, <1>a DEF Join, Rejoin, nm
  <2>2. up' = Activated("sta") \/ up' = up
    BY <1>5, <1>u DEF Join, Rejoin, nm
  <2> QED
    BY <2>1, <2>2, RadioStep DEF Profiles
<1>6. CASE Tail(w) \/ Restore(w)
  BY <1>6, <1>a, <1>d, RadioStep DEF Tail, Restore
<1>7. CASE Ensure(w)
  <2>1. UNCHANGED radio /\ saved' \subseteq {"sta", "hs"} /\ auto' \subseteq {"sta", "hs"}
    BY <1>7, <1>a DEF Ensure
  <2>2. up' = Activated("hs") \/ up' = up
    BY <1>7, <1>u DEF Ensure
  <2> QED
    BY <2>1, <2>2, RadioStep DEF Profiles
<1> QED
  BY <1>1, <1>2, <1>3, <1>4, <1>5, <1>6, <1>7 DEF Step

LEMMA NextRadio ==
  ASSUME RadioInv, OwnerInv, [Next]_vars
  PROVE  RadioInv'
<1>a. saved \subseteq {"sta", "hs"} /\ auto \subseteq {"sta", "hs"}
  BY DEF RadioInv
<1>d. \A ps : Down(ps) => up' \subseteq up /\ auto' \subseteq auto
  BY DEF Down
<1>1. CASE Verbs
  <2>1. UNCHANGED radio /\ saved' \subseteq saved /\ auto' \subseteq auto
        /\ up' \subseteq up
    BY <1>1
    DEF Verbs, Supervise, Probe, LoadIntent, IntentSet, IntentApply, Forget,
        ForgetSaves, Restart, world, nm
  <2> QED
    BY <1>a, <2>1, RadioStep
<1>2. CASE World
  <2>1. ASSUME NEW p \in {"sta", "hs"}, Autoconnect(p) PROVE RadioInv'
    BY <1>a, <2>1, RadioStep DEF Autoconnect, world, Profiles
  <2>2. CASE Disconnect
    BY <1>a, <1>d, <2>2, RadioStep DEF Disconnect, world
  <2>3. CASE FlightOn \/ FlightOff \/ CaptiveBegins \/ CaptiveEnds \/ Plug \/ Roam
    BY <1>a, <2>3, RadioStep
    DEF FlightOn, FlightOff, CaptiveBegins, CaptiveEnds, Plug, Roam, world, nm
  <2> QED
    BY <1>2, <2>1, <2>2, <2>3 DEF World
<1>3. CASE UNCHANGED vars
  BY <1>3, <1>a, RadioStep DEF vars, world, nm
<1> QED
  BY <1>1, <1>2, <1>3, NextCases, StepRadio

(***************************************************************************)
(* The view and the counters.                                              *)
(***************************************************************************)
LEMMA Happened ==
  ASSUME CountType, NEW e, Happens(e)
  PROVE  troubles' \in 0 .. MaxTrouble /\ troubles' # troubles
  BY BoundsAssumption DEF Happens, CountType

LEMMA StepCount ==
  ASSUME CountType, NEW w \in Tasks, Step(w)
  PROVE  CountType'
<1>u. \A p : Up(p) \/ UpFails(p) => troubles' \in 0 .. MaxTrouble
  BY Happened DEF Up, UpFails, CountType
<1>t. troubles \in 0 .. MaxTrouble
  BY DEF CountType
<1>h. \A e : Happens(e) => troubles' \in 0 .. MaxTrouble
  BY Happened
<1>1. troubles' \in 0 .. MaxTrouble
  BY <1>h, <1>t, <1>u
  DEF Step, Check, Release, Raise, ApplyBegin, Disable, Free, DownSta, Join, Tail,
      Ensure, Restore, Rejoin, bounds
<1>2. UNCHANGED <<intent, requests>>
  BY DEF Step, Check, Release, Raise, ApplyBegin, Disable, Free, DownSta, Join,
         Tail, Ensure, Restore, Rejoin, bounds, Rest, kept
<1> QED
  BY <1>1, <1>2 DEF CountType

LEMMA NextCount ==
  ASSUME CountType, OwnerInv, [Next]_vars
  PROVE  CountType'
<1>t. /\ troubles \in 0 .. MaxTrouble /\ requests \in 0 .. MaxRequests
      /\ intent \in IntentType /\ MaxRequests \in Nat
  BY BoundsAssumption DEF CountType
<1>h. \A e : Happens(e) => troubles' \in 0 .. MaxTrouble
  BY Happened
<1>1. CASE Verbs
  <2>1. troubles' \in 0 .. MaxTrouble
    BY <1>1, <1>h, <1>t
    DEF Verbs, Supervise, Probe, LoadIntent, IntentSet, IntentApply, Forget,
        ForgetSaves, Restart, bounds
  <2>2. requests' \in 0 .. MaxRequests
    BY <1>1, <1>t
    DEF Verbs, Supervise, Probe, LoadIntent, IntentSet, IntentApply, Asks, Forget,
        ForgetSaves, Restart, bounds, Undisturbed
  <2>3. intent' \in IntentType
    <3>1. CASE ForgetSaves
      <4>1. task["op"].intent \in IntentType
        BY <3>1 DEF ForgetSaves, OwnerInv, TaskInv, TaskAt, Tasks
      <4> QED
        BY <3>1, <4>1 DEF ForgetSaves, IntentType
    <3>2. CASE ~ForgetSaves
      BY <1>1, <1>t, <3>2, IntentsAssumption
      DEF Verbs, Supervise, Probe, LoadIntent, IntentSet, IntentApply, Forget,
          Restart, kept
    <3> QED
      BY <3>1, <3>2
  <2> QED
    BY <2>1, <2>2, <2>3 DEF CountType
<1>2. CASE World
  <2>1. troubles' \in 0 .. MaxTrouble
    BY <1>2, <1>h, <1>t
    DEF World, Disconnect, FlightOn, FlightOff, CaptiveBegins, CaptiveEnds, Plug,
        Roam, Autoconnect
  <2> QED
    BY <1>2, <2>1, WorldLeaves DEF CountType
<1>3. CASE UNCHANGED vars
  BY <1>3 DEF vars, kept, bounds, CountType
<1> QED
  BY <1>1, <1>2, <1>3, NextCases, StepCount

LEMMA ReachType == Reachability \in {"Offline", "Online", "Limited", "Portal"}
  BY DEF Reachability, Verdict

\* What a probe does to the view.
LEMMA ProbeFacts ==
  ASSUME ViewType, Probe
  PROVE  /\ ViewType' /\ task["sup"].pc = "idle" /\ UNCHANGED lock
         /\ \/ Goto("sup", "check")
            \/ view'.critical => view.critical /\ (lit => lit')
<1> DEFINE reach == Reachability
           more == IF view.ticks < BootTicks THEN view.ticks + 1 ELSE BootTicks
           ticks == IF reach = view.reach THEN more ELSE 1
           ever == view.ever \/ reach \in Serviceable
           raise == /\ ~view.critical /\ reach = "Offline"
                    /\ ticks >= IF ever THEN CriticalTicks ELSE BootTicks
           restore == view.critical /\ reach \in Serviceable /\ ticks >= RestoreTicks
           critical == (view.critical \/ raise) /\ ~restore
<1>1. /\ task["sup"].pc = "idle"
      /\ view' = [reach |-> reach, ticks |-> ticks, ever |-> ever, critical |-> critical]
      /\ Goto("sup", IF raise THEN "check" ELSE IF restore THEN "load" ELSE "idle")
      /\ lit' = (lit /\ ~raise /\ ~restore) /\ UNCHANGED lock
  BY DEF Probe
<1>2. ticks \in 0 .. BootTicks
  <2>1. BootTicks \in Nat /\ 1 <= BootTicks /\ view.ticks \in 0 .. BootTicks
    BY TicksAssumption DEF ViewType
  <2> QED
    BY <2>1
<1>3. reach \in {"Unknown", "Offline", "Online", "Limited", "Portal"}
  BY ReachType
<1>4. ever \in BOOLEAN /\ critical \in BOOLEAN
  BY Zenon
<1>5. view'.critical = critical
  BY <1>1
<1>6. ~raise => (view'.critical => view.critical /\ ~restore)
  BY <1>5
<1>7. raise => Goto("sup", "check")
  BY <1>1
<1>8. ~raise /\ ~restore => (lit => lit')
  BY <1>1
<1> HIDE DEF reach, ticks, ever, raise, restore, critical
<1>9. ViewType'
  BY <1>1, <1>2, <1>3, <1>4 DEF ViewType
<1> QED
  BY <1>1, <1>6, <1>7, <1>8, <1>9

\* The end of a raise only ever releases the latch.
LEMMA ReturnFacts ==
  ASSUME ViewType, NEW w \in Tasks, NEW ok \in BOOLEAN, RaiseReturns(w, ok)
  PROVE  ViewType' /\ (view'.critical => view.critical)
         /\ (~task[w].apply /\ ~ok => ~view'.critical)
<1>1. CASE task[w].apply
  BY <1>1 DEF RaiseReturns, ViewType
<1>2. CASE ~task[w].apply
  <2>1. view' = [view EXCEPT !.critical = @ /\ ok]
    BY <1>2 DEF RaiseReturns
  <2>2. view.critical \in BOOLEAN
    BY DEF ViewType
  <2>3. (view.critical /\ ok) \in BOOLEAN
    BY <2>2, Zenon
  <2>4. view' \in [reach : {"Unknown", "Offline", "Online", "Limited", "Portal"},
            ticks : 0 .. BootTicks, critical : BOOLEAN, ever : BOOLEAN]
    BY <2>1, <2>3 DEF ViewType
  <2>5. view'.critical = (view.critical /\ ok)
    BY <2>1 DEF ViewType
  <2> QED
    BY <2>4, <2>5 DEF ViewType
<1> QED
  BY <1>1, <1>2

LEMMA StepView ==
  ASSUME ViewType, NEW w \in Tasks, Step(w)
  PROVE  ViewType' /\ (view'.critical => view.critical)
<1>1. CASE UNCHANGED view
  BY <1>1 DEF ViewType
<1>2. ASSUME NEW ok \in BOOLEAN, RaiseReturns(w, ok)
      PROVE  ViewType' /\ (view'.critical => view.critical)
  BY <1>2, ReturnFacts
<1> QED
  BY <1>1, <1>2
  DEF Step, Check, Release, Raise, ApplyBegin, Disable, Free, DownSta, Join, Tail,
      Ensure, Restore, Rejoin, Rest

LEMMA NextView ==
  ASSUME ViewType, [Next]_vars
  PROVE  ViewType'
<1>0. CASE UNCHANGED view
  BY <1>0 DEF ViewType
<1>1. CASE Probe
  BY <1>1, ProbeFacts
<1>2. CASE Restart
  <2>1. 0 \in 0 .. BootTicks
    BY TicksAssumption
  <2> QED
    BY <1>2, <2>1 DEF Restart, NoView, ViewType
<1>3. CASE Verbs /\ ~Probe /\ ~Restart
  BY <1>0, <1>3
  DEF Verbs, Supervise, LoadIntent, IntentSet, IntentApply, Forget, ForgetSaves,
      Undisturbed
<1> QED
  BY <1>0, <1>1, <1>2, <1>3, NextCases, StepView, WorldLeaves DEF vars

(***************************************************************************)
(* LatchHonest.                                                            *)
(***************************************************************************)
LEMMA StepLatch ==
  ASSUME OwnerInv, ViewType, FlagType, LatchHonest, NEW w \in Tasks, Step(w)
  PROVE  LatchHonest'
<1>t. task \in [Tasks -> TaskType] /\ TaskAt(w)
  BY DEF OwnerInv, TaskInv
<1>v. view'.critical => view.critical
  BY StepView
<1>l. lit => lit'
  BY DEF Step, Check, Release, Raise, ApplyBegin, Disable, Free, DownSta, Join, Tail,
         Ensure, Restore, Rejoin, Rest
<1>1. CASE lit
  BY <1>1, <1>l DEF LatchHonest
<1>2. CASE w = "op"
  <2>1. task'["sup"] = task["sup"]
    BY <1>2, <1>t
    DEF Step, Check, Release, Raise, ApplyBegin, Disable, Free, DownSta, Join, Tail,
        Ensure, Restore, Rejoin, RaiseReturns, Finish, Ending, Goto, Tasks
  <2> QED
    BY <1>l, <1>v, <2>1 DEF LatchHonest
<1>3. CASE w = "sup" /\ ~lit /\ view.critical
  <2>1. ~task[w].apply /\ task[w].pc \in {"check", "release", "raise"}
    BY <1>3 DEF LatchHonest
  <2>r. RaiseReturns(w, FALSE) => ~view'.critical
    BY <2>1, ReturnFacts
  <2>2. Check(w) \/ Release(w) \/ Raise(w)
    BY <1>t, <2>1
    DEF Step, TaskAt, ApplyBegin, Disable, Free, DownSta, Join, Tail, Ensure,
        Restore, Rejoin
  <2>3. CASE Check(w)
    <3>1. CASE RaiseReturns(w, FALSE)
      BY <2>r, <3>1 DEF LatchHonest
    <3>2. CASE ~RaiseReturns(w, FALSE)
      <4>1. \E n : task' = [task EXCEPT ![w].pc = "release", ![w].name = n]
        BY <2>3, <3>2 DEF Check
      <4>2. ~task'[w].apply /\ task'[w].pc = "release"
        BY <1>t, <2>1, <4>1 DEF TaskType
      <4> QED
        BY <1>3, <4>2 DEF LatchHonest
    <3> QED
      BY <3>1, <3>2
  <2>4. CASE Release(w)
    BY <1>3, <1>t, <2>1, <2>4, GotoFacts DEF Release, LatchHonest, Points
  <2>5. CASE Raise(w)
    BY <2>1, <2>5, <2>r DEF Raise, LatchHonest
  <2> QED
    BY <2>2, <2>3, <2>4, <2>5
<1>4. CASE ~view.critical
  BY <1>4, <1>v DEF LatchHonest
<1> QED
  BY <1>1, <1>2, <1>3, <1>4 DEF Tasks

LEMMA NextLatch ==
  ASSUME OwnerInv, ViewType, FlagType, LatchHonest, [Next]_vars
  PROVE  LatchHonest'
<1>t. task \in [Tasks -> TaskType] /\ TaskAt("sup") /\ "sup" \in Tasks
  BY DEF OwnerInv, TaskInv, Tasks
<1>0. CASE UNCHANGED <<view, lit>> /\ task'["sup"] = task["sup"]
  BY <1>0 DEF LatchHonest
<1>1. CASE Probe
  <2>1. task["sup"].pc = "idle" /\ ~task["sup"].apply
    BY <1>1, <1>t, ProbeFacts DEF TaskAt
  <2>2. CASE Goto("sup", "check")
    <3>1. task'["sup"].pc = "check" /\ ~task'["sup"].apply
      BY <1>t, <2>1, <2>2, GotoFacts DEF Points
    <3> QED
      BY <3>1 DEF LatchHonest
  <2>3. CASE view'.critical => view.critical /\ (lit => lit')
    BY <2>1, <2>3 DEF LatchHonest
  <2> QED
    BY <1>1, <2>2, <2>3, ProbeFacts
<1>2. CASE LoadIntent
  BY <1>2 DEF LoadIntent, LatchHonest
<1>3. CASE Restart
  BY <1>3 DEF Restart, NoView, LatchHonest
<1>4. CASE Verbs /\ ~Supervise /\ ~Restart
  <2>1. UNCHANGED <<view, lit>>
    BY <1>4 DEF Verbs, IntentSet, IntentApply, Forget, ForgetSaves, Undisturbed
  <2>2. task'["sup"] = task["sup"]
    BY <1>4, <1>t DEF Verbs, IntentSet, IntentApply, Asks, Forget, ForgetSaves
  <2> QED
    BY <1>0, <2>1, <2>2
<1>5. CASE World \/ UNCHANGED vars
  BY <1>0, <1>5, WorldLeaves DEF vars
<1> QED
  BY <1>1, <1>2, <1>3, <1>4, <1>5, NextCases, StepLatch DEF Verbs, Supervise

(***************************************************************************)
(* SteadyInv and the flags.                                                *)
(***************************************************************************)
LEMMA NextFlags ==
  ASSUME FlagType, [Next]_vars
  PROVE  FlagType'
<1>1. port' \in BOOLEAN /\ cable' \in BOOLEAN /\ range' \in BOOLEAN /\ (cable' => port')
  <2>1. CASE Plug \/ Roam
    <3>1. CASE Plug
      <4>1. port /\ UNCHANGED <<port, range>> /\ cable' = ~cable
        BY <3>1 DEF Plug
      <4> QED
        BY <4>1, Zenon DEF FlagType
    <3>2. CASE Roam
      <4>1. UNCHANGED <<port, cable>> /\ range' = ~range
        BY <3>2 DEF Roam
      <4> QED
        BY <4>1, Zenon DEF FlagType
    <3> QED
      BY <2>1, <3>1, <3>2
  <2>2. CASE UNCHANGED <<port, cable, range>>
    BY <2>2 DEF FlagType
  <2>3. ASSUME NEW w \in Tasks, Step(w) PROVE UNCHANGED <<port, cable, range>>
    BY <2>3
    DEF Step, Check, Release, Raise, ApplyBegin, Disable, Free, DownSta, Join, Tail,
        Ensure, Restore, Rejoin, Rest, world
  <2>4. Verbs => UNCHANGED <<port, cable, range>>
    BY DEF Verbs, Supervise, Probe, LoadIntent, IntentSet, IntentApply, Forget,
           ForgetSaves, Restart, world
  <2>5. World => Plug \/ Roam \/ UNCHANGED <<port, cable, range>>
    BY DEF World, Disconnect, FlightOn, FlightOff, CaptiveBegins, CaptiveEnds,
           Autoconnect, world
  <2> QED
    BY <2>1, <2>2, <2>3, <2>4, <2>5, NextCases DEF vars, world
<1>2. psk' \in BOOLEAN /\ flight' \in BOOLEAN /\ captive' \in BOOLEAN
  <2>1. CASE UNCHANGED <<psk, flight, captive>>
    BY <2>1 DEF FlagType
  <2>2. ASSUME NEW w \in Tasks, Step(w) PROVE UNCHANGED <<psk, flight, captive>>
    BY <2>2
    DEF Step, Check, Release, Raise, ApplyBegin, Disable, Free, DownSta, Join, Tail,
        Ensure, Restore, Rejoin, Rest, kept
  <2>3. ASSUME NEW i, NEW secret, NEW apply, IntentSet(i, secret, apply)
        PROVE  psk' \in BOOLEAN /\ UNCHANGED <<flight, captive>>
    BY <2>3, Zenon DEF IntentSet
  <2>4. Verbs => \/ UNCHANGED <<psk, flight, captive>>
                 \/ psk' \in BOOLEAN /\ UNCHANGED <<flight, captive>>
    BY <2>3
    DEF Verbs, Supervise, Probe, LoadIntent, IntentApply, Forget, ForgetSaves,
        Restart, kept
  <2>5. World => /\ UNCHANGED psk /\ flight' \in {flight, TRUE, FALSE}
                 /\ captive' \in {captive, TRUE, FALSE}
    BY DEF World, Disconnect, FlightOn, FlightOff, CaptiveBegins, CaptiveEnds, Plug,
           Roam, Autoconnect, kept
  <2> QED
    BY <2>1, <2>2, <2>4, <2>5, NextCases DEF vars, kept, FlagType
<1>3. steady' \in BOOLEAN
  <2>0. CASE UNCHANGED steady \/ steady' = FALSE \/ steady' = TRUE
    BY <2>0 DEF FlagType
  <2>1. ASSUME NEW w \in Tasks, Step(w) PROVE steady' \in BOOLEAN
    <3>1. CASE Steadily
      BY <3>1, Zenon DEF Steadily
    <3>2. CASE Release(w)
      BY <3>2, Zenon DEF Release
    <3>3. CASE Raise(w)
      BY <3>3, Zenon DEF Raise
    <3>4. CASE ApplyBegin(w) \/ Free(w) \/ DownSta(w) \/ Join(w)
      BY <2>0, <3>4 DEF ApplyBegin, Free, DownSta, Join
    <3> QED
      BY <2>1, <3>1, <3>2, <3>3, <3>4
      DEF Step, Check, Disable, Tail, Ensure, Restore, Rejoin
  <2>2. Verbs \/ World => UNCHANGED steady \/ steady' = FALSE
    BY DEF Verbs, Supervise, Probe, LoadIntent, IntentSet, IntentApply, Forget,
           ForgetSaves, Restart, World, Disconnect, FlightOn, FlightOff,
           CaptiveBegins, CaptiveEnds, Plug, Roam, Autoconnect
  <2> QED
    BY <2>0, <2>1, <2>2, NextCases DEF vars
<1>4. lit' \in BOOLEAN
  <2>0. CASE UNCHANGED lit \/ lit' = FALSE
    BY <2>0 DEF FlagType
  <2>1. ASSUME NEW w \in Tasks, Step(w) PROVE lit' \in BOOLEAN
    <3>1. CASE Raise(w)
      <4>1. lit' = (lit \/ ~task[w].apply) \/ UNCHANGED lit
        BY <3>1 DEF Raise
      <4>2. CASE lit' = (lit \/ ~task[w].apply)
        BY <4>2, Zenon
      <4> QED
        BY <2>0, <4>1, <4>2
    <3> QED
      BY <2>0, <2>1, <3>1
      DEF Step, Check, Release, ApplyBegin, Disable, Free, DownSta, Join, Tail,
          Ensure, Restore, Rejoin, Rest
  <2>2. CASE Probe
    BY <2>2, Zenon DEF Probe
  <2>3. Verbs /\ ~Probe => UNCHANGED lit \/ lit' = FALSE
    BY DEF Verbs, Supervise, LoadIntent, IntentSet, IntentApply, Forget, ForgetSaves,
           Restart, Undisturbed
  <2> QED
    BY <2>0, <2>1, <2>2, <2>3, NextCases, WorldLeaves DEF vars
<1> QED
  BY <1>1, <1>2, <1>3, <1>4 DEF FlagType

\* A step that leaves the holder of the lock, the cable and the radio alone.
LEMMA SteadySame ==
  ASSUME SteadyInv, steady' => steady, UNCHANGED <<lock, port, cable>>,
         up # {} => up' # {},
         \A k \in Tasks : lock = k => task'[k] = task[k]
  PROVE  SteadyInv'
  BY DEF SteadyInv, NoCarrier

LEMMA StepSteady ==
  ASSUME OwnerInv, SteadyInv, FlagType, NEW w \in Tasks, Step(w)
  PROVE  SteadyInv'
<1>t. task \in [Tasks -> TaskType] /\ TaskAt(w) /\ (Holds(w) <=> lock = w)
  BY DEF OwnerInv, TaskInv
<1>n. None \notin Tasks
  BY NoneAssumption
<1>a. Alone(w)
  BY <1>t
  DEF Alone, Step, Check, Release, Raise, ApplyBegin, Disable, Free, DownSta, Join,
      Tail, Ensure, Restore, Rejoin, RaiseReturns, Finish, Ending, Goto
<1>c. UNCHANGED <<port, cable>>
  BY DEF Step, Check, Release, Raise, ApplyBegin, Disable, Free, DownSta, Join, Tail,
         Ensure, Restore, Rejoin, Rest, world
<1>g. \A p \in Points : Goto(w, p) =>
        /\ task'[w].pc = p /\ task'[w].intent = task[w].intent
  BY <1>t, GotoFacts
<1>e. task' = [task EXCEPT ![w] = Idle] => task'[w].pc = "idle"
  BY <1>t, IdleFacts
<1>1. CASE lock = w \/ ~steady'
  <2> SUFFICES ASSUME steady', lock' = w
               PROVE  /\ task'[w].pc = "raised" => up' # {}
                      /\ task'[w].pc = "rejoin" => ~NoCarrier(task[w].intent)'
    <3>1. \A k \in Tasks : lock' = k => k = w \/ ~steady'
      BY <1>1, <1>n
      DEF Step, Check, Release, Raise, ApplyBegin, Disable, Free, DownSta, Join, Tail,
          Ensure, Restore, Rejoin, RaiseReturns, Finish, Ending, Unlocked
    <3> QED
      BY <3>1 DEF SteadyInv
  <2>1. CASE task'[w].pc \notin {"raised", "rejoin"}
    BY <2>1
  <2>2. CASE Ensure(w)
    <3>1. CASE task' = [task EXCEPT ![w].raised = TRUE, ![w].pc = "raised"]
      <4>1. task'[w].pc = "raised"
        BY <1>t, <3>1 DEF TaskType
      <4>2. "hs" \in up'
        <5>1. \/ "hs" \in up /\ UNCHANGED up
              \/ Up("hs")
              \/ Finish(w) \/ Goto(w, "check")
          BY <2>2 DEF Ensure
        <5>2. ~Finish(w) /\ ~Goto(w, "check")
          BY <1>e, <1>g, <4>1 DEF Finish, Points
        <5> QED
          BY <5>1, <5>2 DEF Up, Activated
      <4> QED
        BY <4>1, <4>2
    <3>2. CASE Finish(w) \/ Goto(w, "check")
      BY <1>e, <1>g, <2>1, <3>2 DEF Finish, Points
    <3> QED
      BY <2>2, <3>1, <3>2 DEF Ensure
  <2>3. CASE Restore(w)
    <3>1. CASE Goto(w, "rejoin") /\ ~NoCarrier(task[w].intent)
      BY <1>c, <1>g, <3>1 DEF Points, NoCarrier
    <3>2. CASE Finish(w)
      BY <1>e, <2>1, <3>2 DEF Finish
    <3> QED
      BY <2>3, <3>1, <3>2 DEF Restore
  <2>4. CASE Check(w)
    <3>1. CASE RaiseReturns(w, FALSE)
      BY <1>e, <2>1, <3>1 DEF RaiseReturns
    <3>2. CASE ~RaiseReturns(w, FALSE)
      <4>1. \E n : task' = [task EXCEPT ![w].pc = "release", ![w].name = n]
        BY <2>4, <3>2 DEF Check
      <4>2. task'[w].pc = "release"
        BY <1>t, <4>1 DEF TaskType
      <4> QED
        BY <2>1, <4>2
    <3> QED
      BY <3>1, <3>2
  <2>5. CASE Free(w)
    <3>1. \E p \in {"down", "check"} :
            task' = [task EXCEPT ![w].downed = TRUE, ![w].pc = p]
      BY <2>5 DEF Free
    <3>2. task'[w].pc \in {"down", "check"}
      BY <1>t, <3>1 DEF TaskType
    <3> QED
      BY <2>1, <3>2
  <2>6. CASE \/ Release(w) \/ Raise(w) \/ ApplyBegin(w) \/ Disable(w) \/ DownSta(w)
             \/ Join(w) \/ Tail(w) \/ Rejoin(w)
    BY <1>e, <1>g, <2>1, <2>6
    DEF Release, Raise, ApplyBegin, Disable, DownSta, Join, Tail, Rejoin, Finish,
        Ending, RaiseReturns, Points
  <2> QED
    BY <2>2, <2>3, <2>4, <2>5, <2>6 DEF Step
<1>2. CASE lock # w /\ steady'
  <2>1. ~Holds(w) /\ ~ApplyBegin(w)
    BY <1>2, <1>t DEF ApplyBegin
  <2>2. Check(w) \/ Release(w) \/ Raise(w)
    BY <1>t, <2>1
    DEF Step, TaskAt, Holds, ApplyPoints, Disable, Free, DownSta, Join, Tail, Ensure,
        Restore, Rejoin
  <2>3. ~task[w].apply
    BY <2>1, <2>2 DEF Holds, Check, Release, Raise
  <2>4. Check(w)
    BY <1>2, <2>2, <2>3 DEF Release, Raise
  <2>5. UNCHANGED <<up, lock>> /\ steady
    BY <1>2, <2>4 DEF Check, nm, Steadily, RaiseReturns, Unlocked
  <2> QED
    BY <1>2, <1>a, <1>c, <2>5, SteadySame DEF Alone
<1> QED
  BY <1>1, <1>2

LEMMA NextSteady ==
  ASSUME OwnerInv, SteadyInv, FlagType, [Next]_vars
  PROVE  SteadyInv'
<1>t. task \in [Tasks -> TaskType] /\ "sup" \in Tasks /\ "op" \in Tasks
  BY DEF OwnerInv, Tasks
<1>l. \A w \in Tasks : task[w].pc \in {"idle", "load", "forget"} => lock # w
  BY DEF OwnerInv, TaskInv, TaskAt, Holds
<1>0. CASE steady' = FALSE
  BY <1>0 DEF SteadyInv
<1>1. CASE Supervise
  <2>1. lock # "sup" /\ UNCHANGED <<up, port, cable, lock, steady>>
    BY <1>1, <1>l, <1>t DEF Supervise, Probe, LoadIntent, nm, world
  <2>2. \A k \in Tasks : k # "sup" => task'[k] = task[k]
    BY <1>1, <1>t DEF Supervise, Probe, LoadIntent, Goto
  <2> QED
    BY <2>1, <2>2, SteadySame
<1>2. CASE IntentApply \/ ForgetSaves
  <2>1. lock # "op" /\ UNCHANGED <<up, port, cable, lock, steady>>
    BY <1>2, <1>l, <1>t DEF IntentApply, Asks, ForgetSaves, Undisturbed, nm, world
  <2>2. \A k \in Tasks : k # "op" => task'[k] = task[k]
    BY <1>2, <1>t DEF IntentApply, Asks, ForgetSaves
  <2> QED
    BY <2>1, <2>2, SteadySame
<1>3. CASE Verbs /\ ~Supervise /\ ~IntentApply /\ ~ForgetSaves
  BY <1>0, <1>3 DEF Verbs, IntentSet, Forget, Restart
<1>4. ASSUME NEW p, Autoconnect(p) PROVE SteadyInv'
  BY <1>4, SteadySame DEF Autoconnect, Undisturbed, world
<1>5. CASE World
  BY <1>0, <1>4, <1>5
  DEF World, Disconnect, FlightOn, FlightOff, CaptiveBegins, CaptiveEnds, Plug, Roam
<1>6. CASE UNCHANGED vars
  BY <1>6, SteadySame DEF vars, world, nm
<1> QED
  BY <1>1, <1>2, <1>3, <1>5, <1>6, NextCases, StepSteady DEF Verbs

(***************************************************************************)
(* The invariant and what follows from it.                                 *)
(***************************************************************************)
LEMMA InitInv == Init => IInv
<1> SUFFICES ASSUME Init PROVE IInv
  OBVIOUS
<1>1. OwnerInv
  <2>1. \A w \in Tasks : task[w] = Idle /\ lock # w
    BY NoneAssumption DEF Init
  <2>2. \A w \in Tasks : TaskAt(w) /\ DownedAt(w) /\ ~Holds(w)
    BY <2>1, IdleFacts DEF TaskAt, DownedAt, Holds, ApplyPoints
  <2> QED
    BY <2>1, <2>2, IdleFacts DEF Init, OwnerInv, TaskInv
<1>2. RadioInv
  BY DEF Init, RadioInv, Single
<1>3. intent \in IntentType /\ intent.ssid \in BOOLEAN
  BY IntentsAssumption DEF Init, IntentType
<1>4. FlagType
  BY <1>3 DEF Init, FlagType
<1>5. ViewType
  <2>1. 0 \in 0 .. BootTicks
    BY TicksAssumption
  <2> QED
    BY <2>1 DEF Init, NoView, ViewType
<1>6. CountType
  BY <1>3, BoundsAssumption DEF Init, CountType
<1>7. LatchHonest
  BY DEF Init, NoView, LatchHonest
<1>8. SteadyInv
  BY DEF Init, SteadyInv
<1> QED
  BY <1>1, <1>2, <1>4, <1>5, <1>6, <1>7, <1>8, TypeParts DEF IInv

LEMMA NextInv == IInv /\ [Next]_vars => IInv'
<1> SUFFICES ASSUME IInv, [Next]_vars PROVE IInv'
  OBVIOUS
<1>1. OwnerInv /\ RadioInv /\ FlagType /\ ViewType /\ CountType
  BY TypeParts DEF IInv
<1>2. OwnerInv' /\ RadioInv' /\ FlagType' /\ ViewType' /\ CountType'
  BY <1>1, NextOwner, NextRadio, NextFlags, NextView, NextCount DEF FlagType
<1>3. LatchHonest' /\ SteadyInv'
  BY <1>1, NextLatch, NextSteady DEF IInv
<1>4. (TypeOK /\ TaskInv)'
  BY <1>2, TypeParts, PTL
<1> QED
  BY <1>3, <1>4 DEF IInv

\* One apply works on the radio at a time, a radio that carries one connection
\* carries one, and the latch that suppresses further raises stands for an
\* access point that came up (RecoveryInv).
THEOREM RecoveryCorrect == Spec => []RecoveryInv
<1>1. IInv => RecoveryInv
  BY DEF IInv, RecoveryInv
<1> QED
  BY <1>1, InitInv, NextInv, PTL DEF Spec

\* An apply that took the hotspot down for a join does not let the lock go over
\* a radio with nothing on it, with the exceptions JoinEndsReachable names: the
\* world changed or the hotspot was refused while it ran, a declared Ethernet
\* without a device, and a hotspot given up for the station without Ethernet.
THEOREM JoinLeavesAWayIn == Spec => JoinEndsReachable
<1> DEFINE Reachable ==
      \A w \in Tasks :
        LET i == task[w].intent
        IN  /\ lock = w /\ lock' # w /\ task[w].downed /\ steady /\ troubles' = troubles
            /\ i.hotspot /\ ~cable /\ ~flight
            /\ IF i.eth THEN port ELSE task[w].pc # "rejoin"
            => up' # {}
<1>1. IInv /\ [Next]_vars => [Reachable]_vars
  <2> SUFFICES ASSUME IInv, Next, NEW w \in Tasks,
                      lock = w, lock' # w, task[w].downed, steady,
                      troubles' = troubles, task[w].intent.hotspot,
                      ~cable, ~flight,
                      IF task[w].intent.eth THEN port ELSE task[w].pc # "rejoin"
               PROVE  up' # {}
    BY Zenon
  <2>0. OwnerInv /\ CountType /\ TaskAt(w) /\ DownedAt(w)
    BY TypeParts DEF IInv, TaskInv
  <2>n. None \notin Tasks
    BY NoneAssumption
  <2>h. \A e : ~Happens(e)
    BY <2>0, Happened
  <2>1. Step(w)
    <3>1. ~World
      BY WorldLeaves
    <3>2. ~Verbs
      BY <2>h
      DEF Verbs, Supervise, Probe, LoadIntent, IntentSet, IntentApply, Forget,
          ForgetSaves, Restart, Undisturbed
    <3>3. ASSUME NEW k \in Tasks, k # w, Step(k) PROVE FALSE
      <4>1. ~Holds(k) /\ lock # None
        BY <2>0, <2>n, <3>3 DEF OwnerInv
      <4>2. ~ApplyBegin(k)
        BY <4>1 DEF ApplyBegin, MayBegin
      <4>3. Unlocked(k) = lock
        BY <3>3 DEF Unlocked
      <4> QED
        BY <3>3, <4>2, <4>3
        DEF Step, Check, Release, Raise, Disable, Free, DownSta, Join, Tail, Ensure,
            Restore, Rejoin, RaiseReturns, Finish, Ending
    <3> QED
      BY <3>1, <3>2, <3>3, NextCases
  <2>2. CASE Check(w)
    <3>1. task[w].apply
      BY <2>0 DEF DownedAt
    <3>2. "sta" \in up /\ UNCHANGED up
      BY <2>2, <3>1 DEF Check, NoServiceableUplink, NoCarrier, nm
    <3> QED
      BY <3>2
  <2>3. CASE Raise(w)
    <3>1. task[w].name \in Aps
      BY <2>0, <2>3 DEF Raise, TaskAt
    <3>2. ~UpFails(task[w].name)
      BY <2>h, <3>1 DEF UpFails, Aps
    <3>3. up' = Activated(task[w].name)
      BY <2>3, <3>2 DEF Raise, Up
    <3> QED
      BY <3>3 DEF Activated
  <2>4. CASE Restore(w)
    <3>1. UNCHANGED up /\ task[w].pc = "raised"
      BY <2>4 DEF Restore
    <3> QED
      BY <3>1 DEF IInv, SteadyInv
  <2>5. CASE Rejoin(w)
    BY <2>5 DEF Rejoin, IInv, SteadyInv, NoCarrier
  <2>6. CASE Disable(w) \/ ApplyBegin(w)
    BY <2>0, <2>6 DEF Disable, ApplyBegin, DownedAt
  <2>7. CASE Release(w) \/ Free(w) \/ DownSta(w) \/ Join(w)
    BY <2>7 DEF Release, Free, DownSta, Join
  <2>8. CASE Tail(w)
    <3>1. ~task[w].raised
      BY <2>0, <2>8 DEF Tail, DownedAt
    <3> QED
      BY <2>8, <3>1 DEF Tail, Ending
  <2>9. CASE Ensure(w)
    BY <2>0, <2>9 DEF Ensure, DownedAt
  <2> QED
    BY <2>1, <2>2, <2>3, <2>4, <2>5, <2>6, <2>7, <2>8, <2>9 DEF Step
<1> QED
  BY <1>1, InitInv, NextInv, PTL DEF Spec, JoinEndsReachable
===============================================================================
