--------------------------- MODULE Savings_proofs ---------------------------
(***************************************************************************)
(* Proofs about the SavingsPolicy controller, for any deployments, target  *)
(* lists and bounds, and about the schedule of a SavingsPolicy, for every  *)
(* length of a day, every list of patterns and every zone.                 *)
(*                                                                         *)
(* The controller: the inductive invariant follows the secret through a    *)
(* pass.  What a pass puts to sleep is in the secret that it has written   *)
(* before, what it has yet to wake up is in its hands, and of what it      *)
(* ignores nothing sleeps once the secret is written.                      *)
(*                                                                         *)
(* The schedule: checkSchedule, which compares moments of one month,       *)
(* against what the patterns say.                                          *)
(***************************************************************************)
EXTENDS SavingsPolicy, SavingsSchedule, Lemmas

Policies ==
    [exists : BOOLEAN, targets : TargetLists, suspend : {"no", "for", "until"},
     deleting : BOOLEAN, terminating : BOOLEAN]

\* What deployments had been, and what they can be.
Records ==
    {f \in UNION {[D -> Nat] : D \in SUBSET Deployments} :
        \A d \in DOMAIN f : f[d] = Replicas[d]}
Secrets == [exists : BOOLEAN, tracked : Records]
Scales ==
    {s \in [Deployments -> Nat] : \A d \in Deployments : s[d] \in {0, Replicas[d]}}
Passes ==
    [at : {"ignored", "scale"}, policy : Policies, suspended : BOOLEAN,
     tracked : Records, found : Scales, todo : SUBSET Deployments]

Types ==
    /\ policy \in Feeds(Policies)
    /\ secret \in Feeds(Secrets)
    /\ scale \in Feeds(Scales)
    /\ pass \in Passes \cup {Idle}
    /\ hazards \subseteq {"lag", "interrupted", "untargeted"}

\* What a pass is about to scale is recorded: in its hands when it wakes up,
\* in the secret when it puts to sleep.
Recording ==
    /\ pass.at = "ignored" => pass.todo \subseteq DOMAIN pass.tracked
    /\ pass.at = "scale" /\ pass.suspended => pass.todo \subseteq DOMAIN pass.tracked
    /\ pass.at = "scale" /\ ~pass.suspended =>
           pass.todo \subseteq DOMAIN Stored(secret).tracked

\* Without hazards a pass knows what sleeps: before it writes the secret it
\* has found and tracks all of it, and has yet to wake what it ignores; and
\* when the policy ends nothing sleeps.
Knowing ==
    /\ pass.at = "ignored" =>
           /\ pass.tracked = Stored(secret).tracked
           /\ \A d \in Asleep : pass.found[d] = 0
           /\ IgnoredToWake(pass.policy, pass.found, pass.tracked) \cap Asleep
                  \subseteq pass.todo
    /\ pass.at = "scale" /\ pass.suspended => Asleep \subseteq pass.todo
    /\ Asleep \ Waking \subseteq DOMAIN Stored(secret).tracked
    /\ Gone => Asleep = {}
Tracking == hazards = {} => Knowing

\* A policy that is about to end stays so, in the order of its feed.
Ends(p) == p.deleting /\ p.terminating
Ending ==
    /\ \A i, j \in 1..Len(policy) : i <= j /\ Ends(policy[i]) => Ends(policy[j])
    /\ pass # Idle /\ pass.policy.deleting => pass.suspended /\ Ends(Cached(policy))
    /\ Gone => Ends(Cached(policy)) /\ (pass = Idle \/ pass.suspended)

IInv == Types /\ Recording /\ Tracking /\ Ending

-----------------------------------------------------------------------------
(* The data of a pass. *)

\* Replicas are remembered as they were, and never as zero.
LEMMA RecordFacts ==
  ASSUME NEW f \in Records
  PROVE  /\ DOMAIN f \subseteq Deployments
         /\ \A d \in DOMAIN f : f[d] = Replicas[d] /\ f[d] \in Nat \ {0}
BY ReplicasAssumption DEF Records

\* Nothing is remembered before the first pass, and of a suspended policy.
LEMMA NothingRecorded == << >> \in Records /\ DOMAIN << >> = {}
<1>1. << >> \in [{} -> Nat]
  OBVIOUS
<1>2. QED
  BY <1>1 DEF Records

\* What is tracked for a policy that is not suspended: every selected
\* deployment that was tracked before or was found awake, with its replicas.
LEMMA InfoFacts ==
  ASSUME NEW a \in Passes
  PROVE  LET info == Info(a.found, Selected(a.policy), a.tracked)
         IN  /\ info \in Records
             /\ \A d \in Selected(a.policy) :
                    d \in DOMAIN a.tracked \/ a.found[d] # 0 => d \in DOMAIN info
<1> DEFINE Original(d) == IF d \in DOMAIN a.tracked THEN a.tracked[d] ELSE a.found[d]
           D == {e \in Selected(a.policy) : Original(e) # 0}
<1>1. a.tracked \in Records /\ a.found \in Scales
  BY DEF Passes
<1>2. Selected(a.policy) \subseteq Deployments
  BY DEF Selected
<1>3. \A d \in Selected(a.policy) : Original(d) \in {0, Replicas[d]}
  BY <1>1, <1>2, RecordFacts DEF Scales
<1>4. Info(a.found, Selected(a.policy), a.tracked) = [d \in D |-> Original(d)]
  BY DEF Info
<1>5. [d \in D |-> Original(d)] \in Records
  <2>1. D \in SUBSET Deployments
    BY <1>2
  <2>2. \A d \in D : Original(d) = Replicas[d] /\ Original(d) \in Nat
    BY <1>3, <2>1, ReplicasAssumption
  <2> HIDE DEF Original, D
  <2>3. [d \in D |-> Original(d)] \in [D -> Nat]
    BY <2>2
  <2>4. QED
    BY <2>1, <2>2, <2>3 DEF Records
<1>6. \A d \in Selected(a.policy) :
          d \in DOMAIN a.tracked \/ a.found[d] # 0 => d \in D
  BY <1>1, <1>2, RecordFacts
<1>7. QED
  BY <1>4, <1>5, <1>6

\* What a pass writes is a record, and what it is about to scale then is
\* recorded.
LEMMA PassFacts ==
  ASSUME NEW a \in Passes
  PROVE  /\ Recorded(a) \in Records
         /\ ToScale(a) \subseteq Deployments
         /\ a.suspended => /\ Recorded(a) = << >>
                           /\ ToScale(a) \subseteq DOMAIN a.tracked
         /\ ~a.suspended => ToScale(a) \subseteq DOMAIN Recorded(a)
<1>1. Selected(a.policy) \subseteq Deployments
  BY DEF Selected
<1>2. QED
  BY <1>1, InfoFacts, NothingRecorded DEF Recorded, ToScale

\* Scaling one deployment to zero or to what it has been.
LEMMA ScaleFacts ==
  ASSUME scale \in Feeds(Scales), NEW d \in Deployments, NEW n \in {0, Replicas[d]}
  PROVE  /\ ScaleTo(d, n) \in Feeds(Scales)
         /\ Stored(ScaleTo(d, n)) = [Stored(scale) EXCEPT ![d] = n]
         /\ Stored(scale) \in Scales
<1>1. Stored(scale) \in Scales
  BY FeedEnds
<1>2. n \in Nat
  BY ReplicasAssumption
<1>3. [Stored(scale) EXCEPT ![d] = n] \in Scales
  BY <1>1, <1>2 DEF Scales
<1>4. QED
  BY <1>1, <1>3, PublishFeed DEF ScaleTo

-----------------------------------------------------------------------------
(* The invariant holds at first. *)

\* The first state has no secret, no pass and nothing asleep.
LEMMA Initially == Init => IInv
<1> SUFFICES ASSUME Init PROVE IInv
  OBVIOUS
<1>1. PICK targets \in TargetLists :
          policy = <<[exists |-> TRUE, targets |-> targets, suspend |-> "no",
                      deleting |-> FALSE, terminating |-> FALSE]>>
  BY DEF Init
<1>2. /\ secret = <<NoSecret>> /\ scale = <<Replicas>> /\ pass = Idle /\ hazards = {}
  BY DEF Init
<1>3. Replicas \in Scales
  BY ReplicasAssumption DEF Scales
<1>4. NoSecret \in Secrets
  BY NothingRecorded DEF NoSecret, Secrets
<1>5. policy[1] \in Policies /\ Len(policy) = 1
  BY <1>1 DEF Policies
<1>6. Types
  BY <1>1, <1>2, <1>3, <1>4, <1>5 DEF Types, Feeds, Idle
<1>7. Asleep = {}
  BY <1>2, <1>3, ReplicasAssumption DEF Asleep, Stored, Last
<1>8. ~Gone /\ ~Ends(policy[1])
  BY <1>1 DEF Gone, Stored, Last, Ends
<1>9. QED
  BY <1>2, <1>5, <1>6, <1>7, <1>8 DEF IInv, Recording, Tracking, Knowing,
     Ending, Idle

-----------------------------------------------------------------------------
(* Every step keeps the types. *)

\* Every write of the policy writes a policy.
LEMMA PolicyTyped ==
  ASSUME Types, Edit \/ WritePolicy \/ EndPass
  PROVE  policy' \in Feeds(Policies)
<1>1. Stored(policy) \in Policies /\ Cached(policy) \in Policies
  BY FeedEnds DEF Types
<1>2. CASE Edit
  <2>1. PICK p \in {[Stored(policy) EXCEPT !.targets = ts] : ts \in TargetLists}
                   \cup {[Stored(policy) EXCEPT !.suspend = "for"],
                         [Stored(policy) EXCEPT !.deleting = TRUE]} :
               policy' = Publish(policy, p)
    BY <1>2 DEF Edit
  <2>2. p \in Policies
    BY <1>1, <2>1 DEF Policies
  <2>3. QED
    BY <2>1, <2>2, PublishFeed DEF Types
<1>3. CASE WritePolicy
  <2>1. PICK p \in {[Cached(policy) EXCEPT !.terminating = TRUE],
                    [Cached(policy) EXCEPT !.suspend = "until"],
                    [Cached(policy) EXCEPT !.suspend = "no"]} :
               policy' = Publish(policy, p)
    BY <1>3 DEF WritePolicy
  <2>2. p \in Policies
    BY <1>1, <2>1 DEF Policies
  <2>3. QED
    BY <2>1, <2>2, PublishFeed DEF Types
<1>4. CASE EndPass
  <2>1. [Stored(policy) EXCEPT !.exists = FALSE] \in Policies
    BY <1>1 DEF Policies
  <2>2. QED
    BY <1>4, <2>1, PublishFeed DEF EndPass, Types
<1>5. QED
  BY <1>2, <1>3, <1>4

\* For a deployment that is woken up this takes Recording: its replicas are
\* in the record that the pass goes by.
LEMMA TypesKept ==
  ASSUME Types, Recording, [Next]_vars
  PROVE  Types'
<1> DEFINE Hazards == {"lag", "interrupted", "untargeted"}
<1> USE DEF Types
<1>1. CASE Edit \/ WritePolicy
  <2>1. UNCHANGED <<secret, scale, pass, hazards>>
    BY <1>1 DEF Edit, WritePolicy
  <2>2. QED
    BY <1>1, <2>1, PolicyTyped
<1>2. CASE FlipSchedule \/ Elapse \/ UNCHANGED vars
  BY <1>2 DEF FlipSchedule, Elapse, vars
<1>3. CASE DeliverPolicy \/ DeliverSecret \/ DeliverScale
  BY <1>3, DeliverFeed DEF DeliverPolicy, DeliverSecret, DeliverScale
<1>4. CASE Restart
  BY <1>4, RefreshFeed DEF Restart
<1>5. CASE BeginPass
  <2>1. /\ Cached(policy) \in Policies /\ Cached(secret) \in Secrets
        /\ Cached(scale) \in Scales
    BY FeedEnds
  <2>2. /\ Cached(secret).tracked \in Records
        /\ IgnoredToWake(Cached(policy), Cached(scale), Cached(secret).tracked)
               \subseteq Deployments
    BY <2>1 DEF Secrets, IgnoredToWake, Ignored
  <2>3. (Cached(policy).deleting \/ Cached(policy).suspend = "until" \/ scheduled)
            \in BOOLEAN
    OBVIOUS
  <2>4. pass' \in Passes
    BY <1>5, <2>1, <2>2, <2>3 DEF BeginPass, Passes
  <2>5. UNCHANGED <<policy, secret, scale>> /\ hazards' \subseteq Hazards
    BY <1>5 DEF BeginPass
  <2>6. QED
    BY <2>4, <2>5
<1>6. CASE WakeIgnored
  <2>1. pass \in Passes
    BY <1>6 DEF WakeIgnored, Idle
  <2>2. UNCHANGED <<policy, secret, hazards>>
    BY <1>6 DEF WakeIgnored
  <2>3. CASE pass' = Idle /\ UNCHANGED scale
    BY <2>2, <2>3
  <2>4. CASE ~(pass' = Idle /\ UNCHANGED scale)
    <3>1. PICK d \in pass.todo : /\ scale' = ScaleTo(d, pass.tracked[d])
                                 /\ pass' = [pass EXCEPT !.todo = @ \ {d}]
      BY <1>6, <2>4 DEF WakeIgnored
    <3>2. d \in Deployments /\ pass.tracked[d] \in {0, Replicas[d]}
      BY <1>6, <2>1, RecordFacts DEF WakeIgnored, Recording, Passes
    <3>3. scale' \in Feeds(Scales)
      BY <3>1, <3>2, ScaleFacts
    <3>4. pass' \in Passes
      BY <2>1, <3>1 DEF Passes
    <3>5. QED
      BY <2>2, <3>3, <3>4
  <2>5. QED
    BY <2>3, <2>4
<1>7. CASE WriteSecret
  <2>1. pass \in Passes
    BY <1>7 DEF WriteSecret, Idle
  <2>2. UNCHANGED <<policy, scale>> /\ hazards' \subseteq Hazards
    BY <1>7 DEF WriteSecret
  <2>3. [exists |-> TRUE, tracked |-> Recorded(pass)] \in Secrets
    BY <2>1, PassFacts DEF Secrets
  <2>4. [pass EXCEPT !.at = "scale", !.todo = ToScale(pass)] \in Passes
    BY <2>1, PassFacts DEF Passes
  <2>5. QED
    BY <1>7, <2>2, <2>3, <2>4, PublishFeed DEF WriteSecret
<1>8. CASE ScaleNext
  <2>1. pass \in Passes
    BY <1>8 DEF ScaleNext, Idle
  <2>2. UNCHANGED <<policy, secret>> /\ hazards' \subseteq Hazards
    BY <1>8 DEF ScaleNext
  <2>3. CASE pass' = Idle /\ UNCHANGED scale
    BY <2>2, <2>3
  <2>4. CASE ~(pass' = Idle /\ UNCHANGED scale)
    <3>1. PICK d \in pass.todo :
             /\ scale' = ScaleTo(d, IF pass.suspended THEN pass.tracked[d] ELSE 0)
             /\ pass' = [pass EXCEPT !.todo = @ \ {d}]
      BY <1>8, <2>4 DEF ScaleNext
    <3>2. d \in Deployments /\ (pass.suspended => pass.tracked[d] \in {0, Replicas[d]})
      BY <1>8, <2>1, RecordFacts DEF ScaleNext, Recording, Passes
    <3>3. scale' \in Feeds(Scales)
      BY <3>1, <3>2, ScaleFacts
    <3>4. pass' \in Passes
      BY <2>1, <3>1 DEF Passes
    <3>5. QED
      BY <2>2, <3>3, <3>4
  <2>5. QED
    BY <2>3, <2>4
<1>9. CASE EndPass
  BY <1>9, PolicyTyped DEF EndPass
<1>10. QED
  BY <1>1, <1>2, <1>3, <1>4, <1>5, <1>6, <1>7, <1>8, <1>9 DEF Next, Reconciling

-----------------------------------------------------------------------------
(* What is about to be scaled stays recorded. *)

\* A pass fixes what it will scale when it begins and when it writes the
\* secret, and nobody else writes the secret while it lasts.
LEMMA RecordingKept ==
  ASSUME Types, Recording, [Next]_vars
  PROVE  Recording'
<1>1. pass \in Passes \cup {Idle}
  BY DEF Types
<1>2. CASE pass' = Idle
  BY <1>2 DEF Recording, Idle
<1>3. CASE UNCHANGED <<pass, secret>>
  BY <1>3 DEF Recording
<1>4. CASE DeliverSecret
  <2>1. Stored(secret') = Stored(secret) /\ UNCHANGED pass
    BY <1>4, DeliverFeed DEF DeliverSecret, Types
  <2>2. QED
    BY <2>1 DEF Recording
<1>5. CASE BeginPass
  <2>1. /\ pass'.at = "ignored"
        /\ pass'.todo = IgnoredToWake(Cached(policy), Cached(scale), Cached(secret).tracked)
        /\ pass'.tracked = Cached(secret).tracked
    BY <1>5 DEF BeginPass
  <2>2. pass'.todo \subseteq DOMAIN pass'.tracked
    BY <2>1 DEF IgnoredToWake
  <2>3. QED
    BY <2>1, <2>2 DEF Recording
<1>6. CASE (WakeIgnored \/ ScaleNext) /\ pass' # Idle
  <2>1. pass \in Passes /\ UNCHANGED secret
    BY <1>1, <1>6 DEF WakeIgnored, ScaleNext, Idle
  <2>2. PICK d \in pass.todo : pass' = [pass EXCEPT !.todo = @ \ {d}]
    BY <1>6 DEF WakeIgnored, ScaleNext
  <2>3. /\ pass'.at = pass.at /\ pass'.suspended = pass.suspended
        /\ pass'.tracked = pass.tracked /\ pass'.todo \subseteq pass.todo
    BY <2>1, <2>2 DEF Passes
  <2>4. QED
    BY <2>1, <2>3 DEF Recording
<1>7. CASE WriteSecret /\ pass' # Idle
  <2>1. pass \in Passes
    BY <1>1, <1>7 DEF WriteSecret, Idle
  <2>2. /\ secret' = Publish(secret, [exists |-> TRUE, tracked |-> Recorded(pass)])
        /\ pass' = [pass EXCEPT !.at = "scale", !.todo = ToScale(pass)]
    BY <1>7 DEF WriteSecret
  <2>3. [exists |-> TRUE, tracked |-> Recorded(pass)] \in Secrets
    BY <2>1, PassFacts DEF Secrets
  <2>4. Stored(secret').tracked = Recorded(pass)
    BY <2>2, <2>3, PublishFeed DEF Types
  <2>5. /\ pass'.at = "scale" /\ pass'.todo = ToScale(pass)
        /\ pass'.suspended = pass.suspended /\ pass'.tracked = pass.tracked
    BY <2>1, <2>2 DEF Passes
  <2>6. pass.suspended \in BOOLEAN
    BY <2>1 DEF Passes
  <2>7. QED
    BY <2>1, <2>4, <2>5, <2>6, PassFacts DEF Recording
<1>8. QED
  BY <1>2, <1>3, <1>4, <1>5, <1>6, <1>7 DEF Next, Reconciling, vars, Edit, FlipSchedule,
     Elapse, Restart, DeliverPolicy, DeliverScale, WritePolicy, EndPass

-----------------------------------------------------------------------------
(* A policy that is about to end. *)

\* A write that only ever sets the two marks keeps the order of the feed.
LEMMA OrderKept ==
  ASSUME policy \in Feeds(Policies), Ending, NEW p \in Policies,
         Ends(Stored(policy)) => Ends(p)
  PROVE  \A i, j \in 1..Len(Publish(policy, p)) :
             i <= j /\ Ends(Publish(policy, p)[i]) => Ends(Publish(policy, p)[j])
<1> DEFINE next == Publish(policy, p)
<1>1. /\ Len(policy) \in Nat \ {0} /\ Stored(policy) = policy[Len(policy)]
      /\ Len(next) \in {Len(policy), Len(policy) + 1} /\ next[Len(next)] = p
      /\ \A i \in 1..Len(policy) : next[i] = policy[i]
  BY FeedEnds, PublishFeed
<1>2. \A i, j \in 1..Len(policy) : i <= j /\ Ends(policy[i]) => Ends(policy[j])
  BY DEF Ending
<1> HIDE DEF next
<1>3. \A i \in 1..Len(policy) : Ends(policy[i]) => Ends(p)
  BY <1>1, <1>2
<1>4. SUFFICES ASSUME NEW i \in 1..Len(next), NEW j \in 1..Len(next),
                      i <= j, Ends(next[i])
               PROVE  Ends(next[j])
  BY DEF next
<1>5. CASE j \in 1..Len(policy)
  BY <1>1, <1>2, <1>4, <1>5
<1>6. CASE j \notin 1..Len(policy)
  <2>1. j = Len(next)
    BY <1>1, <1>6
  <2>2. QED
    BY <1>1, <1>3, <1>4, <2>1
<1>7. QED
  BY <1>5, <1>6

\* PublishFeed for the policy.
LEMMA PolicyPublished ==
  ASSUME policy \in Feeds(Policies), NEW p \in Policies, policy' = Publish(policy, p)
  PROVE  Cached(policy') = Cached(policy) /\ Stored(policy') = p
BY PublishFeed

\* The policy of a pass of the finalizer cannot be edited any more.
LEMMA EndingKept ==
  ASSUME Types, Ending, [Next]_vars
  PROVE  Ending'
<1>1. /\ policy \in Feeds(Policies) /\ pass \in Passes \cup {Idle}
      /\ Stored(policy) \in Policies /\ Cached(policy) \in Policies
      /\ Cached(policy) = policy[1] /\ Stored(policy) = policy[Len(policy)]
      /\ Len(policy) \in Nat \ {0}
  BY FeedEnds DEF Types
<1>2. Ends(Cached(policy)) => Ends(Stored(policy))
  BY <1>1 DEF Ending
<1>3. CASE UNCHANGED <<policy, pass>>
  BY <1>3 DEF Ending, Gone
<1>4. CASE Edit
  <2>1. PICK p \in {[Stored(policy) EXCEPT !.targets = ts] : ts \in TargetLists}
                   \cup {[Stored(policy) EXCEPT !.suspend = "for"],
                         [Stored(policy) EXCEPT !.deleting = TRUE]} :
               policy' = Publish(policy, p)
    BY <1>4 DEF Edit
  <2>2. /\ Stored(policy).exists /\ ~Gone /\ ~Ends(Stored(policy)) /\ UNCHANGED pass
    BY <1>4 DEF Edit, Gone, Ends
  <2>3. p \in Policies /\ p.exists
    BY <1>1, <2>1, <2>2 DEF Policies
  <2>4. Cached(policy') = Cached(policy) /\ Stored(policy') = p
    BY <1>1, <2>1, <2>3, PolicyPublished
  <2>5. ~Gone'
    BY <2>3, <2>4 DEF Gone
  <2>6. \A i, j \in 1..Len(policy') : i <= j /\ Ends(policy'[i]) => Ends(policy'[j])
    BY <1>1, <2>1, <2>2, <2>3, OrderKept
  <2>7. QED
    BY <2>2, <2>4, <2>5, <2>6 DEF Ending
<1>5. CASE WritePolicy
  <2>1. PICK p \in {[Cached(policy) EXCEPT !.terminating = TRUE],
                    [Cached(policy) EXCEPT !.suspend = "until"],
                    [Cached(policy) EXCEPT !.suspend = "no"]} :
               policy' = Publish(policy, p)
    BY <1>5 DEF WritePolicy
  <2>2. /\ Cached(policy) = Stored(policy) /\ Cached(policy).exists
        /\ pass = Idle /\ UNCHANGED pass
    BY <1>5 DEF WritePolicy
  <2>3. p \in Policies /\ p.exists /\ (Ends(Stored(policy)) => Ends(p))
    BY <1>1, <2>1, <2>2 DEF Policies, Ends
  <2>4. Cached(policy') = Cached(policy) /\ Stored(policy') = p
    BY <1>1, <2>1, <2>3, PolicyPublished
  <2>5. ~Gone'
    BY <2>3, <2>4 DEF Gone
  <2>6. \A i, j \in 1..Len(policy') : i <= j /\ Ends(policy'[i]) => Ends(policy'[j])
    BY <1>1, <2>1, <2>3, OrderKept
  <2>7. QED
    BY <2>2, <2>4, <2>5, <2>6 DEF Ending
<1>6. CASE DeliverPolicy
  <2>1. /\ policy' = Tail(policy) /\ Len(policy) > 1 /\ UNCHANGED pass
    BY <1>6 DEF DeliverPolicy
  <2>2. /\ Stored(policy') = Stored(policy) /\ Cached(policy') = policy[2]
        /\ Len(policy') = Len(policy) - 1
        /\ \A i \in 1..Len(policy') : policy'[i] = policy[i + 1]
    BY <1>1, <2>1, DeliverFeed
  <2>3. Ends(Cached(policy)) => Ends(Cached(policy'))
    BY <1>1, <2>1, <2>2 DEF Ending
  <2>4. \A i, j \in 1..Len(policy') : i <= j /\ Ends(policy'[i]) => Ends(policy'[j])
    BY <1>1, <2>2 DEF Ending
  <2>5. QED
    BY <2>1, <2>2, <2>3, <2>4 DEF Ending, Gone
<1>7. CASE Restart
  <2>1. policy' = Refreshed(policy) /\ pass' = Idle
    BY <1>7 DEF Restart
  <2>2. QED
    BY <1>1, <1>2, <2>1, RefreshFeed DEF Ending, Gone
<1>8. CASE BeginPass
  <2>1. /\ pass'.policy = Cached(policy) /\ UNCHANGED policy /\ Cached(policy).exists
        /\ pass'.suspended = (Cached(policy).deleting
                              \/ Cached(policy).suspend = "until" \/ scheduled)
        /\ Cached(policy).deleting => Cached(policy).terminating
    BY <1>8 DEF BeginPass
  <2>2. QED
    BY <2>1 DEF Ending, Gone, Ends
<1>9. CASE (WakeIgnored \/ ScaleNext \/ WriteSecret)
  <2>1. pass \in Passes /\ UNCHANGED policy
    BY <1>1, <1>9 DEF WakeIgnored, ScaleNext, WriteSecret, Idle
  <2>2. CASE pass' = Idle
    BY <2>1, <2>2 DEF Ending, Gone
  <2>3. CASE pass' # Idle
    <3>1. pass'.policy = pass.policy /\ pass'.suspended = pass.suspended
      BY <1>9, <2>1, <2>3 DEF WakeIgnored, ScaleNext, WriteSecret, Passes
    <3>2. pass # Idle
      BY <1>9 DEF WakeIgnored, ScaleNext, WriteSecret, Idle
    <3>3. QED
      BY <2>1, <3>1, <3>2 DEF Ending, Gone
  <2>4. QED
    BY <2>2, <2>3
<1>10. CASE EndPass
  <2>1. pass' = Idle /\ pass # Idle
    BY <1>10 DEF EndPass, Idle
  <2>2. CASE pass.policy.deleting /\ pass.policy = Stored(policy)
    <3>1. policy' = Publish(policy, [Stored(policy) EXCEPT !.exists = FALSE])
      BY <1>10, <2>2 DEF EndPass
    <3>2. /\ [Stored(policy) EXCEPT !.exists = FALSE] \in Policies
          /\ Ends(Stored(policy)) => Ends([Stored(policy) EXCEPT !.exists = FALSE])
      BY <1>1 DEF Policies, Ends
    <3>3. Cached(policy') = Cached(policy)
      BY <1>1, <3>1, <3>2, PolicyPublished
    <3>4. Ends(Cached(policy))
      BY <2>1, <2>2 DEF Ending
    <3>5. \A i, j \in 1..Len(policy') : i <= j /\ Ends(policy'[i]) => Ends(policy'[j])
      BY <1>1, <3>1, <3>2, OrderKept
    <3>6. QED
      BY <2>1, <3>3, <3>4, <3>5 DEF Ending
  <2>3. CASE ~(pass.policy.deleting /\ pass.policy = Stored(policy))
    <3>1. UNCHANGED policy
      BY <1>10, <2>3 DEF EndPass
    <3>2. QED
      BY <2>1, <3>1 DEF Ending, Gone
  <2>4. QED
    BY <2>2, <2>3
<1>11. QED
  BY <1>3, <1>4, <1>5, <1>6, <1>7, <1>8, <1>9, <1>10 DEF Next, Reconciling, vars,
     FlipSchedule, Elapse, DeliverSecret, DeliverScale

-----------------------------------------------------------------------------
(* What sleeps stays known. *)

\* Edits and status writes are made to a policy that is there.
LEMMA PolicyStays ==
  ASSUME Types, Edit \/ WritePolicy
  PROVE  ~Gone'
<1>1. Stored(policy) \in Policies /\ policy \in Feeds(Policies)
  BY FeedEnds DEF Types
<1>2. PICK p : /\ p \in {[Stored(policy) EXCEPT !.targets = ts] : ts \in TargetLists}
                        \cup {[Stored(policy) EXCEPT !.suspend = "for"],
                              [Stored(policy) EXCEPT !.deleting = TRUE],
                              [Stored(policy) EXCEPT !.terminating = TRUE],
                              [Stored(policy) EXCEPT !.suspend = "until"],
                              [Stored(policy) EXCEPT !.suspend = "no"]}
               /\ policy' = Publish(policy, p) /\ Stored(policy).exists
  BY DEF Edit, WritePolicy, Gone
<1>3. p \in Policies /\ p.exists
  BY <1>1, <1>2 DEF Policies
<1>4. Stored(policy') = p
  BY <1>1, <1>2, <1>3, PolicyPublished
<1>5. QED
  BY <1>3, <1>4 DEF Gone

\* Before the secret is written all that sleeps is selected, tracked and
\* found asleep.
LEMMA SleepersSelected ==
  ASSUME Types, Knowing, pass.at = "ignored", pass.todo = {},
         HasTargets(pass.policy) \/ DOMAIN Stored(secret).tracked = {}
  PROVE  \A d \in Asleep : /\ d \in Selected(pass.policy)
                           /\ d \in DOMAIN pass.tracked /\ pass.found[d] = 0
<1>1. Waking = {}
  BY DEF Waking
<1>2. SUFFICES ASSUME NEW d \in Asleep
               PROVE  /\ d \in Selected(pass.policy)
                      /\ d \in DOMAIN pass.tracked /\ pass.found[d] = 0
  OBVIOUS
<1>3. d \in Deployments /\ d \in DOMAIN pass.tracked /\ pass.found[d] = 0
  BY <1>1, <1>2 DEF Knowing, Asleep
<1>4. HasTargets(pass.policy)
  BY <1>3 DEF Knowing
<1>5. d \notin Ignored(pass.policy)
  BY <1>2, <1>3, <1>4 DEF Knowing, IgnoredToWake
<1>6. QED
  BY <1>3, <1>4, <1>5 DEF Selected

\* Scaling a deployment changes what sleeps by that deployment.
LEMMA ScaledOne ==
  ASSUME Types, NEW d \in Deployments, NEW n \in {0, Replicas[d]}, scale' = ScaleTo(d, n)
  PROVE  Asleep' = IF n = 0 THEN Asleep \cup {d} ELSE Asleep \ {d}
<1>1. Stored(scale') = [Stored(scale) EXCEPT ![d] = n] /\ Stored(scale) \in Scales
  BY ScaleFacts DEF Types
<1>2. \A e \in Deployments : Stored(scale')[e] = IF e = d THEN n ELSE Stored(scale)[e]
  BY <1>1 DEF Scales
<1>3. Asleep' = {e \in Deployments : Stored(scale')[e] = 0}
  BY DEF Asleep
<1>4. QED
  BY <1>2, <1>3 DEF Asleep

\* By cases of the step: the secret is written between waking what is ignored
\* and scaling the rest, so that what sleeps is in the old secret before, in
\* the new one or in the hands of the pass after.
LEMMA TrackingKept ==
  ASSUME Types, Recording, Tracking, Ending, [Next]_vars
  PROVE  Tracking'
<1>1. SUFFICES ASSUME hazards' = {} PROVE Knowing'
  BY DEF Tracking
<1>2. hazards = {}
  BY <1>1 DEF Next, Reconciling, vars, Edit, FlipSchedule, Elapse, Restart, DeliverPolicy,
     DeliverSecret, DeliverScale, WritePolicy, BeginPass, WakeIgnored, WriteSecret,
     ScaleNext, EndPass
<1>3. Knowing
  BY <1>2 DEF Tracking
<1>4. pass \in Passes \cup {Idle}
  BY DEF Types
<1>5. CASE /\ Stored(scale') = Stored(scale) /\ Stored(secret') = Stored(secret)
           /\ UNCHANGED pass /\ (Gone' => Gone)
  <2>1. Asleep' = Asleep /\ Waking' = Waking
    BY <1>5 DEF Asleep, Waking
  <2>2. QED
    BY <1>3, <1>5, <2>1 DEF Knowing
<1>6. CASE /\ Stored(scale') = Stored(scale) /\ Stored(secret') = Stored(secret)
           /\ pass' = Idle /\ ~Unfinished /\ (Gone' => Gone)
  <2>1. Asleep' = Asleep /\ Waking' = {}
    BY <1>6 DEF Asleep, Waking, Idle
  <2>2. Asleep \subseteq DOMAIN Stored(secret).tracked
    BY <1>3, <1>6 DEF Knowing, Waking, Unfinished
  <2>3. QED
    BY <1>3, <1>6, <2>1, <2>2 DEF Knowing, Idle
<1>7. CASE Edit \/ WritePolicy
  BY <1>5, <1>7, PolicyStays DEF Edit, WritePolicy
<1>8. CASE FlipSchedule \/ Elapse \/ UNCHANGED vars
  BY <1>5, <1>8 DEF FlipSchedule, Elapse, vars, Gone
<1>9. CASE DeliverPolicy \/ DeliverSecret \/ DeliverScale
  BY <1>5, <1>9, DeliverFeed DEF DeliverPolicy, DeliverSecret, DeliverScale, Gone, Types
<1>10. CASE Restart
  BY <1>1, <1>6, <1>10, RefreshFeed DEF Restart, Gone, Types
<1>11. CASE BeginPass
  <2>1. /\ pass = Idle /\ UNCHANGED <<policy, secret, scale>>
        /\ Cached(secret) = Stored(secret) /\ Cached(scale) = Stored(scale)
    BY <1>1, <1>11 DEF BeginPass
  <2>2. /\ pass'.at = "ignored" /\ pass'.tracked = Stored(secret).tracked
        /\ pass'.found = Stored(scale)
        /\ pass'.todo = IgnoredToWake(pass'.policy, pass'.found, pass'.tracked)
    BY <1>11, <2>1 DEF BeginPass
  <2>3. Asleep' = Asleep /\ Waking' = {} /\ Waking = {} /\ (Gone' = Gone)
    BY <2>1, <2>2 DEF Asleep, Waking, Idle, Gone
  <2>4. \A d \in Asleep' : pass'.found[d] = 0
    BY <2>2, <2>3 DEF Asleep
  <2>5. QED
    BY <1>3, <2>1, <2>2, <2>3, <2>4 DEF Knowing
<1>12. CASE WakeIgnored
  <2>1. /\ pass \in Passes /\ pass.at = "ignored" /\ UNCHANGED <<policy, secret>>
        /\ ~Unfinished
    BY <1>4, <1>12 DEF WakeIgnored, Idle, Unfinished
  <2>2. CASE pass' = Idle /\ UNCHANGED scale
    BY <1>6, <2>1, <2>2 DEF Gone
  <2>3. CASE ~(pass' = Idle /\ UNCHANGED scale)
    <3>1. PICK d \in pass.todo : /\ scale' = ScaleTo(d, pass.tracked[d])
                                 /\ pass' = [pass EXCEPT !.todo = @ \ {d}]
      BY <1>12, <2>3 DEF WakeIgnored
    <3>2. /\ d \in Deployments /\ pass.tracked[d] = Replicas[d]
          /\ pass.tracked[d] \in Nat \ {0}
      BY <2>1, RecordFacts DEF Recording, Passes
    <3>3. Asleep' = Asleep \ {d}
      BY <3>1, <3>2, ScaledOne
    <3>4. /\ pass'.at = "ignored" /\ pass'.tracked = pass.tracked
          /\ pass'.found = pass.found /\ pass'.policy = pass.policy
          /\ pass'.todo = pass.todo \ {d}
      BY <2>1, <3>1 DEF Passes
    <3>5. Waking = {} /\ Waking' = {} /\ Gone' = Gone
      BY <2>1, <3>4 DEF Waking, Gone
    <3>6. QED
      BY <1>3, <2>1, <3>3, <3>4, <3>5 DEF Knowing
  <2>4. QED
    BY <2>2, <2>3
<1>13. CASE WriteSecret
  <2>1. /\ pass \in Passes /\ pass.at = "ignored" /\ pass.todo = {}
        /\ UNCHANGED <<policy, scale>> /\ ~Unfinished
    BY <1>4, <1>13 DEF WriteSecret, Idle, Unfinished
  <2>2. CASE pass' = Idle /\ UNCHANGED secret
    BY <1>6, <2>1, <2>2 DEF Gone
  <2>3. CASE ~(pass' = Idle /\ UNCHANGED secret)
    <3>1. /\ secret' = Publish(secret, [exists |-> TRUE, tracked |-> Recorded(pass)])
          /\ pass' = [pass EXCEPT !.at = "scale", !.todo = ToScale(pass)]
          /\ HasTargets(pass.policy) \/ DOMAIN Stored(secret).tracked = {}
      BY <1>1, <1>13, <2>3 DEF WriteSecret
    <3>2. Stored(secret').tracked = Recorded(pass)
      <4>1. [exists |-> TRUE, tracked |-> Recorded(pass)] \in Secrets
        BY <2>1, PassFacts DEF Secrets
      <4>2. QED
        BY <3>1, <4>1, PublishFeed DEF Types
    <3>3. /\ pass'.at = "scale" /\ pass'.todo = ToScale(pass)
          /\ pass'.suspended = pass.suspended /\ pass.suspended \in BOOLEAN
      BY <2>1, <3>1 DEF Passes
    <3>4. Asleep' = Asleep /\ Gone' = Gone
      BY <2>1 DEF Asleep, Gone
    <3>5. \A d \in Asleep : /\ d \in Selected(pass.policy)
                            /\ d \in DOMAIN pass.tracked /\ pass.found[d] = 0
      BY <1>3, <2>1, <3>1, SleepersSelected
    <3>6. CASE pass.suspended
      <4>1. Asleep \subseteq ToScale(pass)
        BY <3>5, <3>6 DEF ToScale
      <4>2. Waking' = ToScale(pass)
        BY <3>3, <3>6 DEF Waking
      <4>3. QED
        BY <1>3, <3>3, <3>4, <4>1, <4>2 DEF Knowing
    <3>7. CASE ~pass.suspended
      <4>1. Asleep \subseteq DOMAIN Recorded(pass)
        BY <2>1, <3>5, <3>7, InfoFacts DEF Recorded
      <4>2. QED
        BY <1>3, <3>2, <3>3, <3>4, <3>7, <4>1 DEF Knowing
    <3>8. QED
      BY <3>6, <3>7
  <2>4. QED
    BY <2>2, <2>3
<1>14. CASE ScaleNext
  <2>1. /\ pass \in Passes /\ pass.at = "scale" /\ pass.todo # {}
        /\ UNCHANGED <<policy, secret>>
    BY <1>4, <1>14 DEF ScaleNext, Idle
  <2>2. CASE pass' = Idle /\ UNCHANGED scale
    <3>1. ~Unfinished
      BY <1>1, <1>14, <2>1, <2>2 DEF ScaleNext, Idle, Passes
    <3>2. QED
      BY <1>6, <2>1, <2>2, <3>1 DEF Gone
  <2>3. CASE ~(pass' = Idle /\ UNCHANGED scale)
    <3>1. PICK d \in pass.todo :
             /\ scale' = ScaleTo(d, IF pass.suspended THEN pass.tracked[d] ELSE 0)
             /\ pass' = [pass EXCEPT !.todo = @ \ {d}]
      BY <1>14, <2>3 DEF ScaleNext
    <3>2. /\ pass'.at = "scale" /\ pass'.suspended = pass.suspended
          /\ pass'.todo = pass.todo \ {d} /\ d \in Deployments
      BY <2>1, <3>1 DEF Passes
    <3>3. Gone' = Gone
      BY <2>1 DEF Gone
    <3>4. CASE pass.suspended
      <4>1. pass.tracked[d] = Replicas[d] /\ pass.tracked[d] \in Nat \ {0}
        BY <2>1, <3>4, RecordFacts DEF Recording, Passes
      <4>2. Asleep' = Asleep \ {d}
        BY <3>1, <3>2, <3>4, <4>1, ScaledOne
      <4>3. Waking' = pass.todo \ {d}
        BY <3>2, <3>4 DEF Waking
      <4>4. QED
        BY <1>3, <2>1, <3>2, <3>3, <3>4, <4>2, <4>3 DEF Knowing
    <3>5. CASE ~pass.suspended
      <4>1. Asleep' = Asleep \cup {d}
        BY <3>1, <3>2, <3>5, ScaledOne
      <4>2. Waking' = {} /\ Waking = {}
        BY <3>2, <3>5 DEF Waking
      <4>3. d \in DOMAIN Stored(secret).tracked
        BY <2>1, <3>5 DEF Recording
      <4>4. ~Gone
        BY <2>1, <3>5 DEF Ending, Idle
      <4>5. QED
        BY <1>3, <2>1, <3>2, <3>3, <3>5, <4>1, <4>2, <4>3, <4>4 DEF Knowing
    <3>6. QED
      BY <3>4, <3>5
  <2>4. QED
    BY <2>2, <2>3
<1>15. CASE EndPass
  <2>1. /\ pass \in Passes /\ pass.at = "scale" /\ pass.todo = {} /\ pass' = Idle
        /\ UNCHANGED <<secret, scale>> /\ ~Unfinished /\ pass # Idle
    BY <1>4, <1>15 DEF EndPass, Idle, Unfinished
  <2>2. CASE pass.policy.deleting
    <3>1. Asleep = {}
      BY <1>3, <2>1, <2>2 DEF Knowing, Ending
    <3>2. Asleep' = {}
      BY <2>1, <3>1 DEF Asleep
    <3>3. QED
      BY <2>1, <3>2 DEF Knowing, Idle
  <2>3. CASE ~pass.policy.deleting
    BY <1>6, <1>15, <2>1, <2>3 DEF EndPass, Gone
  <2>4. QED
    BY <2>2, <2>3
<1>16. QED
  BY <1>7, <1>8, <1>9, <1>10, <1>11, <1>12, <1>13, <1>14, <1>15 DEF Next, Reconciling

-----------------------------------------------------------------------------
(* The theorems. *)

\* The invariant holds in every state.
LEMMA Invariance == Spec => []IInv
<1>1. IInv /\ [Next]_vars => IInv'
  BY TypesKept, RecordingKept, EndingKept, TrackingKept DEF IInv
<1>2. QED
  BY Initially, <1>1, PTL DEF Spec

\* What the invariant says in the words of the properties.
LEMMA InvariantMeans ==
  ASSUME IInv
  PROVE  TypeOK /\ AsleepIsTracked /\ GoneMeansAwake
<1>1. /\ Stored(policy) \in Policies /\ Stored(secret) \in Secrets
      /\ Stored(scale) \in Scales
  BY FeedEnds DEF IInv, Types
<1>2. Stored(secret).tracked \in Records
  BY <1>1 DEF Secrets
<1>3. TypeOK
  <2>1. Stored(policy).suspend \in {"no", "for", "until"}
    BY <1>1 DEF Policies
  <2>2. Stored(scale) \in [Deployments -> Nat]
    BY <1>1 DEF Scales
  <2>3. pass.at \in {"idle", "ignored", "scale"}
    BY DEF IInv, Types, Passes, Idle
  <2>4. QED
    BY <1>2, <2>1, <2>2, <2>3, RecordFacts DEF TypeOK, IInv, Types
<1>4. AsleepIsTracked
  BY <1>2, RecordFacts DEF AsleepIsTracked, IInv, Tracking, Knowing
<1>5. GoneMeansAwake
  BY DEF GoneMeansAwake, IInv, Tracking, Knowing
<1>6. QED
  BY <1>3, <1>4, <1>5

\* A deployment is put to sleep by Sleep only, of what the pass has recorded.
LEMMA SleepsRecorded ==
  ASSUME IInv, [Next]_vars, NEW d \in Deployments,
         Stored(scale)[d] # 0, Stored(scale')[d] = 0
  PROVE  /\ d \in DOMAIN Stored(secret).tracked
         /\ Stored(secret).tracked[d] = Replicas[d]
<1>1. scale \in Feeds(Scales) /\ pass \in Passes \cup {Idle} /\ Types
  BY DEF IInv, Types
<1>2. Stored(secret).tracked \in Records
  <2>1. Stored(secret) \in Secrets
    BY <1>1, FeedEnds DEF Types
  <2>2. QED
    BY <2>1 DEF Secrets
<1>3. Stored(scale') # Stored(scale)
  OBVIOUS
<1>4. WakeIgnored \/ ScaleNext
  <2>1. CASE DeliverScale
    BY <1>1, <1>3, <2>1, DeliverFeed DEF DeliverScale
  <2>2. CASE Restart
    BY <1>1, <1>3, <2>2, RefreshFeed DEF Restart
  <2>3. QED
    BY <1>3, <2>1, <2>2 DEF Next, Reconciling, vars, Edit, FlipSchedule, Elapse,
       DeliverPolicy, DeliverSecret, WritePolicy, BeginPass, WriteSecret, EndPass
<1>5. pass \in Passes
  BY <1>1, <1>4 DEF WakeIgnored, ScaleNext, Idle
<1>6. PICK e \in pass.todo :
         scale' = ScaleTo(e, IF WakeIgnored \/ pass.suspended THEN pass.tracked[e] ELSE 0)
  BY <1>3, <1>4 DEF WakeIgnored, ScaleNext
<1>7. e \in Deployments
  BY <1>5, <1>6 DEF Passes
<1>8. CASE WakeIgnored \/ pass.suspended
  <2>1. pass.tracked[e] = Replicas[e] /\ pass.tracked[e] \in Nat \ {0}
    BY <1>4, <1>5, <1>6, <1>8, RecordFacts
       DEF IInv, Recording, WakeIgnored, ScaleNext, Passes
  <2>2. Asleep' = Asleep \ {e}
    BY <1>1, <1>6, <1>7, <1>8, <2>1, ScaledOne
  <2>3. QED
    BY <2>2 DEF Asleep
<1>9. CASE ~WakeIgnored /\ ~pass.suspended
  <2>1. Asleep' = Asleep \cup {e}
    BY <1>1, <1>6, <1>7, <1>9, ScaledOne
  <2>2. d = e
    BY <2>1 DEF Asleep
  <2>3. d \in DOMAIN Stored(secret).tracked
    BY <1>4, <1>5, <1>6, <1>9, <2>2 DEF IInv, Recording, ScaleNext
  <2>4. QED
    BY <1>2, <2>3, RecordFacts
<1>10. QED
  BY <1>8, <1>9

\* The variables of the controller have their types, and nothing is tracked
\* with no replicas.
THEOREM SavingsTypeCorrect == Spec => []TypeOK
BY Invariance, InvariantMeans, PTL

\* A deployment that is asleep can be woken up, until a pass reads lagging
\* caches, is interrupted before a wake-up, or finds no target of the kind.
THEOREM SleepersAreTracked == Spec => []AsleepIsTracked
BY Invariance, InvariantMeans, PTL

\* Under the same conditions a policy that is gone leaves nothing asleep.
THEOREM PolicyLeavesNothingAsleep == Spec => []GoneMeansAwake
BY Invariance, InvariantMeans, PTL

\* Whatever happens, lagging caches, restarts and failing calls included, a
\* deployment is put to sleep only after its replicas were stored.
THEOREM SleepIsRecorded == Spec => RecordedBeforeSleep
<1> DEFINE StoredFirst ==
      \A d \in Deployments :
          Stored(scale)[d] # 0 /\ Stored(scale')[d] = 0 =>
              /\ d \in DOMAIN Stored(secret).tracked
              /\ Stored(secret).tracked[d] = Replicas[d]
<1>1. IInv /\ [Next]_vars => [StoredFirst]_vars
  BY SleepsRecorded
<1>2. QED
  BY <1>1, Invariance, PTL DEF Spec, RecordedBeforeSleep

-----------------------------------------------------------------------------
(* The schedule. *)

\* The clock shows a time of a day of the month.
Clock ==
    /\ patterns \in PatternLists
    /\ month \in Months
    /\ day \in 1..month.this
    /\ weekday \in 0..6
    /\ slot \in 0..(SlotsPerDay - 1)

\* A pattern that can be parsed.
Parsed(p) ==
    /\ p.from \in 0..6 /\ p.to \in 0..6
    /\ p.start \in 0..(SlotsPerDay - 1) /\ p.end \in 0..(SlotsPerDay - 1)
    /\ p.zone.january \in (-SlotsPerDay)..SlotsPerDay

-----------------------------------------------------------------------------
(* Arithmetic of days. *)

\* A time that is k days and r slots off is that after dividing by a day.
LEMMA Days ==
  ASSUME NEW S \in Nat \ {0}, NEW k \in {-1, 0, 1}, NEW r \in 0..(S - 1), NEW x \in Int,
         x = k * S + r
  PROVE  x \div S = k /\ x % S = r
<1>1. CASE k = 0
  BY <1>1
<1>2. CASE k = 1
  BY <1>2
<1>3. CASE k = -1
  BY <1>3
<1>4. QED
  BY <1>1, <1>2, <1>3

\* Times less than a day before and after today are of three days.
LEMMA ThreeDays ==
  ASSUME NEW S \in Nat \ {0}, NEW x \in (-S)..(2 * S - 1)
  PROVE  /\ \E q \in {-1, 0, 1}, r \in 0..(S - 1) :
                x = q * S + r /\ x \div S = q /\ x % S = r
         /\ \A k \in Int : x - k * S \in 0..(S - 1) => k \in {-1, 0, 1}
<1>1. PICK q \in {-1, 0, 1} : x - q * S \in 0..(S - 1)
  <2>1. CASE x < 0
    BY <2>1
  <2>2. CASE x \in 0..(S - 1)
    BY <2>2
  <2>3. CASE x >= S
    BY <2>3
  <2>4. QED
    BY <2>1, <2>2, <2>3
<1>2. PICK r \in 0..(S - 1) : x = q * S + r
  BY <1>1
<1>3. x \div S = q /\ x % S = r
  BY <1>2, Days
<1>4. ASSUME NEW k \in Int, x - k * S \in 0..(S - 1) PROVE k \in {-1, 0, 1}
  <2>1. CASE k >= 2
    <3>1. k * S >= 2 * S
      BY <2>1
    <3>2. QED
      BY <1>4, <3>1
  <2>2. CASE k <= -2
    <3>1. k * S <= (-2) * S
      BY <2>2
    <3>2. QED
      BY <1>4, <3>1
  <2>3. QED
    BY <1>4, <2>1, <2>2
<1>5. QED
  BY <1>2, <1>3, <1>4

\* Weekdays counted from f on: there are as many of them up to t as t is after
\* f, and each weekday comes once in a week.
LEMMA Circle ==
  ASSUME NEW f \in 0..6, NEW t \in 0..6
  PROVE  /\ \E k \in 0..6 : (t - f) % 7 = k /\ (f + k) % 7 = t
         /\ ((t - f) % 7) + 1 = IF t >= f THEN t - f + 1 ELSE 8 - (f - t)
<1>1. CASE t >= f
  <2>1. (t - f) % 7 = t - f
    BY <1>1
  <2>2. t - f \in 0..6 /\ (f + (t - f)) % 7 = t
    BY <1>1
  <2>3. QED
    BY <1>1, <2>1, <2>2
<1>2. CASE t < f
  <2>1. (t - f) % 7 = t - f + 7
    BY <1>2
  <2>2. t - f + 7 \in 0..6 /\ (f + (t - f + 7)) % 7 = t
    BY <1>2
  <2>3. QED
    BY <1>2, <2>1, <2>2
<1>3. QED
  BY <1>1, <1>2

LEMMA Circling ==
  ASSUME NEW f \in 0..6, NEW k \in 0..6
  PROVE  (f + k) % 7 \in 0..6 /\ (((f + k) % 7) - f) % 7 = k
<1>1. CASE f + k < 7
  <2>1. (f + k) % 7 = f + k
    BY <1>1
  <2>2. QED
    BY <1>1, <2>1
<1>2. CASE f + k >= 7
  <2>1. (f + k) % 7 = f + k - 7
    BY <1>2
  <2>2. QED
    BY <1>2, <2>1
<1>3. QED
  BY <1>1, <1>2

\* The weekdays that the iterator visits are those of the range, counted from
\* its first one on, past Sunday or not.
LEMMA WeekdaysOfRange ==
  ASSUME NEW p, Parsed(p)
  PROVE  Weekdays(p) = {wd \in 0..6 : (wd - p.from) % 7 <= (p.to - p.from) % 7}
<1> DEFINE f == p.from
           n == (p.to - p.from) % 7
<1>1. /\ f \in 0..6 /\ p.to \in 0..6
  BY DEF Parsed
<1>2. n \in 0..6 /\ NumberOfDays(p) = n + 1
  BY <1>1, Circle DEF NumberOfDays
<1> HIDE DEF f, n
<1>3. Weekdays(p) = {i % 7 : i \in f..(f + (n + 1) - 1)}
  BY <1>2 DEF Weekdays, f
<1>4. ASSUME NEW i \in f..(f + (n + 1) - 1)
      PROVE  i % 7 \in 0..6 /\ ((i % 7) - f) % 7 <= n
  <2>1. PICK k \in 0..n : i = f + k
    <3>1. i - f \in 0..n /\ i = f + (i - f)
      BY <1>1, <1>2, <1>4
    <3>2. QED
      BY <3>1
  <2>2. k \in 0..6
    BY <1>2, <2>1
  <2>3. QED
    BY <1>1, <1>2, <2>1, <2>2, Circling
<1>5. ASSUME NEW wd \in 0..6, (wd - f) % 7 <= n
      PROVE  \E i \in f..(f + (n + 1) - 1) : wd = i % 7
  <2>1. PICK k \in 0..6 : (wd - f) % 7 = k /\ (f + k) % 7 = wd
    BY <1>1, Circle
  <2>2. f + k \in f..(f + (n + 1) - 1)
    BY <1>1, <1>2, <1>5, <2>1
  <2>3. QED
    BY <2>1, <2>2
<1>6. QED
  BY <1>3, <1>4, <1>5 DEF f, n

-----------------------------------------------------------------------------
(* The clock. *)

LEMMA ClockFacts ==
  ASSUME Clock
  PROVE  /\ SlotsPerDay \in Nat \ {0}
         /\ month.this \in 28..31 /\ month.before \in 28..31
         /\ day \in 1..month.this /\ weekday \in 0..6 /\ slot \in 0..(SlotsPerDay - 1)
         /\ \A p \in patterns : Parsed(p)
BY SlotsAssumption, PatternsAssumption, MonthsAssumption DEF Clock, Parsed

LEMMA ClockRuns == ScheduleSpec => []Clock
<1>1. MonthBegins => Clock
  BY SlotsAssumption, MonthsAssumption DEF MonthBegins, Clock
<1>2. Clock /\ [Tick]_clock => Clock'
  <2> SUFFICES ASSUME Clock, [Tick]_clock PROVE Clock'
    OBVIOUS
  <2>1. CASE Tick
    <3>1. slot' \in 0..(SlotsPerDay - 1)
      <4>1. CASE slot + 1 < SlotsPerDay
        BY <2>1, <4>1, ClockFacts DEF Tick
      <4>2. CASE slot + 1 = SlotsPerDay
        <5>1. SlotsPerDay \in Nat \ {0} /\ slot + 1 \in Int
          BY ClockFacts
        <5>2. (slot + 1) % SlotsPerDay = 0
          BY <4>2, <5>1, Days, slot + 1 = 1 * SlotsPerDay + 0
        <5>3. QED
          BY <2>1, <5>1, <5>2 DEF Tick
      <4>3. QED
        BY <4>1, <4>2, ClockFacts
    <3>2. day' \in 1..month.this /\ weekday' \in 0..6
      BY <2>1, ClockFacts DEF Tick
    <3>3. QED
      BY <2>1, <3>1, <3>2 DEF Tick, Clock
  <2>2. CASE UNCHANGED clock
    BY <2>2 DEF clock, Clock
  <2>3. QED
    BY <2>1, <2>2
<1>3. QED
  BY <1>1, <1>2, PTL DEF ScheduleSpec

\* The moments that are compared differ by the days between the weekday and
\* today, which are less than a week, or else most of a month.
LEMMA DaysBetween ==
  ASSUME Clock, NEW wd \in 0..6
  PROVE  /\ DayOfWeekday(wd) \in Int /\ DayOfWeekday(weekday) = day
         /\ DayOfWeekday(wd) - day \in {-1, 0, 1} =>
                DayOfWeekday(wd) - day = wd - weekday
         /\ day + (wd - weekday) \in 1..month.this =>
                DayOfWeekday(wd) - day = wd - weekday
<1> DEFINE T == month.this
           B == month.before
<1>1. T \in 28..31 /\ B \in 28..31 /\ day \in 1..T /\ weekday \in 0..6
  BY ClockFacts
<1>2. \A w \in 0..6 : DayOfWeekday(w) = IF day + (w - weekday) < 1 THEN day + (w - weekday) + B
                              ELSE IF day + (w - weekday) > T THEN day + (w - weekday) - T
                              ELSE day + (w - weekday)
  BY <1>1 DEF DayOfWeekday
<1> HIDE DEF T, B
<1>3. DayOfWeekday(weekday) = day
  BY <1>1, <1>2
<1>4. /\ DayOfWeekday(wd) \in Int
      /\ DayOfWeekday(wd) - day \in {-1, 0, 1} => DayOfWeekday(wd) - day = wd - weekday
      /\ day + (wd - weekday) \in 1..T => DayOfWeekday(wd) - day = wd - weekday
  BY <1>1, <1>2
<1>5. QED
  BY <1>3, <1>4 DEF T

\* What checkSchedule compares, without its month.
LEMMA Compared ==
  ASSUME Clock, NEW p \in patterns, NEW wd \in 0..6
  PROVE  InRange(Moment(weekday, slot, 0), Moment(wd, p.start, p.zone.january),
                 Moment(wd, p.end, p.zone.january))
         <=> LET k == DayOfWeekday(wd) - day
             IN  Local(p.zone.january) - k * SlotsPerDay \in p.start..p.end
<1> DEFINE D == DayOfWeekday(wd)
           S == SlotsPerDay
           off == p.zone.january
<1>1. /\ S \in Nat \ {0} /\ day \in Int /\ D \in Int /\ slot \in Int
      /\ off \in Int /\ p.start \in Int /\ p.end \in Int
  BY ClockFacts, DaysBetween DEF Parsed
<1>2. /\ Moment(weekday, slot, 0) = day * S + slot - 0
      /\ Moment(wd, p.start, off) = D * S + p.start - off
      /\ Moment(wd, p.end, off) = D * S + p.end - off
  BY DaysBetween DEF Moment
<1>3. Local(off) = slot + off
  BY DEF Local
<1> HIDE DEF D, S, off
<1>4. (D - day) * S = D * S - day * S /\ D * S \in Int /\ day * S \in Int
  BY <1>1
<1>5. InRange(Moment(weekday, slot, 0), Moment(wd, p.start, off), Moment(wd, p.end, off))
          <=> Local(off) - (D - day) * S \in p.start..p.end
  BY <1>1, <1>2, <1>3, <1>4 DEF InRange
<1>6. QED
  BY <1>5, Zenon DEF D, S, off

\* What a pattern says, by the day of the zone: k days from UTC's, at r.
LEMMA Saying ==
  ASSUME Clock, NEW p \in patterns, NEW k \in {-1, 0, 1}, NEW r \in 0..(SlotsPerDay - 1),
         Local(p.zone.january) = k * SlotsPerDay + r
  PROVE  /\ DaysLater(p.zone.january) = k
         /\ Says(p, p.zone.january) <=>
                (weekday + k) % 7 \in Weekdays(p) /\ r \in p.start..p.end
<1> DEFINE off == p.zone.january
<1>1. Parsed(p) /\ SlotsPerDay \in Nat \ {0} /\ weekday \in 0..6 /\ weekday + k \in Int
  BY ClockFacts
<1>2. Local(off) \in Int
  BY <1>1
<1>3. Local(off) \div SlotsPerDay = k /\ Local(off) % SlotsPerDay = r
  BY <1>1, <1>2, Days
<1> HIDE DEF off
<1>4. DaysLater(off) = k /\ LocalWeekday(off) = (weekday + k) % 7
  BY <1>3 DEF DaysLater, LocalWeekday
<1>5. (weekday + k) % 7 \in 0..6
  BY <1>1
<1>6. (weekday + k) % 7 \in Weekdays(p) <=>
          (LocalWeekday(off) - p.from) % 7 <= (p.to - p.from) % 7
  BY <1>1, <1>4, <1>5, WeekdaysOfRange
<1>7. InRange(Local(off) % SlotsPerDay, p.start, p.end) <=> r \in p.start..p.end
  BY <1>1, <1>3 DEF InRange, Parsed
<1>8. QED
  BY <1>4, <1>6, <1>7 DEF Says, off

\* The time in a zone is of yesterday, today or tomorrow.
LEMMA LocalTime ==
  ASSUME Clock, NEW p \in patterns
  PROVE  /\ Local(p.zone.january) \in Int
         /\ \E k \in {-1, 0, 1}, r \in 0..(SlotsPerDay - 1) :
                Local(p.zone.january) = k * SlotsPerDay + r
         /\ \A k \in Int : Local(p.zone.january) - k * SlotsPerDay \in 0..(SlotsPerDay - 1) =>
                k \in {-1, 0, 1}
<1>1. /\ SlotsPerDay \in Nat \ {0} /\ slot \in 0..(SlotsPerDay - 1)
      /\ p.zone.january \in (-SlotsPerDay)..SlotsPerDay
  BY ClockFacts DEF Parsed
<1>2. Local(p.zone.january) \in (-SlotsPerDay)..(2 * SlotsPerDay - 1)
  BY <1>1 DEF Local
<1> DEFINE x == Local(p.zone.january)
<1> HIDE DEF x
<1>3. x \in (-SlotsPerDay)..(2 * SlotsPerDay - 1)
  BY <1>2 DEF x
<1>4. x \in Int
  BY <1>1, <1>3
<1>5. \E k \in {-1, 0, 1}, r \in 0..(SlotsPerDay - 1) : x = k * SlotsPerDay + r
  <2>1. \E k \in {-1, 0, 1}, r \in 0..(SlotsPerDay - 1) :
            x = k * SlotsPerDay + r /\ x \div SlotsPerDay = k /\ x % SlotsPerDay = r
    BY <1>1, <1>3, ThreeDays, Zenon
  <2>2. QED
    BY <2>1, Zenon
<1>6. \A k \in Int : x - k * SlotsPerDay \in 0..(SlotsPerDay - 1) => k \in {-1, 0, 1}
  BY <1>1, <1>3, ThreeDays, Zenon
<1>7. QED
  BY <1>4, <1>5, <1>6 DEF x

-----------------------------------------------------------------------------
(* The theorems. *)

\* A policy is only ever suspended when one of its patterns says so: a moment
\* in the range of a weekday is less than two days away, so that the weekday
\* and the day of the month are the zone's.
THEOREM SuspensionHasAReason == ScheduleSpec => []SuspendedForAReason
<1>1. Clock => SuspendedForAReason
  <2> SUFFICES ASSUME Clock, NEW p \in patterns, MatchesPattern(p)
               PROVE  Says(p, p.zone.january)
    BY DEF SuspendedForAReason, Suspended
  <2> DEFINE off == p.zone.january
  <2>1. PICK wd \in Weekdays(p) :
            InRange(Moment(weekday, slot, 0), Moment(wd, p.start, off), Moment(wd, p.end, off))
    BY DEF MatchesPattern
  <2>2. Parsed(p) /\ SlotsPerDay \in Nat \ {0} /\ weekday \in 0..6
    BY ClockFacts
  <2>3. wd \in 0..6
    BY <2>2, WeekdaysOfRange
  <2> DEFINE k == DayOfWeekday(wd) - day
             r == Local(off) - k * SlotsPerDay
  <2>4. r \in p.start..p.end
    BY <2>1, <2>3, Compared
  <2>5. k \in Int /\ Local(off) \in Int
    BY <2>3, DaysBetween, LocalTime, ClockFacts
  <2>6. r \in 0..(SlotsPerDay - 1)
    BY <2>2, <2>4, <2>5 DEF Parsed
  <2>7. k \in {-1, 0, 1}
    BY <2>5, <2>6, LocalTime
  <2>8. k = wd - weekday
    BY <2>3, <2>7, DaysBetween
  <2> HIDE DEF k
  <2>9. Local(off) = k * SlotsPerDay + r
    BY <2>2, <2>5
  <2>10. (weekday + k) % 7 = wd
    BY <2>2, <2>3, <2>8
  <2> HIDE DEF r
  <2>11. QED
    BY <2>4, <2>6, <2>7, <2>9, <2>10, Saying
<1>2. QED
  BY <1>1, ClockRuns, PTL

\* Within a week and a month it is suspended whenever one says so.
THEOREM PatternsAreFollowed == ScheduleSpec => []FollowsThePatterns
<1>1. Clock /\ SuspendedForAReason => FollowsThePatterns
  <2> SUFFICES ASSUME Clock,
                      \A p \in patterns : SameWeek(p.zone.january) /\ SameMonth(p.zone.january),
                      NEW p \in patterns, Says(p, p.zone.january)
               PROVE  MatchesPattern(p)
    BY DEF FollowsThePatterns, SuspendedForAReason, Suspended
  <2> DEFINE off == p.zone.january
  <2>1. PICK k \in {-1, 0, 1}, r \in 0..(SlotsPerDay - 1) : Local(off) = k * SlotsPerDay + r
    BY LocalTime
  <2>2. /\ DaysLater(off) = k /\ (weekday + k) % 7 \in Weekdays(p) /\ r \in p.start..p.end
    BY <2>1, Saying
  <2>3. weekday + k \in 0..6 /\ day + k \in 1..month.this
    BY <2>2 DEF SameWeek, SameMonth, LocalDay
  <2>4. weekday \in 0..6 /\ SlotsPerDay \in Nat \ {0} /\ day \in Int
    BY ClockFacts
  <2> DEFINE wd == weekday + k
  <2>5. wd \in 0..6 /\ wd \in Weekdays(p) /\ wd - weekday = k
    BY <2>2, <2>3, <2>4
  <2> HIDE DEF wd, off
  <2>6. DayOfWeekday(wd) - day = k
    BY <2>3, <2>5, DaysBetween
  <2>7. Local(off) - (DayOfWeekday(wd) - day) * SlotsPerDay \in p.start..p.end
    <3>1. Local(off) - k * SlotsPerDay = r
      BY <2>1, <2>4
    <3>2. QED
      BY <2>2, <2>6, <3>1
  <2>8. InRange(Moment(weekday, slot, 0), Moment(wd, p.start, off), Moment(wd, p.end, off))
    BY <2>5, <2>7, Compared DEF off
  <2>9. QED
    BY <2>5, <2>8 DEF MatchesPattern, off
<1>2. QED
  BY <1>1, SuspensionHasAReason, ClockRuns, PTL
=============================================================================
