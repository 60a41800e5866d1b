---------------------------- MODULE SavingsPolicy ----------------------------
(***************************************************************************)
(* The SavingsPolicy controller: it scales the deployments of a namespace  *)
(* to zero while the policy is active and remembers their replicas in a    *)
(* secret, from which it wakes them up while the policy is suspended, when *)
(* they are ignored, and before the policy is deleted.                     *)
(*                                                                         *)
(* The policy, the secret and the deployments are read through caches that *)
(* are independent of each other.  The durations that the secret and the   *)
(* status report are left out.                                             *)
(***************************************************************************)
EXTENDS InformerCache, FiniteSets

CONSTANTS
    Deployments,  \* the deployments of the namespace
    Replicas,     \* what their replicas are when the policy is made
    TargetLists,  \* the target lists a policy can have
    MaxChanges,   \* bound: edits of the policy, changes of the schedule
    MaxFaults     \* bound: failed API calls, restarts, reads of old caches

ASSUME ReplicasAssumption == Replicas \in [Deployments -> Nat \ {0}]

VARIABLES
    policy,     \* feed of the policy
    secret,     \* feed of the secret: the replicas it tracks
    scale,      \* feed of the deployments: their replicas
    scheduled,  \* does a pattern suspend the policy at present?
    elapsed,    \* is the time in suspend-until over?
    pass,       \* the pass of the controller
    hazards,    \* history: what has come between a pass and its data
    changes,    \* how often something was changed from outside
    faults      \* how many faults there were

vars == <<policy, secret, scale, scheduled, elapsed, pass, hazards, changes, faults>>

-----------------------------------------------------------------------------
\* A target of the kind Deployment names one deployment or all of them, and
\* can say that they are to be ignored; targets of other kinds do nothing.
AnyName == "any"
Matches(t, d) == t.name \in {AnyName, d}

\* hasDeploymentTargets and ignoreDeploymentTarget.
HasTargets(p) == p.targets # {}
Ignored(p) == {d \in Deployments : \E t \in p.targets : Matches(t, d) /\ t.ignore}

\* NewDeploymentResource: of all the deployments, those not ignored.
Selected(p) == IF HasTargets(p) THEN Deployments \ Ignored(p) ELSE {}

\* What the secret is to track, DeploymentResource.Info: the replicas found
\* in it before, else those of the deployment, and none of zero.
\* CurrentInfo: what was tracked before is not looked at.  ZeroInfo: a zero
\* is tracked, too.
CurrentInfo(found, selected, tracked) ==
    [d \in {e \in selected : found[e] # 0} |-> found[d]]
ZeroInfo(found, selected, tracked) ==
    [d \in selected |-> IF d \in DOMAIN tracked THEN tracked[d] ELSE found[d]]
Info(found, selected, tracked) ==
    LET Original(d) == IF d \in DOMAIN tracked THEN tracked[d] ELSE found[d]
    IN  [d \in {e \in selected : Original(e) # 0} |-> Original(d)]

Idle == [at |-> "idle"]
NoSecret == [exists |-> FALSE, tracked |-> << >>]

\* The ignored deployments to wake up first: those found asleep whose
\* replicas are known.  NoneToWake: they are ignored at once.
NoneToWake(p, found, tracked) == {}
IgnoredToWake(p, found, tracked) ==
    IF HasTargets(p) THEN {d \in Ignored(p) \cap DOMAIN tracked : found[d] = 0} ELSE {}

\* What a pass writes to the secret; a suspended policy tracks nothing.
\* KeptRecord: it writes what it has read.
KeptRecord(a) == a.tracked
Recorded(a) ==
    IF a.suspended THEN << >> ELSE Info(a.found, Selected(a.policy), a.tracked)

\* The deployments a pass scales, Sleep or WakeUp.
ToScale(a) ==
    IF a.suspended
    THEN {d \in Selected(a.policy) \cap DOMAIN a.tracked : a.found[d] = 0}
    ELSE {d \in Selected(a.policy) : a.found[d] # 0}

\* Has a pass taken away what it has yet to wake up from the secret?
Unfinished == pass.at = "scale" /\ pass.suspended /\ pass.todo # {}

Asleep == {d \in Deployments : Stored(scale)[d] = 0}
Gone == ~Stored(policy).exists

\* The policy has its finalizer: without it nothing was put to sleep yet.
Init ==
    /\ \E targets \in TargetLists :
          policy = <<[exists |-> TRUE, targets |-> targets, suspend |-> "no",
                      deleting |-> FALSE, terminating |-> FALSE]>>
    /\ secret = <<NoSecret>>
    /\ scale = <<Replicas>>
    /\ scheduled \in BOOLEAN
    /\ elapsed = FALSE
    /\ pass = Idle
    /\ hazards = {}
    /\ changes = 0
    /\ faults = 0

Fault == faults < MaxFaults /\ faults' = faults + 1
NoFault == UNCHANGED faults

-----------------------------------------------------------------------------
(* The environment. *)

Outside == changes < MaxChanges /\ changes' = changes + 1

\* The targets are edited, the policy is annotated with suspend-for, or it
\* is deleted.
Edit ==
    /\ ~Gone /\ ~Stored(policy).deleting
    /\ Outside
    /\ \E p \in {[Stored(policy) EXCEPT !.targets = ts] : ts \in TargetLists}
                \cup {[Stored(policy) EXCEPT !.suspend = "for"],
                      [Stored(policy) EXCEPT !.deleting = TRUE]} :
          /\ p # Stored(policy)
          /\ policy' = Publish(policy, p)
    /\ UNCHANGED <<secret, scale, scheduled, elapsed, pass, hazards, faults>>

\* A pattern begins or ends to match.
FlipSchedule ==
    /\ Outside
    /\ scheduled' = ~scheduled
    /\ UNCHANGED <<policy, secret, scale, elapsed, pass, hazards, faults>>

Elapse ==
    /\ Stored(policy).suspend = "until" /\ ~elapsed
    /\ elapsed' = TRUE
    /\ UNCHANGED <<policy, secret, scale, scheduled, pass, hazards, changes, faults>>

DeliverPolicy ==
    /\ Len(policy) > 1 /\ policy' = Tail(policy)
    /\ UNCHANGED <<secret, scale, scheduled, elapsed, pass, hazards, changes, faults>>
DeliverSecret ==
    /\ Len(secret) > 1 /\ secret' = Tail(secret)
    /\ UNCHANGED <<policy, scale, scheduled, elapsed, pass, hazards, changes, faults>>
DeliverScale ==
    /\ Len(scale) > 1 /\ scale' = Tail(scale)
    /\ UNCHANGED <<policy, secret, scheduled, elapsed, pass, hazards, changes, faults>>

Restart ==
    /\ Fault
    /\ policy' = Refreshed(policy)
    /\ secret' = Refreshed(secret)
    /\ scale' = Refreshed(scale)
    /\ pass' = Idle
    /\ hazards' = IF Unfinished THEN hazards \cup {"interrupted"} ELSE hazards
    /\ UNCHANGED <<scheduled, elapsed, changes>>

-----------------------------------------------------------------------------
(* The controller. *)

\* A pass that only writes the policy, from the cached one: the status of a
\* policy that is deleted, the time that suspend-for stands for, the end of
\* that time.
WritePolicy ==
    LET p == Cached(policy)
    IN  /\ pass = Idle /\ p.exists
        /\ p = Stored(policy)
        /\ \/ /\ p.deleting /\ ~p.terminating
              /\ policy' = Publish(policy, [p EXCEPT !.terminating = TRUE])
              /\ UNCHANGED elapsed
           \/ /\ ~p.deleting /\ p.suspend = "for"
              /\ policy' = Publish(policy, [p EXCEPT !.suspend = "until"])
              /\ elapsed' = FALSE
           \/ /\ ~p.deleting /\ p.suspend = "until" /\ elapsed
              /\ policy' = Publish(policy, [p EXCEPT !.suspend = "no"])
              /\ UNCHANGED elapsed
        /\ UNCHANGED <<secret, scale, scheduled, pass, hazards, changes, faults>>

\* Any other pass reads the secret and the deployments; checkSchedule says
\* whether the policy is suspended, and the finalizer takes it to be so.
BeginPass ==
    LET p == Cached(policy)
    IN  /\ pass = Idle /\ p.exists
        /\ IF p.deleting THEN p.terminating
           ELSE p.suspend = "no" \/ (p.suspend = "until" /\ ~elapsed)
        /\ pass' = [at |-> "ignored", policy |-> p,
                    suspended |-> p.deleting \/ p.suspend = "until" \/ scheduled,
                    tracked |-> Cached(secret).tracked, found |-> Cached(scale),
                    todo |-> IgnoredToWake(p, Cached(scale), Cached(secret).tracked)]
        /\ IF Cached(secret) = Stored(secret) /\ Cached(scale) = Stored(scale)
           THEN NoFault /\ UNCHANGED hazards
           ELSE Fault /\ hazards' = hazards \cup {"lag"}
        /\ UNCHANGED <<policy, secret, scale, scheduled, elapsed, changes>>

ScaleTo(d, n) == Publish(scale, [Stored(scale) EXCEPT ![d] = n])

\* The deployments are listed in no order, and the first error ends a pass.
WakeIgnored ==
    /\ pass.at = "ignored" /\ pass.todo # {}
    /\ \/ /\ \E d \in pass.todo :
                /\ scale' = ScaleTo(d, pass.tracked[d])
                /\ pass' = [pass EXCEPT !.todo = @ \ {d}]
          /\ NoFault
       \/ Fault /\ pass' = Idle /\ UNCHANGED scale
    /\ UNCHANGED <<policy, secret, scheduled, elapsed, hazards, changes>>

\* upsertSecret writes the whole secret: Create if none is in the cache, or
\* else an Update that no other write can refuse.
WriteSecret ==
    /\ pass.at = "ignored" /\ pass.todo = {}
    /\ \/ /\ Cached(secret).exists = Stored(secret).exists
          /\ secret' = Publish(secret, [exists |-> TRUE, tracked |-> Recorded(pass)])
          /\ pass' = [pass EXCEPT !.at = "scale", !.todo = ToScale(pass)]
          /\ hazards' = IF ~HasTargets(pass.policy) /\ DOMAIN Stored(secret).tracked # {}
                        THEN hazards \cup {"untargeted"} ELSE hazards
          /\ NoFault
       \/ /\ IF Cached(secret).exists = Stored(secret).exists THEN Fault ELSE NoFault
          /\ pass' = Idle /\ UNCHANGED <<secret, hazards>>
    /\ UNCHANGED <<policy, scale, scheduled, elapsed, changes>>

\* Sleep or WakeUp, for one of the deployments.
ScaleNext ==
    /\ pass.at = "scale" /\ pass.todo # {}
    /\ \/ /\ \E d \in pass.todo :
                /\ scale' = ScaleTo(d, IF pass.suspended THEN pass.tracked[d] ELSE 0)
                /\ pass' = [pass EXCEPT !.todo = @ \ {d}]
          /\ NoFault /\ UNCHANGED hazards
       \/ /\ Fault /\ pass' = Idle /\ UNCHANGED scale
          /\ hazards' = IF Unfinished THEN hazards \cup {"interrupted"} ELSE hazards
    /\ UNCHANGED <<policy, secret, scheduled, elapsed, changes>>

\* A pass of the finalizer ends with its removal, unless the policy in the
\* cache is out of date.
EndPass ==
    /\ pass.at = "scale" /\ pass.todo = {}
    /\ policy' = IF pass.policy.deleting /\ pass.policy = Stored(policy)
                 THEN Publish(policy, [Stored(policy) EXCEPT !.exists = FALSE]) ELSE policy
    /\ pass' = Idle
    /\ UNCHANGED <<secret, scale, scheduled, elapsed, hazards, changes, faults>>

Reconciling ==
    WritePolicy \/ BeginPass \/ WakeIgnored \/ WriteSecret \/ ScaleNext \/ EndPass

Next ==
    \/ Edit \/ FlipSchedule \/ Elapse \/ Restart
    \/ DeliverPolicy \/ DeliverSecret \/ DeliverScale
    \/ Reconciling

\* The policy is reconciled every minute, and time passes.
Fairness ==
    /\ WF_vars(Reconciling) /\ WF_vars(Elapse)
    /\ WF_vars(DeliverPolicy) /\ WF_vars(DeliverSecret) /\ WF_vars(DeliverScale)

Spec == Init /\ [][Next]_vars
FairSpec == Spec /\ Fairness

-----------------------------------------------------------------------------
(* Properties. *)

Waking == IF pass.at = "scale" /\ pass.suspended THEN pass.todo ELSE {}

\* The variables have their types, and nothing is tracked with no replicas.
TypeOK ==
    /\ Stored(policy).suspend \in {"no", "for", "until"}
    /\ Stored(scale) \in [Deployments -> Nat]
    /\ DOMAIN Stored(secret).tracked \subseteq Deployments
    /\ \A d \in DOMAIN Stored(secret).tracked : Stored(secret).tracked[d] > 0
    /\ pass.at \in {"idle", "ignored", "scale"}
    /\ hazards \subseteq {"lag", "interrupted", "untargeted"}

\* A deployment that is asleep can be woken up: its replicas are in the
\* secret, or in the hands of a pass that is about to wake it.  This holds
\* until a pass reads caches that lag behind, is interrupted between the
\* secret and the wake-up, or no longer finds a target of the kind.
AsleepIsTracked ==
    hazards = {} => \A d \in Asleep \ Waking :
        d \in DOMAIN Stored(secret).tracked /\ Stored(secret).tracked[d] = Replicas[d]

\* Whatever happens, a deployment is put to sleep only after its replicas
\* were stored.
RecordedBeforeSleep ==
    [][\A d \in Deployments :
          Stored(scale)[d] # 0 /\ Stored(scale')[d] = 0 =>
              /\ d \in DOMAIN Stored(secret).tracked
              /\ Stored(secret).tracked[d] = Replicas[d]]_vars

\* A policy that is gone leaves no deployment asleep, also not one that it
\* used to target.
GoneMeansAwake == hazards = {} /\ Gone => Asleep = {}

\* The deployments come to what the policy and the schedule say, and every
\* suspend-for comes to its end.
Settled ==
    IF Gone THEN Asleep = {}
    ELSE /\ Stored(policy).suspend = "no"
         /\ Asleep = IF scheduled THEN {} ELSE Selected(Stored(policy))
Settles == <>[](hazards = {} => Settled)
=============================================================================
