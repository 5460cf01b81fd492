----------------------------- MODULE SesameProofs -----------------------------
(***************************************************************************)
(* TLAPS proofs about Sesame, for any set of devices, any latency, any     *)
(* limits and any bounds.                                                  *)
(***************************************************************************)
EXTENDS Sesame, TLAPS

-----------------------------------------------------------------------------
(* The inductive invariant. *)

Call == [pc : {"idle", "roster", "snapshot", "collect", "check", "encrypt"},
         attempt : 0 .. MaxAttempts, now : 0 .. MaxTime,
         todo : SUBSET Device, needs : SUBSET Device,
         bundles : [Device -> Identity], missing : BOOLEAN,
         out : [Device -> {"none", "prekey", "signal", "lost"}], steady : SUBSET Device]

\* A running call got a time that the clock has reached.
ClockInv ==
  /\ Second <= clock
  /\ call.pc # "idle" => Second <= call.now /\ call.now <= clock

\* A bundle brings an identity, and where a session is missing there is one.
BundlesInv ==
  /\ \A d \in Device : call.bundles[d] # NoIdentity => call.bundles[d].key >= 1
  /\ call.pc = "encrypt" => \A d \in call.needs : call.bundles[d] # NoIdentity

\* What became stale was not active after that, up to the second of storing it.
ActiveInv ==
  \A d \in Remote :
    /\ active[d] <= clock
    /\ call.pc # "idle" => active[d] <= call.now
    /\ roster.user \in Time => active[d] < roster.user + Second
    /\ roster.devices[d] \in Time => active[d] < roster.devices[d] + Second

\* The devices a call answers for are in the roster, and once it encrypts they
\* have a ciphertext or are still to get one.
ServedInv ==
  /\ call.steady \subseteq NonStaleDevices(roster)
  /\ call.pc = "encrypt" => \A d \in call.steady : d \in call.todo \/ call.out[d] # "none"

IInv == TypeOK /\ ClockInv /\ BundlesInv /\ ActiveInv /\ ServedInv

-----------------------------------------------------------------------------
(* Facts about the operators. *)

LEMMA Constants ==
  /\ MaxTime \in Nat /\ Second \in Nat /\ Second >= 1 /\ Second <= MaxTime
  /\ MaxLatency \in Nat /\ MaxAttempts \in Nat /\ MaxAttempts >= 1
  /\ MaxCalls \in Nat /\ MaxReinstalls \in Nat
BY SesameAssumption

\* Storing a time loses less than a second.
LEMMA StoredFacts ==
  ASSUME NEW now \in Nat, Second <= now, now <= MaxTime
  PROVE  Stored(now) \in Time /\ Stored(now) <= now /\ now < Stored(now) + Second
<1>1. now % Second \in 0 .. (Second - 1)
  BY Constants
<1> QED
  BY <1>1, Constants DEF Stored, Time

\* A limit on sessions closes sessions and changes none.
LEMMA LimitFacts ==
  ASSUME NEW S, "none" \in S, NEW ss \in [Device -> S], NEW d \in Device,
         NEW res \in EnforceSessionLimit(ss, d)
  PROVE  res \in [Device -> S]
<1> DEFINE held == {e \in Device : ss[e] # "none"}
<1>1. res = ss \/ \E gone \in SUBSET held : res = [e \in Device |-> IF e \in gone THEN "none" ELSE ss[e]]
  BY DEF EnforceSessionLimit
<1> QED
  BY <1>1

LEMMA IdleFacts ==
  /\ Idle \in Call
  /\ Idle.pc = "idle" /\ Idle.steady = {} /\ Idle.todo = {} /\ Idle.needs = {}
  /\ \A d \in Device : Idle.bundles[d] = NoIdentity
<1>1. NoIdentity \in Identity
  BY Constants DEF NoIdentity, Identity
<1>2. [d \in Device |-> NoIdentity] \in [Device -> Identity]
  BY <1>1
<1>3. [d \in Device |-> "none"] \in [Device -> {"none", "prekey", "signal", "lost"}]
  OBVIOUS
<1>4. 0 \in 0 .. MaxAttempts /\ 0 \in 0 .. MaxTime
  BY Constants
<1> QED
  BY <1>2, <1>3, <1>4 DEF Idle, Call

\* TypeOK, in the terms of the proofs.
LEMMA Types ==
  ASSUME TypeOK
  PROVE  /\ call \in Call /\ clock \in Nat /\ clock <= MaxTime
         /\ call.now \in Nat /\ call.now <= MaxTime /\ call.attempt \in Nat /\ call.attempt <= MaxAttempts
         /\ call.steady \subseteq Device /\ call.todo \subseteq Device
         /\ call.bundles \in [Device -> Identity]
         /\ roster.devices \in [Device -> Record] /\ roster.user \in Record
         /\ active \in [Remote -> 0 .. MaxTime]
         /\ \A d \in Remote : active[d] \in Nat
         /\ \A d \in Device : real[d] \in Nat /\ real[d] >= 1 /\ FullIdentity(d) \in Identity
         /\ Remote \subseteq Device
<1>1. call \in Call
  BY DEF TypeOK, Call
<1>2. /\ clock \in Nat /\ clock <= MaxTime
      /\ call.now \in Nat /\ call.now <= MaxTime /\ call.attempt \in Nat /\ call.attempt <= MaxAttempts
  BY <1>1, Constants DEF TypeOK, Time, Call
<1>3. \A d \in Device : real[d] \in Nat /\ real[d] >= 1 /\ FullIdentity(d) \in Identity
  BY Constants DEF TypeOK, FullIdentity, Identity
<1>4. \A d \in Remote : active[d] \in Nat
  BY Constants DEF TypeOK
<1> QED
  BY <1>1, <1>2, <1>3, <1>4 DEF TypeOK, Call, Remote

\* A record that becomes stale, at the time now.
LEMMA MarkStaleFacts ==
  ASSUME NEW r \in Record, NEW now \in Nat, Second <= now, now <= MaxTime,
         NEW a \in Nat, a <= now, r \in Time => a < r + Second
  PROVE  MarkStale(r, now) \in Time /\ a < MarkStale(r, now) + Second
<1>1. Stored(now) \in Time /\ now < Stored(now) + Second /\ Stored(now) \in Nat
  BY StoredFacts DEF Time
<1> QED
  BY <1>1, Constants DEF MarkStale

\* The roster after a device list: its remote devices are fresh, the others are
\* unknown or stale.
LEMMA AppliedFacts ==
  ASSUME NEW r \in [user : Record, devices : [Device -> Record]], NEW listed \in SUBSET Device,
         NEW now \in Nat, Second <= now, now <= MaxTime,
         NEW res, res = Applied(r, listed, now)
  PROVE  /\ res \in [user : Record, devices : [Device -> Record]]
         /\ res.user = Fresh
         /\ listed \cap Remote \subseteq NonStaleDevices(res)
         /\ \A d \in Remote \cap listed : res.devices[d] = Fresh
         /\ \A d \in Remote \ listed : res.devices[d] \in {Absent, MarkStale(r.devices[d], now)}
<1>1. \A d \in Device : MarkStale(r.devices[d], now) \in Record
  BY StoredFacts DEF MarkStale, Record
<1>2. Fresh \in Record
  BY DEF Record
<1>3. res.user = Fresh /\ res \in [user : Record, devices : [Device -> Record]]
  BY <1>1, <1>2 DEF Applied
<1>4. /\ \A d \in Remote \cap listed : res.devices[d] = Fresh
      /\ \A d \in Remote \ listed : res.devices[d] \in {Absent, MarkStale(r.devices[d], now)}
  BY DEF Applied, Remote
<1>5. listed \cap Remote \subseteq NonStaleDevices(res)
  BY <1>3, <1>4 DEF NonStaleDevices
<1> QED
  BY <1>3, <1>4, <1>5

LEMMA TouchedFacts ==
  ASSUME NEW r \in [user : Record, devices : [Device -> Record]], NEW d \in Device
  PROVE  /\ Touched(r, d) \in [user : Record, devices : [Device -> Record]]
         /\ Touched(r, d).user = Fresh
         /\ \A e \in Remote : Touched(r, d).devices[e] = IF e = d THEN Fresh ELSE r.devices[e]
BY DEF Touched, Record, Remote

LEMMA PrunedFacts ==
  ASSUME roster \in [user : Record, devices : [Device -> Record]]
  PROVE  /\ PrunedRoster \in [user : Record, devices : [Device -> Record]]
         /\ PrunedRoster.user \in {Absent, roster.user}
         /\ \A d \in Device : PrunedRoster.devices[d] \in {Absent, roster.devices[d]}
<1> DEFINE devices == [d \in Device |-> IF d \in Pruned THEN Absent ELSE roster.devices[d]]
<1>1. PrunedRoster = Empty \/ PrunedRoster = [roster EXCEPT !.devices = devices]
  BY DEF PrunedRoster
<1>2. Absent \in Record
  BY DEF Record
<1>3. CASE PrunedRoster = Empty
  BY <1>2, <1>3 DEF Empty
<1>4. CASE PrunedRoster = [roster EXCEPT !.devices = devices]
  <2>1. devices \in [Device -> Record]
    BY <1>2
  <2> QED
    BY <1>4, <2>1
<1> QED
  BY <1>1, <1>3, <1>4

-----------------------------------------------------------------------------
(* Steps of a call. *)

\* What the invariant says of a call alone.
CallInv == call \in Call /\ BundlesInv /\ ServedInv

LEMMA IdleInv ==
  ASSUME call' = Idle
  PROVE  CallInv'
BY IdleFacts DEF CallInv, BundlesInv, ServedInv, Call

\* Everything gathered is dropped; the call keeps its time.
LEMMA AttemptFacts ==
  ASSUME TypeOK, NextAttempt
  PROVE  /\ CallInv'
         /\ call'.pc # "idle" => call'.now = call.now
<1>1. CASE call' = Idle
  BY <1>1, IdleInv, IdleFacts
<1>2. CASE /\ call.attempt # MaxAttempts
           /\ call' = [Idle EXCEPT !.pc = "roster", !.attempt = call.attempt + 1, !.now = call.now]
  <2>1. call.attempt + 1 \in 0 .. MaxAttempts /\ call.now \in 0 .. MaxTime
    BY <1>2, Types, Constants
  <2>2. call' \in Call
    BY <1>2, <2>1, IdleFacts DEF Call
  <2>3. /\ call'.pc = "roster" /\ call'.now = call.now
        /\ call'.steady = {} /\ call'.bundles = Idle.bundles
    BY <1>2 DEF Idle
  <2> QED
    BY <2>2, <2>3, IdleFacts DEF CallInv, BundlesInv, ServedInv
<1> QED
  BY <1>1, <1>2 DEF NextAttempt

\* A step that changes the call only.
LEMMA CallOnly ==
  ASSUME IInv, UNCHANGED <<roster, sess, identity, real, clock, active>>,
         calls' \in 0 .. MaxCalls, CallInv',
         call'.pc # "idle" => /\ Second <= call'.now /\ call'.now <= clock
                              /\ \A d \in Remote : active[d] <= call'.now
  PROVE  IInv'
<1>1. TypeOK'
  BY DEF IInv, TypeOK, CallInv, Call
<1>2. ClockInv'
  BY DEF IInv, ClockInv
<1>3. ActiveInv'
  BY DEF IInv, ActiveInv
<1> QED
  BY <1>1, <1>2, <1>3 DEF IInv, CallInv

\* A step of the call that keeps its time or ends it.
LEMMA SameTime ==
  ASSUME IInv, UNCHANGED <<roster, sess, identity, real, clock, calls, active>>, CallInv',
         call.pc # "idle", call'.pc # "idle" => call'.now = call.now
  PROVE  IInv'
<1>1. calls' \in 0 .. MaxCalls
  BY DEF IInv, TypeOK
<1>2. /\ Second <= call.now /\ call.now <= clock
      /\ \A d \in Remote : active[d] <= call.now
  BY DEF IInv, ClockInv, ActiveInv
<1> QED
  BY <1>1, <1>2, CallOnly

LEMMA StartIInv ==
  ASSUME IInv, Start
  PROVE  IInv'
<1>1. call' = [Idle EXCEPT !.pc = "roster", !.attempt = 1, !.now = clock]
  BY DEF Start
<1>2. 1 \in 0 .. MaxAttempts /\ clock \in 0 .. MaxTime
  BY Types, Constants DEF IInv
<1>3. call' \in Call
  BY <1>1, <1>2, IdleFacts DEF Call
<1>4. call'.pc = "roster" /\ call'.now = clock /\ call'.steady = {} /\ call'.bundles = Idle.bundles
  BY <1>1 DEF Idle
<1>5. CallInv'
  BY <1>3, <1>4, IdleFacts DEF CallInv, BundlesInv, ServedInv
<1>6. calls' \in 0 .. MaxCalls
  BY Constants DEF Start, IInv, TypeOK
<1>7. Second <= clock /\ clock <= clock /\ \A d \in Remote : active[d] <= clock
  BY Types DEF IInv, ClockInv, ActiveInv
<1>8. UNCHANGED <<roster, sess, identity, real, clock, active>>
  BY DEF Start
<1> QED
  BY <1>4, <1>5, <1>6, <1>7, <1>8, CallOnly

LEMMA SnapshotIInv ==
  ASSUME IInv, Snapshot
  PROVE  IInv'
<1>1. /\ call.pc = "snapshot"
      /\ call' = [call EXCEPT !.pc = "collect", !.todo = NonStaleDevices(roster)]
      /\ UNCHANGED <<roster, sess, identity, real, clock, calls, active>>
  BY DEF Snapshot
<1>2. call \in Call /\ NonStaleDevices(roster) \subseteq Device
  BY Types DEF IInv, NonStaleDevices, Remote
<1>3. call' \in Call
  BY <1>1, <1>2 DEF Call
<1>4. call'.pc = "collect" /\ call'.steady = call.steady /\ call'.bundles = call.bundles /\ call'.now = call.now
  BY <1>1, <1>2 DEF Call
<1>5. CallInv'
  BY <1>1, <1>3, <1>4 DEF IInv, CallInv, BundlesInv, ServedInv
<1> QED
  BY <1>1, <1>4, <1>5, SameTime

LEMMA CollectBundleIInv ==
  ASSUME IInv, CollectBundle
  PROVE  IInv'
<1>1. call.pc = "collect" /\ UNCHANGED <<roster, sess, identity, real, clock, calls, active>>
  BY DEF CollectBundle
<1>2. PICK d \in Device :
        \/ call' = [call EXCEPT !.todo = @ \ {d}]
        \/ call' = [call EXCEPT !.todo = @ \ {d}, !.bundles[d] = FullIdentity(d)]
        \/ call' = [call EXCEPT !.todo = @ \ {d}, !.missing = TRUE]
        \/ NextAttempt
        \/ call' = Idle
  BY DEF CollectBundle
<1>3. /\ call \in Call /\ FullIdentity(d) \in Identity /\ FullIdentity(d).key >= 1
      /\ call.bundles \in [Device -> Identity]
  <2>1. FullIdentity(d).key = real[d]
    BY DEF FullIdentity
  <2> QED
    BY <2>1, Types DEF IInv
<1>4. CallInv' /\ (call'.pc # "idle" => call'.now = call.now)
  <2>1. CASE call' = [call EXCEPT !.todo = @ \ {d}] \/ call' = [call EXCEPT !.todo = @ \ {d}, !.missing = TRUE]
    <3>1. call' \in Call
      <4>1. CASE call' = [call EXCEPT !.todo = @ \ {d}]
        BY <4>1, <1>3 DEF Call
      <4>2. CASE call' = [call EXCEPT !.todo = @ \ {d}, !.missing = TRUE]
        BY <4>2, <1>3 DEF Call
      <4> QED
        BY <2>1, <4>1, <4>2
    <3>2. call'.pc = "collect" /\ call'.steady = call.steady /\ call'.bundles = call.bundles /\ call'.now = call.now
      BY <2>1, <1>1, <1>3 DEF Call
    <3> QED
      BY <1>1, <3>1, <3>2 DEF IInv, CallInv, BundlesInv, ServedInv
  <2>2. CASE call' = [call EXCEPT !.todo = @ \ {d}, !.bundles[d] = FullIdentity(d)]
    <3>1. call' \in Call
      BY <2>2, <1>3 DEF Call
    <3>2. /\ call'.pc = "collect" /\ call'.steady = call.steady /\ call'.now = call.now
          /\ call'.bundles = [call.bundles EXCEPT ![d] = FullIdentity(d)]
      BY <2>2, <1>1, <1>3 DEF Call
    <3>3. \A e \in Device : call'.bundles[e] # NoIdentity => call'.bundles[e].key >= 1
      BY <1>3, <3>2 DEF IInv, BundlesInv
    <3> QED
      BY <1>1, <3>1, <3>2, <3>3 DEF IInv, CallInv, BundlesInv, ServedInv
  <2>3. CASE NextAttempt
    BY <2>3, AttemptFacts DEF IInv
  <2>4. CASE call' = Idle
    BY <2>4, IdleInv, IdleFacts
  <2> QED
    BY <1>2, <2>1, <2>2, <2>3, <2>4
<1> QED
  BY <1>1, <1>4, SameTime

LEMMA CollectDoneIInv ==
  ASSUME IInv, CollectDone
  PROVE  IInv'
<1>1. /\ call.pc = "collect"
      /\ call' = Idle \/ call' = [call EXCEPT !.pc = "check"]
      /\ UNCHANGED <<roster, sess, identity, real, clock, calls, active>>
  BY DEF CollectDone
<1>2. CASE call' = Idle
  BY <1>1, <1>2, IdleInv, IdleFacts, SameTime
<1>3. CASE call' = [call EXCEPT !.pc = "check"]
  <2>1. call \in Call
    BY Types DEF IInv
  <2>2. call' \in Call
    BY <1>3, <2>1 DEF Call
  <2>3. call'.pc = "check" /\ call'.steady = call.steady /\ call'.bundles = call.bundles /\ call'.now = call.now
    BY <1>3, <2>1 DEF Call
  <2>4. CallInv'
    BY <1>1, <2>2, <2>3 DEF IInv, CallInv, BundlesInv, ServedInv
  <2> QED
    BY <1>1, <2>3, <2>4, SameTime
<1> QED
  BY <1>1, <1>2, <1>3

\* Every device that the call answers for is to get a ciphertext, and those
\* without a session have a bundle.
LEMMA CheckSessionsIInv ==
  ASSUME IInv, CheckSessions
  PROVE  IInv'
<1> DEFINE addrs == NonStaleDevices(roster)
           needs == {d \in addrs : ~sessionReady(d)}
<1>1. /\ call.pc = "check"
      /\ UNCHANGED <<roster, sess, identity, real, clock, calls, active>>
      /\ \/ call' = Idle
         \/ /\ \A d \in needs : call.bundles[d] # NoIdentity
            /\ call' = [call EXCEPT !.pc = "encrypt", !.todo = addrs, !.needs = needs]
  BY DEF CheckSessions
<1>2. CASE call' = Idle
  BY <1>1, <1>2, IdleInv, IdleFacts, SameTime
<1>3. CASE /\ \A d \in needs : call.bundles[d] # NoIdentity
           /\ call' = [call EXCEPT !.pc = "encrypt", !.todo = addrs, !.needs = needs]
  <2>1. call \in Call /\ addrs \subseteq Device /\ needs \subseteq Device
    BY Types DEF IInv, NonStaleDevices, Remote
  <2> HIDE DEF addrs, needs
  <2>2. call' \in Call
    BY <1>3, <2>1 DEF Call
  <2>3. /\ call'.pc = "encrypt" /\ call'.steady = call.steady /\ call'.bundles = call.bundles
        /\ call'.now = call.now /\ call'.todo = addrs /\ call'.needs = needs
    BY <1>3, <2>1 DEF Call
  <2>4. BundlesInv'
    BY <1>3, <2>3 DEF IInv, BundlesInv
  <2>5. ServedInv'
    BY <1>1, <2>3 DEF IInv, ServedInv, addrs
  <2> QED
    BY <1>1, <2>2, <2>3, <2>4, <2>5, SameTime DEF CallInv
<1> QED
  BY <1>1, <1>2, <1>3

\* A device list arrives: what is listed is fresh and active, the rest stale.
LEMMA FetchRosterIInv ==
  ASSUME IInv, FetchRoster
  PROVE  IInv'
<1>1. call.pc = "roster" /\ UNCHANGED <<identity, real, clock, calls>>
  BY DEF FetchRoster
<1>2. TypeOK
  BY DEF IInv
<1>3. CASE (NextAttempt \/ call' = Idle) /\ UNCHANGED <<roster, sess, active>>
  <2>1. CallInv' /\ (call'.pc # "idle" => call'.now = call.now)
    BY <1>2, <1>3, AttemptFacts, IdleInv, IdleFacts
  <2> QED
    BY <1>1, <1>3, <2>1, SameTime
<1>4. ASSUME NEW listed \in SUBSET Device, NEW withKeys \in BOOLEAN,
             ApplyDeviceList(listed, withKeys),
             call' = IF IdentityChanged(listed, withKeys) # {} THEN Idle
                     ELSE [call EXCEPT !.pc = "snapshot", !.steady = listed \cap Remote]
      PROVE  IInv'
  <2> DEFINE now == call.now
  <2>1. /\ now \in Nat /\ Second <= now /\ now <= clock /\ now <= MaxTime /\ call \in Call
        /\ clock \in Nat /\ \A d \in Remote : active[d] \in Nat /\ active[d] <= now
    BY <1>1, <1>2, Types DEF IInv, ClockInv, ActiveInv
  <2>2. /\ roster' = Applied(roster, listed, now)
        /\ sess' = [d \in Device |-> IF d \in IdentityChanged(listed, withKeys) THEN "none" ELSE sess[d]]
        /\ active' = [d \in Remote |-> IF d \in listed THEN now ELSE active[d]]
    BY <1>1, <1>4 DEF ApplyDeviceList, Now
  <2>3. roster \in [user : Record, devices : [Device -> Record]]
    BY <1>2 DEF TypeOK
  <2>4. /\ roster' \in [user : Record, devices : [Device -> Record]]
        /\ roster'.user = Fresh
        /\ listed \cap Remote \subseteq NonStaleDevices(roster')
        /\ \A d \in Remote \cap listed : roster'.devices[d] = Fresh
        /\ \A d \in Remote \ listed : roster'.devices[d] \in {Absent, MarkStale(roster.devices[d], now)}
    <3> DEFINE old == roster
    <3>1. roster' = Applied(old, listed, now)
      BY <2>2
    <3>2. now \in Nat /\ Second <= now /\ now <= MaxTime
      BY <2>1
    <3>3. old \in [user : Record, devices : [Device -> Record]]
      BY <2>3
    <3> HIDE DEF now, old
    <3>4. listed \in SUBSET Device
      OBVIOUS
    <3>5. roster' \in [user : Record, devices : [Device -> Record]]
      BY <3>1, <3>2, <3>3, <3>4, AppliedFacts
    <3>6. roster'.user = Fresh
      BY <3>1 DEF Applied
    <3>7. listed \cap Remote \subseteq NonStaleDevices(roster')
      BY <3>1, <3>2, <3>3, <3>4, AppliedFacts
    <3>8. \A d \in Remote \cap listed : roster'.devices[d] = Fresh
      BY <3>1, <3>2, <3>3, <3>4, AppliedFacts
    <3>9. \A d \in Remote \ listed : roster'.devices[d] \in {Absent, MarkStale(old.devices[d], now)}
      BY <3>1, <3>2, <3>3, <3>4, AppliedFacts
    <3> QED
      BY <3>5, <3>6, <3>7, <3>8, <3>9 DEF old
  <2>5. CallInv' /\ (call'.pc # "idle" => call'.now = now)
    <3>1. CASE call' = Idle
      BY <3>1, IdleInv, IdleFacts
    <3>2. CASE call' = [call EXCEPT !.pc = "snapshot", !.steady = listed \cap Remote]
      <4>1. listed \cap Remote \subseteq Device
        OBVIOUS
      <4>2. call' \in Call
        BY <2>1, <3>2, <4>1 DEF Call
      <4>3. /\ call'.pc = "snapshot" /\ call'.steady = listed \cap Remote
            /\ call'.bundles = call.bundles /\ call'.now = now
        BY <2>1, <3>2 DEF Call
      <4> QED
        BY <2>4, <4>2, <4>3 DEF IInv, CallInv, BundlesInv, ServedInv
    <3> QED
      BY <1>4, <3>1, <3>2
  <2>6. TypeOK'
    <3>1. sess' \in [Device -> {"none", "unsent", "shared"}]
      BY <1>2, <2>2 DEF TypeOK
    <3>2. active' \in [Remote -> 0 .. MaxTime]
      BY <1>2, <2>1, <2>2, Constants DEF TypeOK
    <3> QED
      BY <1>1, <1>2, <2>4, <2>5, <3>1, <3>2 DEF TypeOK, CallInv, Call
  <2>7. ClockInv'
    BY <1>1, <2>1, <2>5 DEF IInv, ClockInv
  <2>8. ActiveInv'
    <3> SUFFICES ASSUME NEW d \in Remote
                 PROVE  /\ active'[d] <= clock
                        /\ call'.pc # "idle" => active'[d] <= call'.now
                        /\ roster'.user \in Time => active'[d] < roster'.user + Second
                        /\ roster'.devices[d] \in Time => active'[d] < roster'.devices[d] + Second
      BY <1>1 DEF ActiveInv
    <3>1. active'[d] = IF d \in listed THEN now ELSE active[d]
      BY <2>2
    <3>2. active'[d] <= now /\ active'[d] \in Nat
      BY <2>1, <3>1
    <3>3. roster'.user \notin Time /\ Fresh \notin Time /\ Absent \notin Time
      BY <2>4 DEF Fresh, Absent, Time
    <3>4. ASSUME roster'.devices[d] \in Time
          PROVE  active'[d] < roster'.devices[d] + Second
      <4>1. d \notin listed /\ roster'.devices[d] = MarkStale(roster.devices[d], now)
        BY <2>4, <3>3, <3>4
      <4>2. active'[d] = active[d]
        BY <3>1, <4>1
      <4>3. roster.devices[d] \in Record /\ (roster.devices[d] \in Time => active[d] < roster.devices[d] + Second)
        BY <1>2, Types DEF IInv, ActiveInv
      <4> QED
        BY <2>1, <4>1, <4>2, <4>3, MarkStaleFacts
    <3> QED
      BY <2>1, <2>5, <3>2, <3>3, <3>4
  <2> QED
    BY <2>5, <2>6, <2>7, <2>8 DEF IInv, CallInv
<1> QED
  BY <1>3, <1>4 DEF FetchRoster

\* A step of the call that may change sessions and identities too.
LEMMA StoreStep ==
  ASSUME IInv, UNCHANGED <<roster, real, clock, calls, active>>, CallInv',
         sess' \in [Device -> {"none", "unsent", "shared"}], identity' \in [Device -> Identity],
         call.pc # "idle", call'.pc # "idle" => call'.now = call.now
  PROVE  IInv'
<1>1. TypeOK'
  BY DEF IInv, TypeOK, CallInv, Call
<1>2. ClockInv'
  BY DEF IInv, ClockInv
<1>3. ActiveInv'
  BY DEF IInv, ActiveInv
<1> QED
  BY <1>1, <1>2, <1>3 DEF IInv, CallInv

LEMMA SaveFacts ==
  ASSUME NEW stored \in Identity, NEW id \in Identity
  PROVE  SaveIdentity(stored, id) \in Identity /\ SaveIdentity(stored, id).key = id.key
BY DEF SaveIdentity, Identity

\* A ciphertext joins the result.
LEMMA ProduceInv ==
  ASSUME IInv, UNCHANGED roster, call.pc = "encrypt", NEW d \in Device,
         NEW kind \in {"prekey", "signal", "lost"}, Produce(d, kind)
  PROVE  CallInv' /\ call'.now = call.now
<1>1. call \in Call /\ call' = [call EXCEPT !.todo = @ \ {d}, !.out[d] = kind]
  BY Types DEF IInv, Produce
<1>2. call' \in Call
  BY <1>1 DEF Call
<1>3. /\ call'.pc = "encrypt" /\ call'.steady = call.steady /\ call'.bundles = call.bundles
      /\ call'.now = call.now /\ call'.needs = call.needs /\ call'.todo = call.todo \ {d}
      /\ call'.out = [call.out EXCEPT ![d] = kind]
  BY <1>1 DEF Call
<1>4. call.steady \subseteq Device /\ call.out \in [Device -> {"none", "prekey", "signal", "lost"}]
  BY <1>1 DEF Call
<1>5. \A e \in call.steady : e \in call'.todo \/ call'.out[e] # "none"
  <2> SUFFICES ASSUME NEW e \in call.steady, e \notin call'.todo
               PROVE  call'.out[e] # "none"
    OBVIOUS
  <2>1. CASE e = d
    BY <2>1, <1>3, <1>4
  <2>2. CASE e # d
    BY <2>2, <1>3, <1>4 DEF IInv, ServedInv
  <2> QED
    BY <2>1, <2>2
<1>6. BundlesInv'
  BY <1>3 DEF IInv, BundlesInv
<1>7. ServedInv'
  BY <1>3, <1>5 DEF IInv, ServedInv
<1> QED
  BY <1>2, <1>3, <1>6, <1>7 DEF CallInv

LEMMA EncryptDeviceIInv ==
  ASSUME IInv, EncryptDevice
  PROVE  IInv'
<1>1. /\ call.pc = "encrypt" /\ UNCHANGED <<roster, real, clock, calls, active>>
      /\ TypeOK /\ call \in Call
      /\ sess \in [Device -> {"none", "unsent", "shared"}] /\ identity \in [Device -> Identity]
  BY Types DEF EncryptDevice, IInv, TypeOK
<1>2. PICK d \in Device :
        \/ EncryptWithBundle(d)
        \/ EncryptWithSession(d)
        \/ call' = Idle /\ UNCHANGED <<sess, identity>>
  BY DEF EncryptDevice
<1>3. CASE EncryptWithBundle(d)
  <2>1. /\ sess' \in EnforceSessionLimit([sess EXCEPT ![d] = "unsent"], d)
        /\ identity' = [identity EXCEPT ![d] = SaveIdentity(@, call.bundles[d])]
        /\ Produce(d, "prekey")
    BY <1>3 DEF EncryptWithBundle
  <2>2. sess' \in [Device -> {"none", "unsent", "shared"}]
    <3>1. [sess EXCEPT ![d] = "unsent"] \in [Device -> {"none", "unsent", "shared"}]
      BY <1>1
    <3> QED
      BY <2>1, <3>1, LimitFacts
  <2>3. identity' \in [Device -> Identity]
    <3>1. SaveIdentity(identity[d], call.bundles[d]) \in Identity
      BY <1>1, SaveFacts DEF Call
    <3> QED
      BY <1>1, <2>1, <3>1
  <2>4. CallInv' /\ call'.now = call.now
    BY <1>1, <2>1, ProduceInv
  <2> QED
    BY <1>1, <2>2, <2>3, <2>4, StoreStep
<1>4. CASE EncryptWithSession(d)
  <2>1. /\ sess' \in EnforceSessionLimit(sess, d) /\ identity' = identity
        /\ Produce(d, IF sess[d] = "unsent" THEN "lost" ELSE "signal")
    BY <1>4 DEF EncryptWithSession
  <2>2. sess' \in [Device -> {"none", "unsent", "shared"}]
    BY <1>1, <2>1, LimitFacts
  <2>3. CallInv' /\ call'.now = call.now
    <3> DEFINE kind == IF sess[d] = "unsent" THEN "lost" ELSE "signal"
    <3>1. kind \in {"prekey", "signal", "lost"} /\ Produce(d, kind)
      BY <2>1
    <3> HIDE DEF kind
    <3> QED
      BY <1>1, <3>1, ProduceInv
  <2> QED
    BY <1>1, <2>1, <2>2, <2>3, StoreStep
<1>5. CASE call' = Idle /\ UNCHANGED <<sess, identity>>
  BY <1>1, <1>5, IdleInv, IdleFacts, StoreStep
<1> QED
  BY <1>2, <1>3, <1>4, <1>5

LEMMA ReturnIInv ==
  ASSUME IInv, Return
  PROVE  IInv'
<1>1. /\ call.pc = "encrypt" /\ call' = Idle
      /\ sess' = [d \in Device |-> IF call.out[d] = "prekey" /\ sess[d] = "unsent" THEN "shared" ELSE sess[d]]
      /\ UNCHANGED <<roster, identity, real, clock, calls, active>>
  BY DEF Return, Returning
<1>2. sess' \in [Device -> {"none", "unsent", "shared"}] /\ identity' \in [Device -> Identity]
  BY <1>1 DEF IInv, TypeOK
<1> QED
  BY <1>1, <1>2, IdleInv, IdleFacts, StoreStep

-----------------------------------------------------------------------------
(* Steps beside the call. *)

\* A manager operation stores a roster in which stale devices are not active.
LEMMA SetRosterIInv ==
  ASSUME IInv, NEW r \in [user : Record, devices : [Device -> Record]], SetRoster(r),
         UNCHANGED <<real, clock, calls>>,
         sess' \in [Device -> {"none", "unsent", "shared"}], identity' \in [Device -> Identity],
         active' \in [Remote -> 0 .. MaxTime],
         \A d \in Remote :
           /\ active'[d] = active[d] \/ active'[d] = Now
           /\ r.user \in Time => active'[d] < r.user + Second
           /\ r.devices[d] \in Time => active'[d] < r.devices[d] + Second
  PROVE  IInv'
<1>1. call \in Call /\ clock \in Nat
  BY Types DEF IInv
<1>2. roster' = r /\ call' = [call EXCEPT !.steady = call.steady \cap NonStaleDevices(r)]
  BY DEF SetRoster
<1>3. call' \in Call
  BY <1>1, <1>2 DEF Call
<1>4. /\ call'.pc = call.pc /\ call'.now = call.now /\ call'.bundles = call.bundles
      /\ call'.needs = call.needs /\ call'.todo = call.todo /\ call'.out = call.out
      /\ call'.steady = call.steady \cap NonStaleDevices(r)
  BY <1>1, <1>2 DEF Call
<1>5. TypeOK'
  BY <1>2, <1>3 DEF IInv, TypeOK, Call
<1>6. ClockInv'
  BY <1>4 DEF IInv, ClockInv
<1>7. BundlesInv'
  BY <1>4 DEF IInv, BundlesInv
<1>8. ActiveInv'
  <2>1. /\ \A d \in Remote : active[d] <= clock /\ (call.pc # "idle" => active[d] <= call.now)
        /\ Now <= clock /\ (call.pc # "idle" => Now <= call.now)
    <3>1. call.now \in Nat
      BY Types DEF IInv
    <3> QED
      BY <1>1, <3>1 DEF IInv, ActiveInv, ClockInv, Now
  <2> QED
    BY <1>2, <1>4, <2>1 DEF ActiveInv
<1>9. ServedInv'
  BY <1>2, <1>4 DEF IInv, ServedInv
<1> QED
  BY <1>5, <1>6, <1>7, <1>8, <1>9 DEF IInv

LEMMA TouchDeviceIInv ==
  ASSUME IInv, NEW d \in Device, TouchDevice(d)
  PROVE  IInv'
<1> DEFINE r == Touched(roster, d)
<1>1. /\ SetRoster(r) /\ UNCHANGED <<sess, identity, real, clock, calls>>
      /\ active' = [e \in Remote |-> IF e = d THEN Now ELSE active[e]]
  BY DEF TouchDevice
<1>2. roster \in [user : Record, devices : [Device -> Record]]
  BY DEF IInv, TypeOK
<1>3. /\ r \in [user : Record, devices : [Device -> Record]] /\ r.user = Fresh
      /\ \A e \in Remote : r.devices[e] = IF e = d THEN Fresh ELSE roster.devices[e]
  BY <1>2, TouchedFacts
<1> HIDE DEF r
<1>4. Now \in 0 .. MaxTime
  BY Types, Constants DEF IInv, Now
<1>5. active' \in [Remote -> 0 .. MaxTime]
  BY <1>1, <1>4 DEF IInv, TypeOK
<1>6. Fresh \notin Time
  BY DEF Fresh, Time
<1>7. \A e \in Remote :
        /\ active'[e] = active[e] \/ active'[e] = Now
        /\ r.user \in Time => active'[e] < r.user + Second
        /\ r.devices[e] \in Time => active'[e] < r.devices[e] + Second
  BY <1>1, <1>3, <1>6 DEF IInv, ActiveInv
<1>8. sess' \in [Device -> {"none", "unsent", "shared"}] /\ identity' \in [Device -> Identity]
  BY <1>1 DEF IInv, TypeOK
<1> QED
  BY <1>1, <1>3, <1>5, <1>7, <1>8, SetRosterIInv

LEMMA MarkUserStaleIInv ==
  ASSUME IInv, MarkUserStale
  PROVE  IInv'
<1> DEFINE r == [roster EXCEPT !.user = MarkStale(@, clock)]
<1>1. SetRoster(r) /\ UNCHANGED <<sess, identity, real, clock, calls, active>>
  BY DEF MarkUserStale
<1>2. /\ roster \in [user : Record, devices : [Device -> Record]]
      /\ clock \in Nat /\ Second <= clock /\ clock <= MaxTime
      /\ \A d \in Remote : active[d] \in Nat /\ active[d] <= clock
  BY Types DEF IInv, TypeOK, ClockInv, ActiveInv
<1>3. MarkStale(roster.user, clock) \in Time
  BY <1>2, StoredFacts DEF MarkStale
<1>4. /\ r \in [user : Record, devices : [Device -> Record]]
      /\ r.user = MarkStale(roster.user, clock) /\ r.devices = roster.devices
  BY <1>2, <1>3 DEF Record
<1> HIDE DEF r
<1>5. ASSUME NEW d \in Remote
      PROVE  active[d] < r.user + Second
  <2>1. roster.user \in Record /\ (roster.user \in Time => active[d] < roster.user + Second)
    BY Types DEF IInv, ActiveInv
  <2> QED
    BY <1>2, <1>4, <2>1, MarkStaleFacts
<1>6. /\ sess' \in [Device -> {"none", "unsent", "shared"}] /\ identity' \in [Device -> Identity]
      /\ active' \in [Remote -> 0 .. MaxTime]
  BY <1>1 DEF IInv, TypeOK
<1>7. \A d \in Remote :
        /\ active'[d] = active[d]
        /\ active'[d] < r.user + Second
        /\ r.devices[d] \in Time => active'[d] < r.devices[d] + Second
  BY <1>1, <1>4, <1>5 DEF IInv, ActiveInv
<1> QED
  BY <1>1, <1>4, <1>6, <1>7, SetRosterIInv

LEMMA MarkDeviceStaleIInv ==
  ASSUME IInv, NEW d \in Remote, MarkDeviceStale(d)
  PROVE  IInv'
<1> DEFINE k == Known(roster)
           r == [k EXCEPT !.devices[d] = MarkStale(@, clock)]
<1>1. SetRoster(r) /\ UNCHANGED <<sess, identity, real, clock, calls, active>>
  BY DEF MarkDeviceStale
<1>2. /\ roster \in [user : Record, devices : [Device -> Record]]
      /\ clock \in Nat /\ Second <= clock /\ clock <= MaxTime /\ d \in Device
      /\ \A e \in Remote : active[e] \in Nat /\ active[e] <= clock
  BY Types DEF IInv, TypeOK, ClockInv, ActiveInv
<1>3. MarkStale(roster.devices[d], clock) \in Record
  BY <1>2, StoredFacts DEF MarkStale, Record
<1>4. /\ k \in [user : Record, devices : [Device -> Record]]
      /\ k.user \in {Fresh, roster.user} /\ k.devices = roster.devices
  BY <1>2 DEF Known, Record
<1> HIDE DEF k
<1>5. /\ r \in [user : Record, devices : [Device -> Record]]
      /\ r.user = k.user
      /\ r.devices = [roster.devices EXCEPT ![d] = MarkStale(roster.devices[d], clock)]
  BY <1>2, <1>3, <1>4
<1> HIDE DEF r
<1>6. ASSUME NEW e \in Remote, r.devices[e] \in Time
      PROVE  active[e] < r.devices[e] + Second
  <2>1. e \in Device /\ roster.devices[e] \in Record
        /\ (roster.devices[e] \in Time => active[e] < roster.devices[e] + Second)
    BY Types DEF IInv, ActiveInv
  <2>2. CASE e = d
    <3>1. r.devices[e] = MarkStale(roster.devices[e], clock)
      BY <1>2, <1>5, <2>2
    <3> QED
      BY <1>2, <2>1, <3>1, MarkStaleFacts
  <2>3. CASE e # d
    <3>1. r.devices[e] = roster.devices[e]
      BY <1>2, <1>5, <2>1, <2>3
    <3> QED
      BY <1>6, <2>1, <3>1
  <2> QED
    BY <2>2, <2>3
<1>7. r.user \in Time => r.user = roster.user
  BY <1>4, <1>5 DEF Fresh, Time
<1>8. /\ sess' \in [Device -> {"none", "unsent", "shared"}] /\ identity' \in [Device -> Identity]
      /\ active' \in [Remote -> 0 .. MaxTime]
  BY <1>1 DEF IInv, TypeOK
<1>9. \A e \in Remote :
        /\ active'[e] = active[e]
        /\ r.user \in Time => active'[e] < r.user + Second
        /\ r.devices[e] \in Time => active'[e] < r.devices[e] + Second
  BY <1>1, <1>6, <1>7 DEF IInv, ActiveInv
<1> QED
  BY <1>1, <1>5, <1>8, <1>9, SetRosterIInv

LEMMA PruneStaleIInv ==
  ASSUME IInv, PruneStale
  PROVE  IInv'
<1> DEFINE r == PrunedRoster
<1>1. /\ SetRoster(r) /\ UNCHANGED <<real, clock, calls, active>>
      /\ \E forgotten : identity' = [d \in Device |-> IF d \in forgotten THEN NoIdentity ELSE identity[d]]
      /\ \E closed : sess' = [d \in Device |-> IF d \in closed THEN "none" ELSE sess[d]]
  BY DEF PruneStale
<1>2. roster \in [user : Record, devices : [Device -> Record]]
  BY DEF IInv, TypeOK
<1>3. /\ r \in [user : Record, devices : [Device -> Record]]
      /\ r.user \in {Absent, roster.user}
      /\ \A d \in Device : r.devices[d] \in {Absent, roster.devices[d]}
  BY <1>2, PrunedFacts
<1> HIDE DEF r
<1>4. Absent \notin Time /\ Remote \subseteq Device
  BY DEF Absent, Time, Remote
<1>5. NoIdentity \in Identity
  BY Constants DEF NoIdentity, Identity
<1>6. sess' \in [Device -> {"none", "unsent", "shared"}] /\ identity' \in [Device -> Identity]
  BY <1>1, <1>5 DEF IInv, TypeOK
<1>7. active' \in [Remote -> 0 .. MaxTime]
  BY <1>1 DEF IInv, TypeOK
<1>8. \A e \in Remote :
        /\ active'[e] = active[e]
        /\ r.user \in Time => active'[e] < r.user + Second
        /\ r.devices[e] \in Time => active'[e] < r.devices[e] + Second
  BY <1>1, <1>3, <1>4 DEF IInv, ActiveInv
<1> QED
  BY <1>1, <1>3, <1>6, <1>7, <1>8, SetRosterIInv

\* A step that leaves the roster and the call alone.
LEMMA BesideIInv ==
  ASSUME IInv, UNCHANGED <<roster, call, calls, active>>,
         sess' \in [Device -> {"none", "unsent", "shared"}], identity' \in [Device -> Identity],
         real' \in [Device -> 1 .. MaxReinstalls + 1],
         clock' \in Time, clock <= clock'
  PROVE  IInv'
<1>1. TypeOK'
  BY DEF IInv, TypeOK
<1>2. clock \in Nat /\ clock' \in Nat /\ call.now \in Nat /\ \A d \in Remote : active[d] \in Nat
  BY Types DEF IInv, Time
<1>3. ClockInv'
  BY <1>2, Constants DEF IInv, ClockInv
<1>4. ActiveInv'
  BY <1>2 DEF IInv, ActiveInv
<1>5. BundlesInv' /\ ServedInv'
  BY DEF IInv, BundlesInv, ServedInv
<1> QED
  BY <1>1, <1>3, <1>4, <1>5 DEF IInv

LEMMA DecryptMessageIInv ==
  ASSUME IInv, NEW d \in Remote, DecryptMessage(d)
  PROVE  IInv'
<1>1. UNCHANGED <<roster, real, clock, call, calls, active>>
  BY DEF DecryptMessage
<1>2. /\ d \in Device /\ sess \in [Device -> {"none", "unsent", "shared"}]
      /\ identity \in [Device -> Identity] /\ real[d] \in 1 .. MaxReinstalls + 1
      /\ clock \in Time /\ clock \in Nat
  BY Types DEF IInv, TypeOK, Remote
<1>3. CASE sess' \in EnforceSessionLimit(sess, d) /\ identity' = identity
  <2>1. sess' \in [Device -> {"none", "unsent", "shared"}]
    BY <1>2, <1>3, LimitFacts
  <2> QED
    BY <1>1, <1>2, <1>3, <2>1, BesideIInv DEF IInv, TypeOK
<1>4. ASSUME NEW k \in 1 .. real[d],
             sess' \in EnforceSessionLimit([sess EXCEPT ![d] = "shared"], d),
             identity' = [identity EXCEPT ![d] = SaveIdentity(@, [key |-> k, signing |-> FALSE])]
      PROVE  IInv'
  <2>1. [sess EXCEPT ![d] = "shared"] \in [Device -> {"none", "unsent", "shared"}]
    BY <1>2
  <2>2. sess' \in [Device -> {"none", "unsent", "shared"}]
    BY <1>2, <1>4, <2>1, LimitFacts
  <2>3. [key |-> k, signing |-> FALSE] \in Identity
    BY <1>2, Constants DEF Identity
  <2>4. SaveIdentity(identity[d], [key |-> k, signing |-> FALSE]) \in Identity
    BY <1>2, <2>3, SaveFacts
  <2>5. identity' \in [Device -> Identity]
    BY <1>2, <1>4, <2>4
  <2> QED
    BY <1>1, <1>2, <2>2, <2>5, BesideIInv DEF IInv, TypeOK
<1> QED
  BY <1>3, <1>4 DEF DecryptMessage

LEMMA ReinstallIInv ==
  ASSUME IInv, NEW d \in Remote, Reinstall(d)
  PROVE  IInv'
<1>1. real' \in [Device -> 1 .. MaxReinstalls + 1]
  <2>1. d \in Device /\ real[d] \in Nat /\ real[d] >= 1 /\ real[d] <= MaxReinstalls
    BY Types DEF IInv, Reinstall, Remote
  <2>2. real[d] + 1 \in 1 .. MaxReinstalls + 1
    BY <2>1, Constants
  <2> QED
    BY <2>1, <2>2 DEF IInv, TypeOK, Reinstall
<1>2. clock \in Nat
  BY Types DEF IInv
<1> QED
  BY <1>1, <1>2, BesideIInv DEF IInv, TypeOK, Reinstall

LEMMA AcceptIdentityIInv ==
  ASSUME IInv, NEW d \in Remote, AcceptIdentity(d)
  PROVE  IInv'
<1>1. d \in Device /\ identity \in [Device -> Identity] /\ FullIdentity(d) \in Identity /\ clock \in Nat
  BY Types DEF IInv, TypeOK, Remote
<1>2. SaveIdentity(identity[d], FullIdentity(d)) \in Identity
  BY <1>1, SaveFacts
<1>3. identity' \in [Device -> Identity]
  BY <1>1, <1>2 DEF AcceptIdentity
<1> QED
  BY <1>1, <1>3, BesideIInv DEF IInv, TypeOK, AcceptIdentity

LEMMA TickIInv ==
  ASSUME IInv, Tick
  PROVE  IInv'
<1>1. clock' \in Time /\ clock <= clock'
  BY Constants DEF IInv, TypeOK, Tick, Time
<1> QED
  BY <1>1, BesideIInv DEF IInv, TypeOK, Tick

-----------------------------------------------------------------------------
(* The theorems. *)

LEMMA InitIInv == Init => IInv
<1> SUFFICES ASSUME Init
             PROVE  IInv
  OBVIOUS
<1>1. TypeOK
  <2>1. /\ Absent \in Record /\ Second \in Time /\ NoIdentity \in Identity
        /\ 1 \in 1 .. MaxReinstalls + 1 /\ 0 \in 0 .. MaxCalls /\ 0 \in 0 .. MaxTime
    BY Constants DEF Record, Time, NoIdentity, Identity
  <2>2. roster \in [user : Record, devices : [Device -> Record]]
    BY <2>1 DEF Init, Empty
  <2>3. call \in Call
    BY IdleFacts DEF Init
  <2> QED
    BY <2>1, <2>2, <2>3 DEF Init, TypeOK, Call
<1>2. ClockInv
  BY Constants, IdleFacts DEF Init, ClockInv
<1>3. BundlesInv /\ ServedInv
  BY IdleFacts DEF Init, BundlesInv, ServedInv
<1>4. ActiveInv
  <2>1. Absent \notin Time /\ Remote \subseteq Device
    BY DEF Absent, Time, Remote
  <2> QED
    BY <2>1, Constants, IdleFacts DEF Init, ActiveInv, Empty
<1> QED
  BY <1>1, <1>2, <1>3, <1>4 DEF IInv

LEMMA NextIInv ==
  ASSUME IInv, [Next]_vars
  PROVE  IInv'
<1>1. CASE UNCHANGED vars
  BY <1>1 DEF vars, IInv, TypeOK, ClockInv, BundlesInv, ActiveInv, ServedInv
<1>2. CASE Next
  BY <1>2, StartIInv, FetchRosterIInv, SnapshotIInv, CollectBundleIInv, CollectDoneIInv,
     CheckSessionsIInv, EncryptDeviceIInv, ReturnIInv, DecryptMessageIInv, MarkDeviceStaleIInv,
     ReinstallIInv, AcceptIdentityIInv, TouchDeviceIInv, MarkUserStaleIInv, PruneStaleIInv, TickIInv
  DEF Next, CallStep
<1> QED
  BY <1>1, <1>2

\* The inductive invariant holds in every state of every behaviour.
THEOREM Invariance == Spec => []IInv
BY InitIInv, NextIInv, PTL DEF Spec

\* Every variable keeps its type, and EncryptWithRoster never makes more than
\* maxSendAttempts attempts.
THEOREM TypeCorrect == Spec => []TypeOK
BY Invariance, PTL DEF IInv

\* EncryptWithRoster never returns without a ciphertext for a device of the
\* roster it fetched that is still in it.
THEOREM EveryDeviceServed == Spec => []AllNonStaleServed
<1>1. IInv => AllNonStaleServed
  BY DEF IInv, ServedInv, AllNonStaleServed, Returning
<1> QED
  BY Invariance, <1>1, PTL

\* A step after which a stored identity is forgotten.
Forgets(d) == identity[d] # NoIdentity /\ identity'[d] = NoIdentity

\* Saving an identity forgets none: every identity that is saved has a key.
LEMMA SavingForgetsNone ==
  ASSUME IInv, NEW d \in Device, NEW id \in Identity, id.key >= 1,
         identity' = [identity EXCEPT ![d] = SaveIdentity(@, id)], NEW e \in Device
  PROVE  ~Forgets(e)
<1>1. identity \in [Device -> Identity] /\ id.key # 0
  BY Constants DEF IInv, TypeOK, Identity
<1>2. SaveIdentity(identity[d], id).key = id.key
  BY <1>1, SaveFacts
<1>3. SaveIdentity(identity[d], id) # NoIdentity
  <2>1. NoIdentity.key = 0
    BY DEF NoIdentity
  <2> QED
    BY <1>1, <1>2, <2>1
<1> QED
  BY <1>1, <1>3 DEF Forgets

LEMMA EncryptForgetsNone ==
  ASSUME IInv, EncryptDevice, NEW e \in Device
  PROVE  ~Forgets(e)
<1>1. PICK d \in Device :
        \/ UsesBundle(d) /\ EncryptWithBundle(d)
        \/ identity' = identity
  BY DEF EncryptDevice, EncryptWithSession
<1>2. CASE UsesBundle(d) /\ EncryptWithBundle(d)
  <2>1. call.pc = "encrypt" /\ call.bundles[d] \in Identity
    BY Types DEF EncryptDevice, IInv
  <2>2. call.bundles[d] # NoIdentity
    BY <1>2, <2>1 DEF UsesBundle, IInv, BundlesInv
  <2>3. call.bundles[d].key >= 1
    BY <2>2 DEF IInv, BundlesInv
  <2>4. identity' = [identity EXCEPT ![d] = SaveIdentity(@, call.bundles[d])]
    BY <1>2 DEF EncryptWithBundle
  <2> QED
    BY <2>1, <2>3, <2>4, SavingForgetsNone
<1> QED
  BY <1>1, <1>2 DEF Forgets

LEMMA DecryptForgetsNone ==
  ASSUME IInv, NEW d \in Remote, DecryptMessage(d), NEW e \in Device
  PROVE  ~Forgets(e)
<1>1. CASE identity' = identity
  BY <1>1 DEF Forgets
<1>2. ASSUME NEW k \in 1 .. real[d],
             identity' = [identity EXCEPT ![d] = SaveIdentity(@, [key |-> k, signing |-> FALSE])]
      PROVE  ~Forgets(e)
  <2> DEFINE id == [key |-> k, signing |-> FALSE]
  <2>1. d \in Device /\ real[d] \in 1 .. MaxReinstalls + 1
    BY DEF IInv, TypeOK, Remote
  <2>2. id \in Identity /\ id.key >= 1
    BY <2>1, Constants DEF Identity
  <2>3. identity' = [identity EXCEPT ![d] = SaveIdentity(@, id)]
    BY <1>2
  <2> HIDE DEF id
  <2> QED
    BY <2>1, <2>2, <2>3, SavingForgetsNone
<1> QED
  BY <1>1, <1>2 DEF DecryptMessage

LEMMA AcceptForgetsNone ==
  ASSUME IInv, NEW d \in Remote, AcceptIdentity(d), NEW e \in Device
  PROVE  ~Forgets(e)
<1>1. d \in Device /\ FullIdentity(d) \in Identity /\ real[d] >= 1
  BY Types DEF IInv, Remote
<1>2. FullIdentity(d).key >= 1
  BY <1>1 DEF FullIdentity
<1> QED
  BY <1>1, <1>2, SavingForgetsNone DEF AcceptIdentity

\* What PruneStale forgets has been stale for maxLatency, and not active since.
LEMMA PruneForgetsInactive ==
  ASSUME IInv, PruneStale, NEW d \in Remote, Forgets(d)
  PROVE  clock - active[d] > MaxLatency - Second
<1>1. /\ clock \in Nat /\ active[d] \in Nat /\ d \in Device /\ MaxLatency \in Nat /\ Second \in Nat
      /\ roster.user \in Time => active[d] < roster.user + Second
      /\ roster.devices[d] \in Time => active[d] < roster.devices[d] + Second
  BY Types, Constants DEF IInv, ActiveInv
<1>2. PruneUser \/ d \in Pruned
  BY <1>1 DEF PruneStale, Forgets
<1>3. \E since \in Time : clock - since >= MaxLatency /\ active[d] < since + Second
  <2>1. CASE PruneUser
    BY <1>1, <2>1 DEF PruneUser, shouldPrune
  <2>2. CASE d \in Pruned
    BY <1>1, <2>2 DEF Pruned, shouldPrune
  <2> QED
    BY <1>2, <2>1, <2>2
<1> QED
  BY <1>1, <1>3 DEF Time

\* PruneStale, and no other operation, forgets an identity, and only that of a
\* device which was neither listed nor touched for maxLatency, up to a second.
THEOREM PrunesOnlyInactive == Spec => PrunedOnlyIfInactive
<1>1. ASSUME IInv, [Next]_vars, NEW d \in Remote, Forgets(d)
      PROVE  clock - active[d] > MaxLatency - Second
  <2>1. d \in Device
    BY DEF Remote
  <2>2. identity' # identity
    BY <1>1 DEF Forgets
  <2>3. \/ EncryptDevice
        \/ \E e \in Remote : DecryptMessage(e) \/ AcceptIdentity(e)
        \/ PruneStale
    BY <1>1, <2>2
    DEF Next, vars, CallStep, Start, FetchRoster, Snapshot, CollectBundle, CollectDone, CheckSessions,
        Return, MarkDeviceStale, Reinstall, TouchDevice, MarkUserStale, Tick
  <2> QED
    BY <1>1, <2>1, <2>3, EncryptForgetsNone, DecryptForgetsNone, AcceptForgetsNone, PruneForgetsInactive
<1>2. IInv /\ [Next]_vars =>
        [\A d \in Remote : identity[d] # NoIdentity /\ identity'[d] = NoIdentity
                             => clock - active[d] > MaxLatency - Second]_vars
  BY <1>1 DEF Forgets
<1> QED
  BY Invariance, <1>2, PTL DEF Spec, PrunedOnlyIfInactive
===============================================================================
