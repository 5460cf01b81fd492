-------------------------------- MODULE Sesame --------------------------------
(***************************************************************************)
(* Multi-device messaging (package sesame): the roster that the local      *)
(* device keeps of one user's devices, and the Conversation that encrypts  *)
(* to all of them.  Manager operations are atomic (they hold its mutex);   *)
(* one EncryptWithRoster call runs step by step between them, between      *)
(* received messages, and between the answers of the roster provider.      *)
(*                                                                         *)
(* A session is reduced to what the roster logic tells apart: none, one    *)
(* the device shares or will get the pre-key message of ("shared"), or one *)
(* whose pre-key message no call has returned yet ("unsent").              *)
(***************************************************************************)
EXTENDS Integers, FiniteSets

CONSTANTS
  Device,       \* device ids of the user
  LocalDevice,  \* the local device, if the user is the local one; else no member of Device
  MaxLatency,   \* maxLatency: how long stale records are kept, in ticks
  Second,       \* ticks of the clock in one second
  MaxAttempts,  \* maxSendAttempts
  MaxSessions,  \* maxSessionsPerName of the store
  MaxTime,      \* bound: the clock stops here
  MaxCalls,     \* bound: calls of EncryptWithRoster
  MaxReinstalls,\* bound: how often devices change their identity
  Senders,      \* bound: the devices that send messages
  Marked,       \* bound: the devices the application marks stale
  Reinstalled   \* bound: the devices that change their identity

Remote == Device \ {LocalDevice}

ASSUME SesameAssumption ==
  /\ Device \subseteq Nat \ {0}
  /\ {MaxLatency, Second, MaxAttempts, MaxSessions, MaxTime} \subseteq Nat \ {0}
  /\ Second <= MaxTime
  /\ MaxCalls \in Nat
  /\ MaxReinstalls \in Nat
  /\ Senders \cup Marked \cup Reinstalled \subseteq Remote

VARIABLES
  roster,    \* the stored Sesame state of the user
  sess,      \* sess[d]: the stored session of device d
  identity,  \* identity[d]: the stored identity of device d
  real,      \* real[d]: the identity key device d has now
  clock,     \* the time callers pass as now
  call,      \* the running EncryptWithRoster
  calls,     \* number of calls so far
  active     \* active[d]: when d was last listed or touched (history)

vars == <<roster, sess, identity, real, clock, call, calls, active>>

\* A record's stale and staleSince are always set together: a time, or Fresh.
Absent == -1
Fresh == 0
Time == 1 .. MaxTime
Record == {Absent, Fresh} \cup Time

\* signing is FALSE when SigningPublic is zero: a pre-key message carries only PublicKey.
Identity == [key : 0 .. MaxReinstalls + 1, signing : BOOLEAN]
NoIdentity == [key |-> 0, signing |-> FALSE]
FullIdentity(d) == [key |-> real[d], signing |-> TRUE]

Idle == [pc |-> "idle", attempt |-> 0, now |-> 0, todo |-> {}, needs |-> {},
         bundles |-> [d \in Device |-> NoIdentity], missing |-> FALSE,
         out |-> [d \in Device |-> "none"], steady |-> {}]

-----------------------------------------------------------------------------
(* The store. *)

IsTrustedIdentity(stored, id) ==
  \/ stored = NoIdentity
  \/ /\ stored.key = id.key
     /\ stored.signing = id.signing \/ ~stored.signing \/ ~id.signing

\* SaveIdentity keeps a signing key that the new identity lacks.
SaveIdentity(stored, id) == [id EXCEPT !.signing = @ \/ stored.signing]

\* EnforceSessionLimit drops sessions of other devices, in any order.
EnforceSessionLimit(ss, d) ==
  LET held == {e \in Device : ss[e] # "none"}
      over == Cardinality(held) - MaxSessions
      drop == IF over > Cardinality(held \ {d}) THEN Cardinality(held \ {d}) ELSE over
  IN  IF over <= 0 THEN {ss}
      ELSE {[e \in Device |-> IF e \in gone THEN "none" ELSE ss[e]] :
              gone \in {g \in SUBSET (held \ {d}) : Cardinality(g) = drop}}

-----------------------------------------------------------------------------
(* The manager. *)

Empty == [user |-> Absent, devices |-> [d \in Device |-> Absent]]

NonStaleDevices(r) ==
  IF r.user # Fresh THEN {} ELSE {d \in Remote : r.devices[d] = Fresh}

\* A time is stored in whole seconds.
Stored(now) == now - (now % Second)

\* The time a record becomes stale is kept when it is stale already.
MarkStale(rec, now) == IF rec \in Time THEN rec ELSE Stored(now)

\* The roster after ApplyDeviceList: every known device is listed or stale.
Applied(r, listed, now) ==
  [user |-> Fresh,
   devices |-> [d \in Device |->
     IF d \in listed \cap Remote THEN Fresh
     ELSE IF d \in listed \/ r.devices[d] = Absent THEN r.devices[d]
     ELSE MarkStale(r.devices[d], now)]]

\* Both keys are compared, a missing signing key too.
identityEqual(a, b) == a = b

\* The listed devices whose stored identity is not the listed one.
IdentityChanged(listed, withKeys) ==
  {d \in listed \cap Remote :
     withKeys /\ identity[d] # NoIdentity /\ ~identityEqual(identity[d], FullIdentity(d))}

\* Mutant: the user record stays stale.
Touched_userStaysStale(r, d) ==
  [user |-> IF r.user = Absent THEN Fresh ELSE r.user,
   devices |-> IF d = LocalDevice THEN r.devices ELSE [r.devices EXCEPT ![d] = Fresh]]

Touched(r, d) ==
  [user |-> Fresh,
   devices |-> IF d = LocalDevice THEN r.devices ELSE [r.devices EXCEPT ![d] = Fresh]]

shouldPrune(since) == since \in Time /\ clock - since >= MaxLatency

PruneUser == shouldPrune(roster.user)
Pruned == {d \in Device : shouldPrune(roster.devices[d])}

\* A user goes with its own staleness, or with its last device.
PrunedRoster ==
  LET devices == [d \in Device |-> IF d \in Pruned THEN Absent ELSE roster.devices[d]]
  IN  IF PruneUser \/ (roster.user = Fresh /\ \A d \in Device : devices[d] = Absent) THEN Empty
      ELSE [roster EXCEPT !.devices = devices]

-----------------------------------------------------------------------------
(* Initial state; the effect of manager operations on the variables. *)

Init ==
  /\ roster = Empty
  /\ sess = [d \in Device |-> "none"]
  /\ identity = [d \in Device |-> NoIdentity]
  /\ real = [d \in Device |-> 1]
  /\ clock = Second
  /\ call = Idle
  /\ calls = 0
  /\ active = [d \in Remote |-> 0]

\* A running call marks devices with the time it started at.
Now == IF call.pc = "idle" THEN clock ELSE call.now

\* A manager operation outside the call stores the roster r.
SetRoster(r) ==
  /\ roster' = r
  /\ call' = [call EXCEPT !.steady = @ \cap NonStaleDevices(r)]

ApplyDeviceList(listed, withKeys) ==
  /\ roster' = Applied(roster, listed, call.now)
  /\ sess' = [d \in Device |-> IF d \in IdentityChanged(listed, withKeys) THEN "none" ELSE sess[d]]
  /\ active' = [d \in Remote |-> IF d \in listed THEN Now ELSE active[d]]

-----------------------------------------------------------------------------
(* One EncryptWithRoster call. *)

Start ==
  /\ call.pc = "idle"
  /\ calls < MaxCalls
  /\ calls' = calls + 1
  /\ call' = [Idle EXCEPT !.pc = "roster", !.attempt = 1, !.now = clock]
  /\ UNCHANGED <<roster, sess, identity, real, clock, active>>

\* Mutants: one attempt too many; attempts that are not counted.
NextAttempt_oneMore ==
  call' = IF call.attempt > MaxAttempts THEN Idle
          ELSE [Idle EXCEPT !.pc = "roster", !.attempt = call.attempt + 1, !.now = call.now]
NextAttempt_uncounted ==
  call' = [Idle EXCEPT !.pc = "roster", !.attempt = call.attempt, !.now = call.now]

\* The provider said ErrRosterChanged: everything gathered so far is dropped.
NextAttempt ==
  call' = IF call.attempt = MaxAttempts THEN Idle
          ELSE [Idle EXCEPT !.pc = "roster", !.attempt = call.attempt + 1, !.now = call.now]

\* The provider's DeviceList fails, or its answer goes to ApplyDeviceList.
FetchRoster ==
  /\ call.pc = "roster"
  /\ \/ /\ NextAttempt \/ call' = Idle
        /\ UNCHANGED <<roster, sess, active>>
     \/ \E listed \in SUBSET Device, withKeys \in BOOLEAN :
          /\ ApplyDeviceList(listed, withKeys)
          /\ call' = IF IdentityChanged(listed, withKeys) # {} THEN Idle
                     ELSE [call EXCEPT !.pc = "snapshot", !.steady = listed \cap Remote]
  /\ UNCHANGED <<identity, real, clock, calls>>

Snapshot ==
  /\ call.pc = "snapshot"
  /\ call' = [call EXCEPT !.pc = "collect", !.todo = NonStaleDevices(roster)]
  /\ UNCHANGED <<roster, sess, identity, real, clock, calls, active>>

sessionReady(d) == sess[d] # "none"

\* Addresses are sorted: the loops take the lowest device next.
NextDevice(d) == d \in call.todo /\ \A e \in call.todo : d <= e

\* One turn of the loop that asks the provider for missing bundles.
CollectBundle ==
  /\ call.pc = "collect"
  /\ \E d \in Device :
       /\ NextDevice(d)
       /\ \/ /\ sessionReady(d)
             /\ call' = [call EXCEPT !.todo = @ \ {d}]
          \/ /\ ~sessionReady(d)
             /\ \/ call' = [call EXCEPT !.todo = @ \ {d}, !.bundles[d] = FullIdentity(d)]
                \/ call' = [call EXCEPT !.todo = @ \ {d}, !.missing = TRUE]
                \/ NextAttempt
                \/ call' = Idle
  /\ UNCHANGED <<roster, sess, identity, real, clock, calls, active>>

CollectDone ==
  /\ call.pc = "collect"
  /\ call.todo = {}
  /\ call' = IF call.missing THEN Idle ELSE [call EXCEPT !.pc = "check"]
  /\ UNCHANGED <<roster, sess, identity, real, clock, calls, active>>

\* Conversation.Encrypt asks for the devices again and looks for their sessions.
CheckSessions ==
  LET addrs == NonStaleDevices(roster)
      needs == {d \in addrs : ~sessionReady(d)}
  IN  /\ call.pc = "check"
      /\ call' = IF \E d \in needs : call.bundles[d] = NoIdentity THEN Idle
                 ELSE [call EXCEPT !.pc = "encrypt", !.todo = addrs, !.needs = needs]
      /\ UNCHANGED <<roster, sess, identity, real, clock, calls, active>>

\* A ciphertext for d joins the result; one under an unsent session cannot be read.
Produce(d, kind) == call' = [call EXCEPT !.todo = @ \ {d}, !.out[d] = kind]

EncryptWithBundle(d) ==
  /\ sess[d] = "none"
  /\ IsTrustedIdentity(identity[d], call.bundles[d])
  /\ sess' \in EnforceSessionLimit([sess EXCEPT ![d] = "unsent"], d)
  /\ identity' = [identity EXCEPT ![d] = SaveIdentity(@, call.bundles[d])]
  /\ Produce(d, "prekey")

EncryptWithSession(d) ==
  /\ sess[d] # "none"
  /\ sess' \in EnforceSessionLimit(sess, d)
  /\ Produce(d, IF sess[d] = "unsent" THEN "lost" ELSE "signal")
  /\ UNCHANGED identity

UsesBundle(d) ==
  d \in call.needs \/ (sess[d] = "none" /\ call.bundles[d] # NoIdentity)

EncryptError(d) ==
  IF UsesBundle(d)
  THEN sess[d] # "none" \/ ~IsTrustedIdentity(identity[d], call.bundles[d])
  ELSE sess[d] = "none"

\* Mutant: an error at one device skips that device and goes on.
EncryptDevice_skips ==
  /\ call.pc = "encrypt"
  /\ \E d \in Device :
       /\ NextDevice(d)
       /\ \/ UsesBundle(d) /\ EncryptWithBundle(d)
          \/ ~UsesBundle(d) /\ EncryptWithSession(d)
          \/ EncryptError(d) /\ Produce(d, "none") /\ UNCHANGED <<sess, identity>>
  /\ UNCHANGED <<roster, real, clock, calls, active>>

\* One turn of the encryption loop; an error discards the ciphertexts made so far.
EncryptDevice ==
  /\ call.pc = "encrypt"
  /\ \E d \in Device :
       /\ NextDevice(d)
       /\ \/ UsesBundle(d) /\ EncryptWithBundle(d)
          \/ ~UsesBundle(d) /\ EncryptWithSession(d)
          \/ EncryptError(d) /\ call' = Idle /\ UNCHANGED <<sess, identity>>
  /\ UNCHANGED <<roster, real, clock, calls, active>>

\* The ciphertexts reach the caller, who sends them.
Returning == call.pc = "encrypt" /\ call.todo = {}
Return ==
  /\ Returning
  /\ sess' = [d \in Device |-> IF call.out[d] = "prekey" /\ sess[d] = "unsent" THEN "shared" ELSE sess[d]]
  /\ call' = Idle
  /\ UNCHANGED <<roster, identity, real, clock, calls, active>>

CallStep ==
  FetchRoster \/ Snapshot \/ CollectBundle \/ CollectDone \/ CheckSessions \/ EncryptDevice \/ Return

-----------------------------------------------------------------------------
(* Conversation.Decrypt: the cipher first, the roster in a second step. *)

\* A message opened under d's session, or a pre-key message of a trusted identity
\* (d's present one, or an earlier one if the message is old).
DecryptMessage(d) ==
  /\ d \in Senders
  /\ \/ /\ sess[d] = "shared"
        /\ sess' \in EnforceSessionLimit(sess, d)
        /\ UNCHANGED identity
     \/ \E k \in 1 .. real[d] :
          LET id == [key |-> k, signing |-> FALSE] IN
          /\ IsTrustedIdentity(identity[d], id)
          /\ sess' \in EnforceSessionLimit([sess EXCEPT ![d] = "shared"], d)
          /\ identity' = [identity EXCEPT ![d] = SaveIdentity(@, id)]
  /\ UNCHANGED <<roster, real, clock, call, calls, active>>

\* Called by Decrypt after the cipher (it may fail, or never run), and by applications.
TouchDevice(d) ==
  /\ SetRoster(Touched(roster, d))
  /\ active' = [e \in Remote |-> IF e = d THEN Now ELSE active[e]]
  /\ UNCHANGED <<sess, identity, real, clock, calls>>

-----------------------------------------------------------------------------
(* The manager's other operations, called by the application. *)

\* getOrCreateUser: a new record is not stale.
Known(r) == [r EXCEPT !.user = IF @ = Absent THEN Fresh ELSE @]

MarkUserStale ==
  /\ SetRoster([roster EXCEPT !.user = MarkStale(@, clock)])
  /\ UNCHANGED <<sess, identity, real, clock, calls, active>>

MarkDeviceStale(d) ==
  /\ d \in Marked
  /\ SetRoster([Known(roster) EXCEPT !.devices[d] = MarkStale(@, clock)])
  /\ UNCHANGED <<sess, identity, real, clock, calls, active>>

\* A stale user loses every session, and its recorded devices their identities;
\* otherwise each stale device loses both.
PruneStale ==
  LET forgotten == IF PruneUser THEN {d \in Device : roster.devices[d] # Absent} ELSE Pruned
      closed == IF PruneUser THEN Device ELSE Pruned
  IN  /\ identity' = [d \in Device |-> IF d \in forgotten THEN NoIdentity ELSE identity[d]]
      /\ sess' = [d \in Device |-> IF d \in closed THEN "none" ELSE sess[d]]
      /\ SetRoster(PrunedRoster)
      /\ UNCHANGED <<real, clock, calls, active>>

-----------------------------------------------------------------------------
(* The environment. *)

\* A device is set up anew, with another identity key.
Reinstall(d) ==
  /\ d \in Reinstalled
  /\ \A e \in Device : real[e] <= MaxReinstalls
  /\ real' = [real EXCEPT ![d] = @ + 1]
  /\ UNCHANGED <<roster, sess, identity, clock, call, calls, active>>

\* The application trusts the identity that d has now.
AcceptIdentity(d) ==
  /\ identity[d].key \notin {0, real[d]}
  /\ identity' = [identity EXCEPT ![d] = SaveIdentity(@, FullIdentity(d))]
  /\ UNCHANGED <<roster, sess, real, clock, call, calls, active>>

Tick ==
  /\ clock < MaxTime
  /\ clock' = clock + 1
  /\ UNCHANGED <<roster, sess, identity, real, call, calls, active>>

Next ==
  \/ Start
  \/ CallStep
  \/ \E d \in Remote :
       DecryptMessage(d) \/ MarkDeviceStale(d) \/ Reinstall(d) \/ AcceptIdentity(d)
  \/ \E d \in Device : TouchDevice(d)
  \/ MarkUserStale
  \/ PruneStale
  \/ Tick

\* The call runs in its caller's goroutine, and the provider answers or fails.
Spec == Init /\ [][Next]_vars /\ WF_vars(CallStep)

-----------------------------------------------------------------------------
(* Properties. *)

\* Every variable holds a value of its type; an attempt is never past maxSendAttempts.
TypeOK ==
  /\ roster \in [user : Record, devices : [Device -> Record]]
  /\ sess \in [Device -> {"none", "unsent", "shared"}]
  /\ identity \in [Device -> Identity]
  /\ real \in [Device -> 1 .. MaxReinstalls + 1]
  /\ clock \in Time
  /\ call \in [pc : {"idle", "roster", "snapshot", "collect", "check", "encrypt"},
               attempt : 0 .. MaxAttempts, now : 0 .. MaxTime,
               todo : SUBSET Device, needs : SUBSET Device,
               bundles : [Device -> Identity], missing : BOOLEAN,
               out : [Device -> {"none", "prekey", "signal", "lost"}], steady : SUBSET Device]
  /\ calls \in 0 .. MaxCalls
  /\ active \in [Remote -> 0 .. MaxTime]

\* PruneStale forgets the identity of a device only when it was neither listed nor
\* touched within the last maxLatency, less the second that storing the time may
\* lose, whatever was marked stale, touched and listed before.  While a call runs,
\* a listing counts from the now that the call was given.  Decrypting alone does
\* not count: Conversation.Decrypt touches the device in a second step.
PrunedOnlyIfInactive ==
  [][\A d \in Remote :
       identity[d] # NoIdentity /\ identity'[d] = NoIdentity => clock - active[d] > MaxLatency - Second]_vars

\* A call that returns ciphertexts has one for every device of the roster it
\* fetched last that was not marked stale or pruned meanwhile, whatever sessions
\* appeared or went in between: a device is never skipped without an error.
AllNonStaleServed ==
  Returning => \A d \in call.steady : call.out[d] # "none"

\* However often the provider says that the roster changed, and whatever goes on
\* beside it, a call of EncryptWithRoster returns.
CallReturns == call.pc # "idle" ~> call.pc = "idle"

\* A roster that lists a device with an identity the store trusts leaves its session
\* alone: only keys that do not match the trusted identity delete it.
RosterKeepsTrustedSession ==
  [][\A d \in Device :
       /\ FetchRoster
       /\ sess[d] # "none"
       /\ IsTrustedIdentity(identity[d], FullIdentity(d))
       => sess'[d] # "none"]_vars
===============================================================================
