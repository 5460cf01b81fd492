---------------------------- MODULE DoubleRatchet ----------------------------
(***************************************************************************)
(* The Double Ratchet of package ratchet: two parties that share an X3DH   *)
(* result exchange messages over a network that may lose, duplicate,       *)
(* reorder and corrupt them.                                               *)
(*                                                                         *)
(* Keys are symbolic.  A public key is <<owner, index>>, the DH output of  *)
(* two key pairs is the set of the two public keys (it is symmetric), and  *)
(* a root key is the sequence of DH outputs that were mixed into the X3DH  *)
(* secret << >>.  A chain key is the root step it was derived in and the   *)
(* number of KDFChain steps since; a message key is the pair of the two.   *)
(* Two keys are equal in the model iff the code derives them in the same   *)
(* way, which is what the KDFs guarantee.                                  *)
(***************************************************************************)
EXTENDS Integers, Sequences, FiniteSets

CONSTANTS
  Alice,       \* the initiator of the X3DH agreement
  Bob,         \* its responder
  MaxSkip,     \* ratchet.MaxSkip, the limit on stored skipped keys
  MaxCounter,  \* math.MaxUint32, the last value of a message counter
  MaxKeys,     \* bound: a party's key generator fails after this many keys
  CorruptNumbers  \* the message numbers a damaged header may carry

ASSUME ConstantsAssumption ==
  /\ Alice # Bob
  /\ MaxSkip \in Nat
  /\ MaxCounter \in Nat
  /\ MaxKeys \in Nat
  /\ CorruptNumbers \subseteq 0 .. MaxCounter

VARIABLES
  st,         \* st[p]: the ratchet.State of party p
  keys,       \* keys[p]: number of key pairs that p has generated
  net,        \* every message ever sent; it may arrive at any time, any number of times
  delivered,  \* delivered[p]: the messages p has decrypted (history)
  plaintexts  \* plaintexts[p]: how many plaintexts Decrypt has returned to p (history)

vars == <<st, keys, net, delivered, plaintexts>>

Party == {Alice, Bob}
Peer(p) == IF p = Alice THEN Bob ELSE Alice

PublicKey == Party \X Nat
RootKey == Seq(SUBSET PublicKey)
ChainKey == [root : RootKey, n : Nat]
MessageKey == RootKey \X Nat
Header == [DH : PublicKey, PN : Nat, N : Nat]
Message == [from : Party, hdr : Header, mk : MessageKey]
SkippedEntry == [DH : PublicKey, N : Nat, mk : MessageKey]

\* The ratchet.State of one party.  DHs stands for the key pair.
State == [DHs : PublicKey, DHr : PublicKey, RK : RootKey,
          CKs : ChainKey, CKr : ChainKey, Ns : Nat, Nr : Nat, PN : Nat,
          MKSkipped : SUBSET SkippedEntry, SeenDH : SUBSET PublicKey]

\* The all-zero array that marks a chain which does not exist yet.
ZeroChain == [root |-> <<{}>>, n |-> 0]

-----------------------------------------------------------------------------
(* Key derivation. *)

DH(ours, theirs) == {ours, theirs}

\* The new root key, which also names the chain key derived with it.
KDFRoot(rk, dhOut) == Append(rk, dhOut)

ChainStart(rk) == [root |-> rk, n |-> 0]

KDFChain(ck, steps) == [ck EXCEPT !.n = @ + steps]

KDFMessageKey(ck) == <<ck.root, ck.n>>

-----------------------------------------------------------------------------
(* Receiving: all operators work on the clone that Decrypt makes of the    *)
(* state, and name a fresh key pair for the ratchet step that needs one.   *)

\* Mutant: the limit tested with > instead of >=.
CanSkip_offByOne(s, until) ==
  until <= s.Nr \/ Cardinality(s.MKSkipped) + (until - s.Nr) <= MaxSkip + 1

\* The loop of skipMessageKeys stops with ErrMaxSkipExceeded when the map is
\* full; its other limit, Nr = MaxUint32, lies beyond every header's number.
CanSkip(s, until) ==
  until <= s.Nr \/ Cardinality(s.MKSkipped) + (until - s.Nr) <= MaxSkip

\* The entries that the loop adds to the map, one per number passed over.
SkippedEntries(s, ns) ==
  {[DH |-> s.DHr, N |-> i, mk |-> <<s.CKr.root, s.CKr.n + (i - s.Nr)>>] : i \in ns}

\* Mutant: the key of the message itself is stored too.
skipMessageKeys_inclusive(s, until) ==
  IF until <= s.Nr THEN s
  ELSE [s EXCEPT !.CKr = KDFChain(s.CKr, until - s.Nr), !.Nr = until,
                 !.MKSkipped = @ \cup SkippedEntries(s, s.Nr .. until)]

skipMessageKeys(s, until) ==
  IF until <= s.Nr THEN s
  ELSE [s EXCEPT
          !.CKr = KDFChain(s.CKr, until - s.Nr),
          !.Nr = until,
          !.MKSkipped = @ \cup SkippedEntries(s, s.Nr .. (until - 1))]

cleanupSkippedKeys(skipped, currentDH) == {e \in skipped : e.DH = currentDH}

\* Mutant: the sending chain is derived from the root key before the step.
DHRatchet_staleRoot(s, theirs, fresh) ==
  LET rkRecv == KDFRoot(s.RK, DH(s.DHs, theirs))
      rkSend == KDFRoot(s.RK, DH(fresh, theirs))
  IN  [DHs |-> fresh, DHr |-> theirs, RK |-> rkSend,
       CKs |-> ChainStart(rkSend), CKr |-> ChainStart(rkRecv),
       Ns |-> 0, Nr |-> 0, PN |-> s.Ns,
       MKSkipped |-> cleanupSkippedKeys(s.MKSkipped, theirs),
       SeenDH |-> s.SeenDH \cup {s.DHr, theirs}]

DHRatchet(s, theirs, fresh) ==
  LET rkRecv == KDFRoot(s.RK, DH(s.DHs, theirs))
      rkSend == KDFRoot(rkRecv, DH(fresh, theirs))
  IN  [DHs |-> fresh, DHr |-> theirs, RK |-> rkSend,
       CKs |-> ChainStart(rkSend), CKr |-> ChainStart(rkRecv),
       Ns |-> 0, Nr |-> 0, PN |-> s.Ns,
       MKSkipped |-> cleanupSkippedKeys(s.MKSkipped, theirs),
       SeenDH |-> s.SeenDH \cup {s.DHr, theirs}]

\* The entry skippedKeyForHeader finds for a header, if any, and its deletion.
SkippedKeys(s, h) == {e \in s.MKSkipped : e.DH = h.DH /\ e.N = h.N}

\* Mutant: the entry stays in the map.
ConsumeSkipped_kept(s, found) == s

ConsumeSkipped(s, found) == [s EXCEPT !.MKSkipped = @ \ found]

Error(s, err) == [err |-> err, st |-> s, mk |-> <<<< >>, 0>>]
Success(s, mk) == [err |-> "none", st |-> s, mk |-> mk]

\* Mutant: the gap of the previous chain is skipped after the ratchet step.
RatchetTo_skipsAfter(s, h, fresh) ==
  IF h.DH = s.DHr THEN s ELSE skipMessageKeys(DHRatchet(s, h.DH, fresh), h.PN)

\* The state the receiving chain is read from once the DH key of h is current.
RatchetTo(s, h, fresh) ==
  IF h.DH = s.DHr THEN s ELSE DHRatchet(skipMessageKeys(s, h.PN), h.DH, fresh)

\* mayGenerate is FALSE when the key generator fails.
AdvanceForHeader(s, h, fresh, mayGenerate) ==
  LET found == SkippedKeys(s, h)
      new   == h.DH # s.DHr
      r     == RatchetTo(s, h, fresh)
      t     == skipMessageKeys(r, h.N)
  IN  IF found # {}
      THEN Success(ConsumeSkipped(s, found), (CHOOSE e \in found : TRUE).mk)
      ELSE IF ~new /\ h.N < s.Nr THEN Error(s, "duplicate")
      ELSE IF new /\ h.DH \in s.SeenDH THEN Error(s, "duplicate")
      ELSE IF new /\ ~CanSkip(s, h.PN) THEN Error(s, "maxskip")
      ELSE IF new /\ ~mayGenerate THEN Error(s, "keygen")
      ELSE IF ~CanSkip(r, h.N) THEN Error(s, "maxskip")
      ELSE IF t.CKr = ZeroChain THEN Error(s, "nochain")
      ELSE IF t.Nr = MaxCounter THEN Error(s, "overflow")
      ELSE Success([t EXCEPT !.CKr = KDFChain(t.CKr, 1), !.Nr = @ + 1],
                   KDFMessageKey(t.CKr))

\* Mutant: the clone is committed although the message does not authenticate.
Decrypted_commitsFirst(s, m, fresh, mayGenerate) ==
  LET out == AdvanceForHeader(s, m.hdr, fresh, mayGenerate)
  IN  IF out.err = "none" /\ out.mk # m.mk THEN Error(out.st, "mac") ELSE out

\* Mutant: the authentication tag is not checked.
Decrypted_unauthenticated(s, m, fresh, mayGenerate) ==
  AdvanceForHeader(s, m.hdr, fresh, mayGenerate)

\* Decrypt commits the clone only when the message authenticates under the
\* derived key; the header is part of the associated data.
Decrypted(s, m, fresh, mayGenerate) ==
  LET out == AdvanceForHeader(s, m.hdr, fresh, mayGenerate)
  IN  IF out.err = "none" /\ out.mk # m.mk THEN Error(s, "mac") ELSE out

-----------------------------------------------------------------------------
(* Initial states: InitializeState for both parties, with the chain key of *)
(* a Kyber agreement (kyber) or without it.                                *)

SignedPreKey == <<Bob, 0>>
BaseKey == <<Alice, 0>>

InitialInitiator(kyber) ==
  LET dhs == IF kyber THEN <<Alice, 1>> ELSE BaseKey
      rk  == KDFRoot(<< >>, DH(dhs, SignedPreKey))
  IN  [DHs |-> dhs, DHr |-> SignedPreKey, RK |-> rk,
       CKs |-> ChainStart(rk),
       CKr |-> IF kyber THEN ChainStart(<< >>) ELSE ZeroChain,
       Ns |-> 0, Nr |-> 0, PN |-> 0,
       MKSkipped |-> {}, SeenDH |-> {SignedPreKey}]

InitialResponder(kyber) ==
  LET rkRecv == KDFRoot(<< >>, DH(SignedPreKey, BaseKey))
      rkSend == KDFRoot(rkRecv, DH(<<Bob, 1>>, BaseKey))
  IN  [DHs |-> IF kyber THEN SignedPreKey ELSE <<Bob, 1>>,
       DHr |-> BaseKey,
       RK |-> IF kyber THEN << >> ELSE rkSend,
       CKs |-> ChainStart(IF kyber THEN << >> ELSE rkSend),
       CKr |-> IF kyber THEN ZeroChain ELSE ChainStart(rkRecv),
       Ns |-> 0, Nr |-> 0, PN |-> 0,
       MKSkipped |-> {}, SeenDH |-> {BaseKey}]

Init ==
  /\ \E kyber \in BOOLEAN :
       /\ st = [p \in Party |-> IF p = Alice THEN InitialInitiator(kyber)
                                             ELSE InitialResponder(kyber)]
       /\ keys = [p \in Party |-> IF (p = Alice) = kyber THEN 2 ELSE 1]
  /\ net = {}
  /\ delivered = [p \in Party |-> {}]
  /\ plaintexts = [p \in Party |-> 0]

-----------------------------------------------------------------------------
(* Actions. *)

\* The messages on the network that are meant for p.
To(p) == {m \in net : m.from = Peer(p)}

FreshKey(p) == <<p, keys[p]>>
MayGenerate(p) == keys[p] < MaxKeys

Outcome(p, m) == Decrypted(st[p], m, FreshKey(p), MayGenerate(p))

\* The message p sends next.
NextMessage(p) ==
  [from |-> p,
   hdr |-> [DH |-> st[p].DHs, PN |-> st[p].PN, N |-> st[p].Ns],
   mk |-> KDFMessageKey(st[p].CKs)]

\* Mutant: no check that the counter is exhausted.
Encrypt_unchecked(p) ==
  /\ net' = net \cup {NextMessage(p)}
  /\ st' = [st EXCEPT ![p] = [st[p] EXCEPT !.CKs = KDFChain(st[p].CKs, 1), !.Ns = @ + 1]]
  /\ UNCHANGED <<keys, delivered, plaintexts>>

\* Mutant: the advanced chain key is not stored.
Encrypt_chainKept(p) ==
  /\ st[p].Ns < MaxCounter
  /\ net' = net \cup {NextMessage(p)}
  /\ st' = [st EXCEPT ![p].Ns = @ + 1]
  /\ UNCHANGED <<keys, delivered, plaintexts>>

Encrypt(p) ==
  /\ st[p].CKs # ZeroChain
  /\ st[p].Ns < MaxCounter
  /\ net' = net \cup {NextMessage(p)}
  /\ st' = [st EXCEPT ![p] = [st[p] EXCEPT !.CKs = KDFChain(st[p].CKs, 1), !.Ns = @ + 1]]
  /\ UNCHANGED <<keys, delivered, plaintexts>>

Receive(p, m) ==
  LET out == Outcome(p, m) IN
  /\ st' = [st EXCEPT ![p] = out.st]
  /\ keys' = [keys EXCEPT ![p] = IF out.st.DHs = st[p].DHs THEN @ ELSE @ + 1]
  /\ delivered' = [delivered EXCEPT ![p] = IF out.err = "none" THEN @ \cup {m} ELSE @]
  /\ plaintexts' = [plaintexts EXCEPT ![p] = IF out.err = "none" THEN @ + 1 ELSE @]
  /\ UNCHANGED net

Decrypt(p) == \E m \in To(p) : Receive(p, m)

\* A message damaged on the way: any header, and a ciphertext that
\* authenticates under no key of the session.
CorruptKey == <<<<{}, {}>>, 0>>
CorruptHeader ==
  [DH : Party \X (0 .. MaxKeys), PN : CorruptNumbers, N : CorruptNumbers]

DecryptCorrupted(p) ==
  \E h \in CorruptHeader :
    Receive(p, [from |-> Peer(p), hdr |-> h, mk |-> CorruptKey])

Next == \E p \in Party : Encrypt(p) \/ Decrypt(p) \/ DecryptCorrupted(p)

Spec == Init /\ [][Next]_vars

\* The exported State.RatchetOnSend, which nothing but a unit test calls.
RatchetOnSend(p) ==
  /\ MayGenerate(p)
  /\ st' = [st EXCEPT ![p] = DHRatchet(st[p], st[p].DHr, FreshKey(p))]
  /\ keys' = [keys EXCEPT ![p] = @ + 1]
  /\ UNCHANGED <<net, delivered, plaintexts>>

NextWithRatchetOnSend == Next \/ \E p \in Party : RatchetOnSend(p)

SpecWithRatchetOnSend == Init /\ [][NextWithRatchetOnSend]_vars

-----------------------------------------------------------------------------
(* Properties. *)

Channel == INSTANCE AtMostOnceChannel WITH sent <- net

\* The pair of ratchets implements an at-most-once channel: what Decrypt hands
\* to the application was sent by the peer and has not been handed over before.
ImplementsChannel == Channel!Spec

\* Every variable has its type; counters stay within uint32.
TypeOK ==
  /\ st \in [Party -> State]
  /\ \A p \in Party : st[p].Ns <= MaxCounter /\ st[p].Nr <= MaxCounter
  /\ keys \in [Party -> Nat]
  /\ net \subseteq Message
  /\ delivered \in [Party -> SUBSET Message]
  /\ plaintexts \in [Party -> Nat]

\* Whenever Decrypt derives a key for a message the peer really sent, it is
\* the key the peer encrypted it with: whatever was lost, reordered or damaged
\* before, a genuine message never fails authentication.
KeyAgreement ==
  \A p \in Party : \A m \in To(p) : Outcome(p, m).err # "mac"

\* A message that was decrypted once is never accepted again, in any later
\* state (MKSkipped entries are deleted on use, Nr and SeenDH never go back).
NoReplay ==
  \A p \in Party : \A m \in delivered[p] : Outcome(p, m).err # "none"

\* No two messages, of one party or of both, are encrypted with the same key.
UniqueMessageKeys ==
  \A m1, m2 \in net : m1.mk = m2.mk => m1 = m2

\* A message key that can still be computed from a state: stored, or ahead on
\* one of its two chains.
Derivable(s, mk) ==
  \/ \E e \in s.MKSkipped : e.mk = mk
  \/ \E ck \in {s.CKs, s.CKr} : ck.root = mk[1] /\ ck.n <= mk[2]

\* Forward secrecy: the state of a party determines the key of no message it
\* has sent and of no message it has decrypted.
ForwardSecrecy ==
  \A p \in Party :
    \A m \in {m \in net : m.from = p} \cup delivered[p] : ~Derivable(st[p], m.mk)

\* At most MaxSkip keys are kept, and only for the current receiving chain.
SkippedKeysBounded ==
  \A p \in Party :
    /\ Cardinality(st[p].MKSkipped) <= MaxSkip
    /\ \A e \in st[p].MKSkipped : e.DH = st[p].DHr /\ e.N < st[p].Nr

\* Messages of the current receiving chain decrypt in any order: one that has
\* not been decrypted yet is refused only when its gap exceeds MaxSkip.
InChainOutOfOrder ==
  \A p \in Party : \A m \in To(p) \ delivered[p] :
    m.hdr.DH = st[p].DHr /\ CanSkip(st[p], m.hdr.N) => Outcome(p, m).err = "none"

\* The same for the peer's newest chain when its key is not yet known: it
\* opens the chain unless one of the two gaps exceeds MaxSkip.
NewChainOpens ==
  \A p \in Party : \A m \in To(p) \ delivered[p] :
    /\ m.hdr.DH = st[Peer(p)].DHs
    /\ m.hdr.DH # st[p].DHr
    /\ CanSkip(st[p], m.hdr.PN)
    /\ m.hdr.N <= MaxSkip
    /\ MayGenerate(p)
    => Outcome(p, m).err = "none"

\* What spec.md asks of skipped keys ("Out-of-order messages within limit
\* work"): a message no more than MaxSkip behind or ahead is never refused.
OutOfOrderWithinLimit ==
  \A p \in Party : \A m \in To(p) \ delivered[p] :
    Cardinality(To(p)) <= MaxSkip /\ MayGenerate(p) => Outcome(p, m).err = "none"
=============================================================================
