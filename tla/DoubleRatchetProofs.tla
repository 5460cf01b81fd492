------------------------- MODULE DoubleRatchetProofs -------------------------
(***************************************************************************)
(* TLAPS proofs about DoubleRatchet, for every MaxSkip, every width of the *)
(* counters and any number of key pairs.                                   *)
(***************************************************************************)
EXTENDS DoubleRatchet, FiniteSetTheorems, TLAPS

-----------------------------------------------------------------------------
(* The inductive invariant. *)

\* Every key in use was generated by the party it names, before now.
KeysInv ==
  \A p \in Party :
    /\ st[p].DHs[1] = p /\ st[p].DHs[2] < keys[p]
    /\ st[p].DHr \in st[p].SeenDH
    /\ \A k \in st[p].SeenDH : k[1] = Peer(p) /\ k[2] < keys[Peer(p)]

\* The chains of a party: where they come from and how far they are.
ChainsInv ==
  \A p \in Party :
    /\ st[p].CKs = [root |-> st[p].RK, n |-> st[p].Ns]
    /\ st[p].CKr.n = st[p].Nr
    /\ st[p].CKr.root # st[p].RK
    /\ st[p].CKr.root # CorruptKey[1]
    /\ st[p].RK # ZeroChain.root

\* One party is a ratchet step ahead; the other one's chain is the one it reads.
LockStep ==
  \E b \in Party :
    /\ st[b].RK = Append(st[Peer(b)].RK, DH(st[Peer(b)].DHs, st[b].DHs))
    /\ st[b].DHr = st[Peer(b)].DHs
    /\ st[b].CKr.root = st[Peer(b)].RK
    /\ st[b].DHs \notin st[Peer(b)].SeenDH
    /\ st[Peer(b)].CKr.root # st[b].RK

\* A stored key is the key of a number already passed on the current chain.
SkippedInv ==
  \A p \in Party :
    /\ IsFiniteSet(st[p].MKSkipped)
    /\ Cardinality(st[p].MKSkipped) <= MaxSkip
    /\ \A e \in st[p].MKSkipped :
         e.DH = st[p].DHr /\ e.N < st[p].Nr /\ e.mk = <<st[p].CKr.root, e.N>>

\* A message determines, and is determined by, the chain it belongs to.
MessageInv(m, s, r) ==
  /\ m.mk[2] = m.hdr.N
  /\ m.hdr.N < MaxCounter
  /\ Len(m.mk[1]) <= Len(s.RK)
  /\ m.mk[1] = s.RK <=> m.hdr.DH = s.DHs
  /\ m.hdr.DH = s.DHs => m.hdr.N < s.Ns
  /\ m.mk[1] # r.RK
  /\ m.mk[1] # s.CKr.root
  /\ m.mk[1] = r.CKr.root <=> m.hdr.DH = r.DHr
  /\ m.mk[1] # ZeroChain.root
  /\ m.hdr.DH \in r.SeenDH \/ m.hdr.DH = s.DHs

NetInv ==
  \A m \in net :
    /\ m.hdr.DH[1] = m.from /\ m.hdr.DH[2] < keys[m.from]
    /\ MessageInv(m, st[m.from], st[Peer(m.from)])

\* What was decrypted lies behind the receiver, and the receiver is not ahead
\* of the sender.
DeliveredInv ==
  \A p \in Party :
    /\ \A m \in delivered[p] :
         /\ m \in To(p)
         /\ m.hdr.DH \in st[p].SeenDH
         /\ m.hdr.DH = st[p].DHr =>
              m.hdr.N < st[p].Nr /\ SkippedKeys(st[p], m.hdr) = {}
    /\ st[p].DHr = st[Peer(p)].DHs => st[p].Nr <= st[Peer(p)].Ns

\* A message of the current chain that was passed over still has its key.
PendingInv ==
  \A p \in Party : \A m \in To(p) :
    m.hdr.DH = st[p].DHr /\ m.hdr.N < st[p].Nr =>
      m \in delivered[p] \/ SkippedKeys(st[p], m.hdr) # {}

IInv ==
  /\ TypeOK /\ KeysInv /\ ChainsInv /\ LockStep /\ SkippedInv
  /\ NetInv /\ DeliveredInv /\ PendingInv /\ UniqueMessageKeys

-----------------------------------------------------------------------------
(* What a successful Decrypt does to the state s, field by field. *)

\* The entries stored for the numbers from .. to - 1 of a chain.
Passed(dh, root, from, to) ==
  {[DH |-> dh, N |-> i, mk |-> <<root, i>>] : i \in from .. (to - 1)}

\* A stored key is used up.
SkippedStep(s, t, m) ==
  /\ SkippedKeys(s, m.hdr) # {}
  /\ m.hdr.DH = s.DHr /\ m.hdr.N < s.Nr /\ m.mk = <<s.CKr.root, m.hdr.N>>
  /\ t = [s EXCEPT !.MKSkipped = @ \ SkippedKeys(s, m.hdr)]

\* The receiving chain advances beyond the message.
ChainStep(s, t, m) ==
  /\ m.hdr.DH = s.DHr /\ s.Nr <= m.hdr.N /\ m.hdr.N < MaxCounter
  /\ m.mk = <<s.CKr.root, m.hdr.N>>
  /\ CanSkip(s, m.hdr.N)
  /\ t = [s EXCEPT !.CKr = [root |-> s.CKr.root, n |-> m.hdr.N + 1],
                    !.Nr = m.hdr.N + 1,
                    !.MKSkipped = @ \cup Passed(s.DHr, s.CKr.root, s.Nr, m.hdr.N)]

\* A DH ratchet step to the key of the header, then the advance on the new chain.
Ratcheted(s, t, h, fresh) ==
  LET rk == Append(s.RK, DH(s.DHs, h.DH)) IN
  /\ t \in State
  /\ t.DHs = fresh /\ t.DHr = h.DH
  /\ t.RK = Append(rk, DH(fresh, h.DH))
  /\ t.CKs = [root |-> t.RK, n |-> 0]
  /\ t.CKr = [root |-> rk, n |-> h.N + 1]
  /\ t.Ns = 0 /\ t.Nr = h.N + 1 /\ t.PN = s.Ns
  /\ t.MKSkipped = Passed(h.DH, rk, 0, h.N)
  /\ t.SeenDH = s.SeenDH \cup {s.DHr, h.DH}

RatchetStep(s, t, m, fresh) ==
  /\ m.hdr.DH \notin s.SeenDH /\ m.hdr.DH # s.DHr
  /\ m.hdr.N < MaxCounter /\ m.hdr.N <= MaxSkip
  /\ m.mk = <<Append(s.RK, DH(s.DHs, m.hdr.DH)), m.hdr.N>>
  /\ Ratcheted(s, t, m.hdr, fresh)

-----------------------------------------------------------------------------
(* Lemmas on the operators. *)

\* Peer is an involution without fixed points.
LEMMA PeerFacts ==
  \A p \in Party : Peer(p) \in Party /\ Peer(p) # p /\ Peer(Peer(p)) = p
BY ConstantsAssumption DEF Party, Peer

\* The entries stored for passed-over numbers are well formed.
LEMMA PassedType ==
  ASSUME NEW dh \in PublicKey, NEW root \in RootKey, NEW from \in Nat, NEW to \in Nat
  PROVE  Passed(dh, root, from, to) \subseteq SkippedEntry
<1> SUFFICES ASSUME NEW i \in from .. (to - 1)
             PROVE  [DH |-> dh, N |-> i, mk |-> <<root, i>>] \in SkippedEntry
  BY DEF Passed
<1>1. i \in Nat
  OBVIOUS
<1>2. <<root, i>> \in MessageKey
  BY <1>1 DEF MessageKey
<1> QED BY <1>1, <1>2 DEF SkippedEntry

\* The invariant of one party's own state that Decrypt relies on.
StateInv(s) ==
  /\ s \in State
  /\ s.Nr <= MaxCounter
  /\ s.CKr.n = s.Nr
  /\ \A e \in s.MKSkipped : e.DH = s.DHr /\ e.N < s.Nr /\ e.mk = <<s.CKr.root, e.N>>

\* skipMessageKeys on such a state advances the chain to until and stores the
\* key of every number it passes.
LEMMA SkipFacts ==
  ASSUME NEW s, StateInv(s), NEW until \in Nat, s.Nr <= until
  PROVE  skipMessageKeys(s, until) =
           [s EXCEPT !.CKr = [root |-> s.CKr.root, n |-> until],
                     !.Nr = until,
                     !.MKSkipped = @ \cup Passed(s.DHr, s.CKr.root, s.Nr, until)]
<1> USE DEF StateInv
<1>1. CASE until = s.Nr
  <2>1. Passed(s.DHr, s.CKr.root, s.Nr, until) = {}
    BY <1>1 DEF Passed, State
  <2>2. s.CKr = [root |-> s.CKr.root, n |-> until]
    BY <1>1 DEF State, ChainKey
  <2> QED BY <1>1, <2>1, <2>2 DEF skipMessageKeys, State
<1>2. CASE until > s.Nr
  <2>1. KDFChain(s.CKr, until - s.Nr) = [root |-> s.CKr.root, n |-> until]
    BY <1>2 DEF KDFChain, State, ChainKey
  <2>2. SkippedEntries(s, s.Nr .. (until - 1)) = Passed(s.DHr, s.CKr.root, s.Nr, until)
    BY <1>2 DEF SkippedEntries, Passed, State, ChainKey
  <2>3. ~(until <= s.Nr)
    BY <1>2 DEF State
  <2> QED BY <2>1, <2>2, <2>3, Zenon DEF skipMessageKeys
<1> QED BY <1>1, <1>2 DEF State

\* CanSkip and skipMessageKeys depend on the chain only when they advance it.
LEMMA SkipNoop ==
  ASSUME NEW s, NEW until, until <= s.Nr
  PROVE  skipMessageKeys(s, until) = s /\ CanSkip(s, until)
BY DEF skipMessageKeys, CanSkip

\* A ratchet step drops every stored key: none belongs to the new DH key.
LEMMA RatchetFacts ==
  ASSUME NEW s, StateInv(s), NEW fresh \in PublicKey, NEW theirs \in PublicKey,
         NEW pn \in Nat, theirs # s.DHr
  PROVE  LET rk == Append(s.RK, DH(s.DHs, theirs)) IN
         DHRatchet(skipMessageKeys(s, pn), theirs, fresh) =
           [DHs |-> fresh, DHr |-> theirs, RK |-> Append(rk, DH(fresh, theirs)),
            CKs |-> [root |-> Append(rk, DH(fresh, theirs)), n |-> 0],
            CKr |-> [root |-> rk, n |-> 0],
            Ns |-> 0, Nr |-> 0, PN |-> s.Ns,
            MKSkipped |-> {},
            SeenDH |-> s.SeenDH \cup {s.DHr, theirs}]
<1> DEFINE k == skipMessageKeys(s, pn)
<1>1. /\ k.DHs = s.DHs /\ k.DHr = s.DHr /\ k.RK = s.RK /\ k.Ns = s.Ns
      /\ k.SeenDH = s.SeenDH
      /\ \A e \in k.MKSkipped : e.DH = s.DHr
  <2>1. CASE pn <= s.Nr
    BY <2>1, SkipNoop DEF StateInv
  <2>2. CASE s.Nr <= pn
    <3>1. k = [s EXCEPT !.CKr = [root |-> s.CKr.root, n |-> pn],
                        !.Nr = pn,
                        !.MKSkipped = @ \cup Passed(s.DHr, s.CKr.root, s.Nr, pn)]
      BY <2>2, SkipFacts
    <3>2. \A e \in Passed(s.DHr, s.CKr.root, s.Nr, pn) : e.DH = s.DHr
      BY DEF Passed
    <3> QED BY <3>1, <3>2 DEF StateInv, State
  <2> QED BY <2>1, <2>2 DEF StateInv, State
<1>2. cleanupSkippedKeys(k.MKSkipped, theirs) = {}
  BY <1>1 DEF cleanupSkippedKeys
<1> QED BY <1>1, <1>2, Zenon DEF DHRatchet, KDFRoot, ChainStart

\* The result of AdvanceForHeader on a header that needs no stored key and no
\* ratchet step.
LEMMA AdvanceInChain ==
  ASSUME NEW s, StateInv(s), NEW h \in Header, NEW fresh, NEW may,
         SkippedKeys(s, h) = {}, h.DH = s.DHr, s.Nr <= h.N
  PROVE  LET t == [s EXCEPT !.CKr = [root |-> s.CKr.root, n |-> h.N],
                            !.Nr = h.N,
                            !.MKSkipped = @ \cup Passed(s.DHr, s.CKr.root, s.Nr, h.N)]
         IN  AdvanceForHeader(s, h, fresh, may) =
               IF ~CanSkip(s, h.N) THEN Error(s, "maxskip")
               ELSE IF t.CKr = ZeroChain THEN Error(s, "nochain")
               ELSE IF h.N = MaxCounter THEN Error(s, "overflow")
               ELSE Success([s EXCEPT !.CKr = [root |-> s.CKr.root, n |-> h.N + 1],
                                      !.Nr = h.N + 1,
                                      !.MKSkipped = @ \cup Passed(s.DHr, s.CKr.root, s.Nr, h.N)],
                            <<s.CKr.root, h.N>>)
<1> DEFINE t == [s EXCEPT !.CKr = [root |-> s.CKr.root, n |-> h.N],
                          !.Nr = h.N,
                          !.MKSkipped = @ \cup Passed(s.DHr, s.CKr.root, s.Nr, h.N)]
<1>1. RatchetTo(s, h, fresh) = s
  BY DEF RatchetTo
<1>2. skipMessageKeys(s, h.N) = t
  BY SkipFacts DEF Header
<1>3. ~(h.N < s.Nr)
  BY DEF Header, StateInv, State
<1>4. t.Nr = h.N /\ t.CKr = [root |-> s.CKr.root, n |-> h.N]
  BY DEF StateInv, State
<1>5. KDFMessageKey(t.CKr) = <<s.CKr.root, h.N>>
  BY <1>4 DEF KDFMessageKey
<1>6. KDFChain(t.CKr, 1) = [root |-> s.CKr.root, n |-> h.N + 1]
  BY <1>4 DEF KDFChain
<1>7. [t EXCEPT !.CKr = [root |-> s.CKr.root, n |-> h.N + 1], !.Nr = @ + 1]
      = [s EXCEPT !.CKr = [root |-> s.CKr.root, n |-> h.N + 1],
                  !.Nr = h.N + 1,
                  !.MKSkipped = @ \cup Passed(s.DHr, s.CKr.root, s.Nr, h.N)]
  BY <1>4 DEF StateInv, State
<1> QED
  BY <1>1, <1>2, <1>3, <1>4, <1>5, <1>6, <1>7, Zenon DEF AdvanceForHeader

\* The result of AdvanceForHeader on a header with a DH key never seen before.
LEMMA AdvanceRatchet ==
  ASSUME NEW s, StateInv(s), NEW h \in Header, NEW fresh \in PublicKey, NEW may,
         SkippedKeys(s, h) = {}, h.DH # s.DHr, h.DH \notin s.SeenDH
  PROVE  LET rk == Append(s.RK, DH(s.DHs, h.DH)) IN
         \E t \in State :
           /\ Ratcheted(s, t, h, fresh)
           /\ AdvanceForHeader(s, h, fresh, may) =
                IF ~CanSkip(s, h.PN) THEN Error(s, "maxskip")
                ELSE IF ~may THEN Error(s, "keygen")
                ELSE IF h.N > MaxSkip THEN Error(s, "maxskip")
                ELSE IF [root |-> rk, n |-> h.N] = ZeroChain THEN Error(s, "nochain")
                ELSE IF h.N = MaxCounter THEN Error(s, "overflow")
                ELSE Success(t, <<rk, h.N>>)
<1> DEFINE rk == Append(s.RK, DH(s.DHs, h.DH))
           r == RatchetTo(s, h, fresh)
           t == skipMessageKeys(r, h.N)
<1>1. r = [DHs |-> fresh, DHr |-> h.DH, RK |-> Append(rk, DH(fresh, h.DH)),
           CKs |-> [root |-> Append(rk, DH(fresh, h.DH)), n |-> 0],
           CKr |-> [root |-> rk, n |-> 0],
           Ns |-> 0, Nr |-> 0, PN |-> s.Ns, MKSkipped |-> {},
           SeenDH |-> s.SeenDH \cup {s.DHr, h.DH}]
  BY RatchetFacts DEF RatchetTo, Header
<1>2. StateInv(r)
  <2>1. rk \in RootKey /\ Append(rk, DH(fresh, h.DH)) \in RootKey
    BY DEF RootKey, DH, StateInv, State, Header
  <2> QED BY <1>1, <2>1, ConstantsAssumption DEF StateInv, State, ChainKey, Header
<1>3. t = [r EXCEPT !.CKr = [root |-> rk, n |-> h.N],
                    !.Nr = h.N,
                    !.MKSkipped = @ \cup Passed(h.DH, rk, 0, h.N)]
  <2>1. r.Nr = 0 /\ r.DHr = h.DH /\ r.CKr.root = rk
    BY <1>1
  <2>2. r.Nr <= h.N /\ h.N \in Nat
    BY <2>1 DEF Header
  <2> HIDE DEF r, rk
  <2>3. t = [r EXCEPT !.CKr = [root |-> r.CKr.root, n |-> h.N],
                      !.Nr = h.N,
                      !.MKSkipped = @ \cup Passed(r.DHr, r.CKr.root, r.Nr, h.N)]
    BY <1>2, <2>2, SkipFacts
  <2> QED BY <2>1, <2>3
<1>4. t.Nr = h.N /\ t.CKr = [root |-> rk, n |-> h.N]
  BY <1>1, <1>3
<1>5. CanSkip(r, h.N) <=> ~(h.N > MaxSkip)
  <2>1. r.MKSkipped = {} /\ r.Nr = 0
    BY <1>1
  <2>2. Cardinality(r.MKSkipped) = 0
    BY <2>1, FS_EmptySet
  <2> QED BY <2>1, <2>2, ConstantsAssumption DEF CanSkip, Header
<1>6. KDFMessageKey(t.CKr) = <<rk, h.N>>
  BY <1>4 DEF KDFMessageKey
<1>7. KDFChain(t.CKr, 1) = [root |-> rk, n |-> h.N + 1]
  <2> HIDE DEF t, rk
  <2> QED BY <1>4 DEF KDFChain
<1> DEFINE u == [t EXCEPT !.CKr = [root |-> rk, n |-> h.N + 1], !.Nr = @ + 1]
<1>8. Ratcheted(s, u, h, fresh)
  <2>1. u = [r EXCEPT !.CKr = [root |-> rk, n |-> h.N + 1],
                      !.Nr = h.N + 1,
                      !.MKSkipped = @ \cup Passed(h.DH, rk, 0, h.N)]
    <3> HIDE DEF t, r, rk
    <3> QED BY <1>2, <1>3, <1>4 DEF StateInv, State
  <2>2. rk \in RootKey
    BY DEF RootKey, DH, StateInv, State, Header
  <2>3. Passed(h.DH, rk, 0, h.N) \subseteq SkippedEntry
    BY <2>2, PassedType DEF Header
  <2> HIDE DEF u, t, r, rk
  <2>4. u \in State
    <3>1. [root |-> rk, n |-> h.N + 1] \in ChainKey /\ h.N + 1 \in Nat
      BY <2>2 DEF ChainKey, Header
    <3> QED BY <1>2, <2>1, <2>3, <3>1 DEF StateInv, State
  <2>5. /\ u.DHs = r.DHs /\ u.DHr = r.DHr /\ u.RK = r.RK /\ u.CKs = r.CKs
        /\ u.CKr = [root |-> rk, n |-> h.N + 1]
        /\ u.Ns = r.Ns /\ u.Nr = h.N + 1 /\ u.PN = r.PN
        /\ u.MKSkipped = r.MKSkipped \cup Passed(h.DH, rk, 0, h.N)
        /\ u.SeenDH = r.SeenDH
    BY <1>2, <2>1 DEF StateInv, State
  <2> QED BY <1>1, <2>4, <2>5 DEF Ratcheted, rk
<1>9. u \in State
  BY <1>8 DEF Ratcheted
<1>10. AdvanceForHeader(s, h, fresh, may) =
         IF ~CanSkip(s, h.PN) THEN Error(s, "maxskip")
         ELSE IF ~may THEN Error(s, "keygen")
         ELSE IF h.N > MaxSkip THEN Error(s, "maxskip")
         ELSE IF [root |-> rk, n |-> h.N] = ZeroChain THEN Error(s, "nochain")
         ELSE IF h.N = MaxCounter THEN Error(s, "overflow")
         ELSE Success(u, <<rk, h.N>>)
  BY <1>4, <1>5, <1>6, <1>7, Zenon DEF AdvanceForHeader
<1> HIDE DEF u
<1> QED BY <1>8, <1>9, <1>10

\* A header whose key is stored consumes the entry.
LEMMA AdvanceSkipped ==
  ASSUME NEW s, StateInv(s), NEW h \in Header, NEW fresh, NEW may, SkippedKeys(s, h) # {}
  PROVE  /\ h.DH = s.DHr /\ h.N < s.Nr
         /\ AdvanceForHeader(s, h, fresh, may) =
              Success([s EXCEPT !.MKSkipped = @ \ SkippedKeys(s, h)], <<s.CKr.root, h.N>>)
<1> DEFINE found == SkippedKeys(s, h)
<1>1. PICK e \in found : e = (CHOOSE x \in found : TRUE)
  OBVIOUS
<1>2. /\ e.DH = h.DH /\ e.N = h.N
      /\ e.DH = s.DHr /\ e.N < s.Nr /\ e.mk = <<s.CKr.root, e.N>>
  BY DEF SkippedKeys, StateInv
<1>3. AdvanceForHeader(s, h, fresh, may) = Success(ConsumeSkipped(s, found), (CHOOSE x \in found : TRUE).mk)
  BY DEF AdvanceForHeader
<1> QED BY <1>1, <1>2, <1>3 DEF ConsumeSkipped

\* A header of the past is a duplicate.
LEMMA AdvanceDuplicate ==
  ASSUME NEW s, NEW h, NEW fresh, NEW may, SkippedKeys(s, h) = {},
         \/ h.DH = s.DHr /\ h.N < s.Nr
         \/ h.DH # s.DHr /\ h.DH \in s.SeenDH
  PROVE  AdvanceForHeader(s, h, fresh, may) = Error(s, "duplicate")
BY Zenon DEF AdvanceForHeader

\* Decrypt fails and leaves the state alone, or succeeds in one of three ways.
LEMMA DecryptedCases ==
  ASSUME NEW s, StateInv(s), NEW m, m.hdr \in Header, m.hdr.N <= MaxCounter,
         NEW fresh \in PublicKey, NEW may
  PROVE  LET out == Decrypted(s, m, fresh, may) IN
         \/ out.err # "none" /\ out.st = s
         \/ /\ out.err = "none"
            /\ \/ SkippedStep(s, out.st, m)
               \/ ChainStep(s, out.st, m)
               \/ RatchetStep(s, out.st, m, fresh)
<1> DEFINE h == m.hdr
           adv == AdvanceForHeader(s, h, fresh, may)
           out == Decrypted(s, m, fresh, may)
<1>0. h.N \in Nat /\ s.Nr \in Nat /\ MaxCounter \in Nat /\ MaxSkip \in Nat
  BY ConstantsAssumption DEF Header, StateInv, State
<1>a. ASSUME NEW err \in {"duplicate", "maxskip", "keygen", "nochain", "overflow"},
             adv = Error(s, err)
      PROVE  out.err # "none" /\ out.st = s
  BY <1>a DEF Error, Decrypted
<1>b. ASSUME NEW t, NEW mk, adv = Success(t, mk)
      PROVE  \/ out.err # "none" /\ out.st = s
             \/ out.err = "none" /\ out.st = t /\ m.mk = mk
  BY <1>b DEF Success, Error, Decrypted
<1> HIDE DEF adv, out
<1>1. CASE SkippedKeys(s, h) # {}
  <2>1. /\ h.DH = s.DHr /\ h.N < s.Nr
        /\ adv = Success([s EXCEPT !.MKSkipped = @ \ SkippedKeys(s, h)], <<s.CKr.root, h.N>>)
    BY <1>1, AdvanceSkipped DEF adv
  <2> QED BY <1>1, <1>b, <2>1 DEF SkippedStep, out
<1>2. CASE SkippedKeys(s, h) = {} /\ h.DH = s.DHr /\ h.N < s.Nr
  <2>1. adv = Error(s, "duplicate")
    BY <1>2, AdvanceDuplicate DEF adv
  <2> QED BY <1>a, <2>1 DEF out
<1>3. CASE SkippedKeys(s, h) = {} /\ h.DH = s.DHr /\ s.Nr <= h.N
  <2> DEFINE t == [s EXCEPT !.CKr = [root |-> s.CKr.root, n |-> h.N + 1],
                            !.Nr = h.N + 1,
                            !.MKSkipped = @ \cup Passed(s.DHr, s.CKr.root, s.Nr, h.N)]
  <2>1. \/ \E err \in {"maxskip", "nochain", "overflow"} : adv = Error(s, err)
        \/ /\ CanSkip(s, h.N) /\ h.N # MaxCounter
           /\ adv = Success(t, <<s.CKr.root, h.N>>)
    BY <1>3, AdvanceInChain, ZenonT(40) DEF adv
  <2>2. CASE \E err \in {"maxskip", "nochain", "overflow"} : adv = Error(s, err)
    BY <1>a, <2>2 DEF out
  <2>3. CASE /\ CanSkip(s, h.N) /\ h.N # MaxCounter
             /\ adv = Success(t, <<s.CKr.root, h.N>>)
    <3>1. h.N < MaxCounter
      BY <1>0, <2>3
    <3>2. out.err = "none" /\ out.st = t /\ m.mk = <<s.CKr.root, h.N>> => ChainStep(s, out.st, m)
      BY <1>3, <2>3, <3>1, Zenon DEF ChainStep
    <3> QED BY <1>b, <2>3, <3>2 DEF out
  <2> QED BY <2>1, <2>2, <2>3
<1>4. CASE SkippedKeys(s, h) = {} /\ h.DH # s.DHr /\ h.DH \in s.SeenDH
  <2>1. adv = Error(s, "duplicate")
    BY <1>4, AdvanceDuplicate DEF adv
  <2> QED BY <1>a, <2>1 DEF out
<1>5. CASE SkippedKeys(s, h) = {} /\ h.DH # s.DHr /\ h.DH \notin s.SeenDH
  <2> DEFINE rk == Append(s.RK, DH(s.DHs, h.DH))
  <2>1. PICK t \in State :
          /\ Ratcheted(s, t, h, fresh)
          /\ adv =
                IF ~CanSkip(s, h.PN) THEN Error(s, "maxskip")
                ELSE IF ~may THEN Error(s, "keygen")
                ELSE IF h.N > MaxSkip THEN Error(s, "maxskip")
                ELSE IF [root |-> rk, n |-> h.N] = ZeroChain THEN Error(s, "nochain")
                ELSE IF h.N = MaxCounter THEN Error(s, "overflow")
                ELSE Success(t, <<rk, h.N>>)
    BY <1>5, AdvanceRatchet, ZenonT(40) DEF adv
  <2>2. \/ \E err \in {"maxskip", "keygen", "nochain", "overflow"} : adv = Error(s, err)
        \/ ~(h.N > MaxSkip) /\ h.N # MaxCounter /\ adv = Success(t, <<rk, h.N>>)
    BY <2>1, Zenon
  <2>3. CASE \E err \in {"maxskip", "keygen", "nochain", "overflow"} : adv = Error(s, err)
    BY <1>a, <2>3 DEF out
  <2>4. CASE ~(h.N > MaxSkip) /\ h.N # MaxCounter /\ adv = Success(t, <<rk, h.N>>)
    <3>1. h.N < MaxCounter /\ h.N <= MaxSkip
      BY <1>0, <2>4
    <3>2. out.err = "none" /\ out.st = t /\ m.mk = <<rk, h.N>> => RatchetStep(s, out.st, m, fresh)
      BY <1>5, <2>1, <3>1 DEF RatchetStep
    <3> QED BY <1>b, <2>4, <3>2 DEF out
  <2> QED BY <2>2, <2>3, <2>4
<1> QED BY <1>0, <1>1, <1>2, <1>3, <1>4, <1>5 DEF out

\* As many entries are stored as numbers are passed over.
LEMMA PassedFinite ==
  ASSUME NEW dh, NEW root, NEW from \in Nat, NEW to \in Nat, from <= to
  PROVE  LET S == Passed(dh, root, from, to)
         IN  IsFiniteSet(S) /\ Cardinality(S) \in Nat /\ Cardinality(S) <= to - from
<1> DEFINE S == from .. (to - 1)
           T == Passed(dh, root, from, to)
           f == [i \in S |-> [DH |-> dh, N |-> i, mk |-> <<root, i>>]]
<1>1. IsFiniteSet(S) /\ Cardinality(S) = to - from
  <2>1. from \in Int /\ to - 1 \in Int
    OBVIOUS
  <2>2. IsFiniteSet(S) /\ Cardinality(S) = IF from > to - 1 THEN 0 ELSE (to - 1) - from + 1
    BY <2>1, FS_Interval
  <2> QED BY <2>2
<1>2. f \in Surjection(S, T)
  BY DEF Surjection, Passed
<1>3. IsFiniteSet(T) /\ Cardinality(T) <= Cardinality(S)
  <2> HIDE DEF f, S, T
  <2> QED BY <1>1, <1>2, FS_Surjection
<1> QED BY <1>1, <1>3, FS_CardinalityType

\* A root key that a DH output was mixed into is longer than before and is
\* neither of the two placeholders.
LEMMA AppendFacts ==
  ASSUME NEW rk \in RootKey, NEW x \in PublicKey, NEW y \in PublicKey
  PROVE  LET new == Append(rk, DH(x, y))
         IN  /\ new \in RootKey /\ Len(new) = Len(rk) + 1 /\ Len(rk) \in Nat
             /\ new # ZeroChain.root /\ new # CorruptKey[1]
<1> DEFINE new == Append(rk, DH(x, y))
<1>1. new \in RootKey /\ Len(new) = Len(rk) + 1 /\ Len(rk) \in Nat
  BY DEF RootKey, DH
<1>2. new[Len(new)] # {}
  BY DEF RootKey, DH
<1>3. new # <<{}>> /\ new # <<{}, {}>>
  <2> HIDE DEF new
  <2> QED BY <1>2
<1> QED BY <1>1, <1>3 DEF ZeroChain, CorruptKey

-----------------------------------------------------------------------------
(* Init establishes the invariant. *)

\* InitializeState yields well-typed states, with and without Kyber.
LEMMA InitTypeOK == Init => TypeOK
<1> SUFFICES ASSUME NEW kyber \in BOOLEAN, 
                    st = [p \in Party |-> IF p = Alice THEN InitialInitiator(kyber)
                                                      ELSE InitialResponder(kyber)],
                    keys = [p \in Party |-> IF (p = Alice) = kyber THEN 2 ELSE 1],
                    net = {},
                    delivered = [p \in Party |-> {}],
                    plaintexts = [p \in Party |-> 0]
             PROVE  TypeOK
  BY DEF Init
<1>1. \A i \in Nat : <<Alice, i>> \in PublicKey /\ <<Bob, i>> \in PublicKey
  BY DEF PublicKey, Party
<1>2. << >> \in RootKey /\ <<{}>> \in RootKey
  BY DEF RootKey
<1>3. ASSUME NEW rk \in RootKey PROVE ChainStart(rk) \in ChainKey
  BY DEF ChainStart, ChainKey
<1>4. ZeroChain \in ChainKey
  BY <1>2 DEF ZeroChain, ChainKey
<1>5. InitialInitiator(kyber) \in State
  BY <1>1, <1>2, <1>3, <1>4, AppendFacts
     DEF InitialInitiator, State, BaseKey, SignedPreKey, KDFRoot
<1>6. InitialResponder(kyber) \in State
  BY <1>1, <1>2, <1>3, <1>4, AppendFacts
     DEF InitialResponder, State, BaseKey, SignedPreKey, KDFRoot
<1>7. /\ InitialInitiator(kyber).Ns = 0 /\ InitialInitiator(kyber).Nr = 0
      /\ InitialResponder(kyber).Ns = 0 /\ InitialResponder(kyber).Nr = 0
  BY DEF InitialInitiator, InitialResponder
<1> QED BY <1>5, <1>6, <1>7, ConstantsAssumption DEF TypeOK

\* InitializeState establishes the inductive invariant: one party starts ahead.
LEMMA InitIInv == Init => IInv
<1> SUFFICES ASSUME Init PROVE IInv
  OBVIOUS
<1>1. PICK kyber \in BOOLEAN :
        /\ st = [p \in Party |-> IF p = Alice THEN InitialInitiator(kyber)
                                              ELSE InitialResponder(kyber)]
        /\ keys = [p \in Party |-> IF (p = Alice) = kyber THEN 2 ELSE 1]
  BY DEF Init
<1>2. net = {} /\ delivered = [p \in Party |-> {}]
  BY DEF Init
<1>3. TypeOK
  BY InitTypeOK
<1>4. /\ Alice \in Party /\ Bob \in Party /\ Alice # Bob
      /\ Peer(Alice) = Bob /\ Peer(Bob) = Alice
      /\ \A p \in Party : p = Alice \/ p = Bob
  BY ConstantsAssumption DEF Party, Peer
<1>5. st[Alice] = InitialInitiator(kyber) /\ st[Bob] = InitialResponder(kyber)
  BY <1>1, <1>4
<1>6. keys[Alice] = (IF kyber THEN 2 ELSE 1) /\ keys[Bob] = (IF kyber THEN 1 ELSE 2)
  BY <1>1, <1>4
<1> DEFINE a == st[Alice]  b == st[Bob]
<1>7. /\ a.DHs = (IF kyber THEN <<Alice, 1>> ELSE <<Alice, 0>>)
      /\ a.DHr = <<Bob, 0>> /\ a.SeenDH = {<<Bob, 0>>} /\ a.MKSkipped = {}
      /\ a.RK = Append(<< >>, DH(a.DHs, <<Bob, 0>>))
      /\ a.CKs = [root |-> a.RK, n |-> 0] /\ a.Ns = 0 /\ a.Nr = 0
      /\ a.CKr = (IF kyber THEN [root |-> << >>, n |-> 0] ELSE ZeroChain)
  BY <1>5 DEF InitialInitiator, BaseKey, SignedPreKey, KDFRoot, ChainStart
<1>8. /\ b.DHs = (IF kyber THEN <<Bob, 0>> ELSE <<Bob, 1>>)
      /\ b.DHr = <<Alice, 0>> /\ b.SeenDH = {<<Alice, 0>>} /\ b.MKSkipped = {}
      /\ b.CKs = [root |-> b.RK, n |-> 0] /\ b.Ns = 0 /\ b.Nr = 0
  BY <1>5 DEF InitialResponder, BaseKey, SignedPreKey, KDFRoot, ChainStart
<1>9. KeysInv
  BY <1>4, <1>6, <1>7, <1>8 DEF KeysInv
<1>10. SkippedInv
  <2>1. IsFiniteSet({}) /\ Cardinality({}) = 0
    BY FS_EmptySet
  <2>2. \A p \in Party : st[p].MKSkipped = {}
    BY <1>4, <1>7, <1>8
  <2> QED BY <2>1, <2>2, ConstantsAssumption DEF SkippedInv
<1>11. NetInv /\ DeliveredInv /\ PendingInv /\ UniqueMessageKeys
  BY <1>2, <1>4, <1>7, <1>8 DEF NetInv, DeliveredInv, PendingInv, UniqueMessageKeys, To
<1>12. << >> \in RootKey /\ \A i \in Nat : <<Alice, i>> \in PublicKey /\ <<Bob, i>> \in PublicKey
  BY DEF RootKey, PublicKey, Party
<1>a. /\ a.RK \in RootKey /\ Len(a.RK) = 1
      /\ a.RK # ZeroChain.root /\ a.RK # CorruptKey[1]
  <2>1. a.DHs \in PublicKey /\ <<Bob, 0>> \in PublicKey /\ << >> \in RootKey
    BY <1>7, <1>12
  <2>2. Len(<< >>) = 0
    OBVIOUS
  <2>3. /\ a.RK \in RootKey /\ Len(a.RK) = Len(<< >>) + 1
        /\ a.RK # ZeroChain.root /\ a.RK # CorruptKey[1]
    <3> HIDE DEF a
    <3> QED BY <1>7, <2>1, AppendFacts, ZenonT(40)
  <2> QED BY <2>2, <2>3
<1>13. CASE kyber
  <2>1. b.RK = << >> /\ b.CKr = ZeroChain
    BY <1>5, <1>13 DEF InitialResponder
  <2>3. << >> # ZeroChain.root /\ << >> # CorruptKey[1] /\ ZeroChain.root # CorruptKey[1]
    BY DEF ZeroChain, CorruptKey
  <2>4. ChainsInv
    BY <1>4, <1>7, <1>8, <1>13, <1>a, <2>1, <2>3 DEF ChainsInv, ZeroChain
  <2>5. LockStep
    <3>1. a.RK = Append(b.RK, DH(b.DHs, a.DHs))
      BY <1>7, <1>8, <1>13, <2>1 DEF DH
    <3>2. /\ a.DHr = b.DHs /\ a.CKr.root = b.RK /\ a.DHs \notin b.SeenDH
          /\ b.CKr.root # a.RK
      BY <1>7, <1>8, <1>13, <1>a, <2>1
    <3> QED BY <1>4, <3>1, <3>2 DEF LockStep
  <2> QED BY <1>3, <1>9, <1>10, <1>11, <2>4, <2>5 DEF IInv
<1>14. CASE ~kyber
  <2>1. /\ b.CKr = [root |-> Append(<< >>, DH(<<Bob, 0>>, <<Alice, 0>>)), n |-> 0]
        /\ b.RK = Append(b.CKr.root, DH(<<Bob, 1>>, <<Alice, 0>>))
    BY <1>5, <1>14 DEF InitialResponder, SignedPreKey, BaseKey, KDFRoot, ChainStart
  <2>2. b.CKr.root = a.RK
    BY <1>7, <1>14, <2>1 DEF DH
  <2>4. Len(b.RK) = 2 /\ b.RK # ZeroChain.root
    <3>1. <<Bob, 1>> \in PublicKey /\ <<Alice, 0>> \in PublicKey
      BY <1>12
    <3>2. b.RK = Append(a.RK, DH(<<Bob, 1>>, <<Alice, 0>>))
      BY <2>1, <2>2
    <3>3. Len(b.RK) = Len(a.RK) + 1 /\ b.RK # ZeroChain.root
      <4> HIDE DEF a, b
      <4> QED BY <1>a, <3>1, <3>2, AppendFacts, Zenon
    <3> QED BY <1>a, <3>3
  <2>5. ZeroChain.root # CorruptKey[1] /\ ZeroChain.n = 0
    BY DEF ZeroChain, CorruptKey
  <2>6. ChainsInv
    BY <1>4, <1>7, <1>8, <1>14, <1>a, <2>1, <2>2, <2>4, <2>5 DEF ChainsInv
  <2>7. LockStep
    <3>1. b.RK = Append(a.RK, DH(a.DHs, b.DHs))
      BY <1>7, <1>8, <1>14, <2>1, <2>2 DEF DH
    <3>2. /\ b.DHr = a.DHs /\ b.CKr.root = a.RK /\ b.DHs \notin a.SeenDH
          /\ a.CKr.root # b.RK
      BY <1>7, <1>8, <1>14, <2>2, <2>4
    <3> QED BY <1>4, <3>1, <3>2 DEF LockStep
  <2> QED BY <1>3, <1>9, <1>10, <1>11, <2>6, <2>7 DEF IInv
<1> QED BY <1>13, <1>14

-----------------------------------------------------------------------------
(* Every step preserves it. *)

\* The two parties have mixed a different number of DH outputs into the root.
LEMMA RootsDiffer ==
  ASSUME TypeOK, LockStep, NEW p \in Party
  PROVE  st[p].RK # st[Peer(p)].RK
<1>1. PICK b \in Party :
        st[b].RK = Append(st[Peer(b)].RK, DH(st[Peer(b)].DHs, st[b].DHs))
  BY DEF LockStep
<1>2. /\ st[Peer(b)].RK \in RootKey /\ st[Peer(b)].DHs \in PublicKey
      /\ st[b].DHs \in PublicKey
  BY PeerFacts DEF TypeOK, State
<1>3. Len(st[b].RK) = Len(st[Peer(b)].RK) + 1 /\ Len(st[Peer(b)].RK) \in Nat
  BY <1>1, <1>2, AppendFacts, Zenon
<1>4. st[b].RK # st[Peer(b)].RK
  BY <1>3
<1>5. p = b \/ p = Peer(b)
  BY DEF Party, Peer
<1> QED BY <1>4, <1>5, PeerFacts

\* Sending preserves the invariant: the new message extends the current chain.
LEMMA EncryptIInv ==
  ASSUME IInv, NEW p \in Party, Encrypt(p)
  PROVE  IInv'
<1> DEFINE s == st[p]
           t == st'[p]
           q == Peer(p)
<1> USE DEF IInv
<1>0. PICK msg : msg = NextMessage(p)
  OBVIOUS
<1>1. q \in Party /\ q # p /\ Peer(q) = p /\ \A x \in Party : x = p \/ x = q
  BY PeerFacts DEF Party, Peer
<1> HIDE DEF s, t, q
<1>2. s \in State /\ st[q] \in State /\ s.Ns < MaxCounter /\ s.Ns \in Nat
  BY <1>1 DEF TypeOK, State, Encrypt, s
<1>3. /\ st' = [st EXCEPT ![p] = [s EXCEPT !.CKs = KDFChain(s.CKs, 1), !.Ns = s.Ns + 1]]
      /\ net' = net \cup {msg}
      /\ keys' = keys /\ delivered' = delivered /\ plaintexts' = plaintexts
  BY <1>0, Zenon DEF Encrypt, s
<1>4. s.CKs = [root |-> s.RK, n |-> s.Ns]
  BY DEF ChainsInv, s
<1>5. /\ t \in State
      /\ t.DHs = s.DHs /\ t.DHr = s.DHr /\ t.RK = s.RK /\ t.CKr = s.CKr
      /\ t.CKs = [root |-> s.RK, n |-> s.Ns + 1] /\ t.Ns = s.Ns + 1
      /\ t.Nr = s.Nr /\ t.PN = s.PN
      /\ t.MKSkipped = s.MKSkipped /\ t.SeenDH = s.SeenDH
  <2>1. KDFChain(s.CKs, 1) = [root |-> s.RK, n |-> s.Ns + 1]
    BY <1>4 DEF KDFChain
  <2>2. t = [s EXCEPT !.CKs = [root |-> s.RK, n |-> s.Ns + 1], !.Ns = s.Ns + 1]
    BY <1>3, <2>1 DEF TypeOK, t
  <2>3. [root |-> s.RK, n |-> s.Ns + 1] \in ChainKey /\ s.Ns + 1 \in Nat
    BY <1>2 DEF ChainKey, State
  <2> QED BY <1>2, <2>2, <2>3 DEF State
<1>6. st'[q] = st[q] /\ st'[p] = t /\ st[p] = s /\ st' \in [Party -> State]
  BY <1>1, <1>3, <1>5 DEF TypeOK, t, s
<1>7. /\ msg \in Message /\ msg.from = p /\ msg.mk = <<s.RK, s.Ns>>
      /\ msg.hdr.DH = s.DHs /\ msg.hdr.N = s.Ns
  <2>1. KDFMessageKey(s.CKs) = <<s.RK, s.Ns>>
    BY <1>4 DEF KDFMessageKey
  <2>2. <<s.RK, s.Ns>> \in MessageKey /\ [DH |-> s.DHs, PN |-> s.PN, N |-> s.Ns] \in Header
    BY <1>2 DEF MessageKey, Header, State
  <2>3. msg = [from |-> p, hdr |-> [DH |-> s.DHs, PN |-> s.PN, N |-> s.Ns],
               mk |-> <<s.RK, s.Ns>>]
    BY <1>0, <2>1 DEF NextMessage, s
  <2> QED BY <2>2, <2>3 DEF Message
<1>8. TypeOK'
  BY <1>1, <1>2, <1>3, <1>5, <1>6, <1>7, ConstantsAssumption DEF TypeOK
<1>9. KeysInv'
  BY <1>1, <1>3, <1>5, <1>6 DEF KeysInv, s, t, q
<1>10. ChainsInv'
  <2> SUFFICES ASSUME NEW x \in Party
               PROVE  /\ st'[x].CKs = [root |-> st'[x].RK, n |-> st'[x].Ns]
                      /\ st'[x].CKr.n = st'[x].Nr
                      /\ st'[x].CKr.root # st'[x].RK
                      /\ st'[x].CKr.root # CorruptKey[1]
                      /\ st'[x].RK # ZeroChain.root
    BY DEF ChainsInv
  <2>1. CASE x = p
    BY <1>5, <1>6, <2>1, ZenonT(40) DEF ChainsInv
  <2>2. CASE x = q
    BY <1>6, <2>2 DEF ChainsInv
  <2> QED BY <1>1, <2>1, <2>2
<1>11. LockStep'
  <2>1. \A x \in Party : /\ st'[x].RK = st[x].RK /\ st'[x].DHs = st[x].DHs
                         /\ st'[x].DHr = st[x].DHr /\ st'[x].CKr = st[x].CKr
                         /\ st'[x].SeenDH = st[x].SeenDH
    BY <1>1, <1>5, <1>6
  <2> QED BY <2>1, PeerFacts DEF LockStep
<1>12. SkippedInv'
  BY <1>1, <1>5, <1>6 DEF SkippedInv, s, t, q
<1>13. NetInv'
  <2>1. ASSUME NEW m \in net
        PROVE  /\ m.hdr.DH[1] = m.from /\ m.hdr.DH[2] < keys'[m.from]
               /\ MessageInv(m, st'[m.from], st'[Peer(m.from)])
    <3>1. m.from = p \/ m.from = q
      BY <1>1 DEF TypeOK, Message
    <3>2. /\ m.hdr.DH[1] = m.from /\ m.hdr.DH[2] < keys[m.from]
          /\ MessageInv(m, st[m.from], st[Peer(m.from)])
      BY DEF NetInv
    <3>3. m.hdr.N \in Nat
      BY DEF TypeOK, Message, Header
    <3>4. CASE m.from = p
      BY <1>1, <1>2, <1>3, <1>5, <1>6, <3>2, <3>3, <3>4 DEF MessageInv, q
    <3>5. CASE m.from = q
      BY <1>1, <1>2, <1>3, <1>5, <1>6, <3>2, <3>3, <3>5 DEF MessageInv
    <3> QED BY <3>1, <3>4, <3>5
  <2>2. /\ msg.hdr.DH[1] = p /\ msg.hdr.DH[2] < keys'[p]
        /\ MessageInv(msg, t, st[q])
    <3>1. s.RK # st[q].RK
      BY <1>1, RootsDiffer DEF s, q
    <3>2. s.RK = st[q].CKr.root <=> s.DHs = st[q].DHr
      <4>1. PICK b \in Party :
              /\ st[b].DHr = st[Peer(b)].DHs
              /\ st[b].CKr.root = st[Peer(b)].RK
              /\ st[b].DHs \notin st[Peer(b)].SeenDH
              /\ st[Peer(b)].CKr.root # st[b].RK
        BY DEF LockStep
      <4>2. CASE b = q
        BY <1>1, <1>6, <4>1, <4>2
      <4>3. CASE b = p
        <5>1. st[q].DHr \in st[q].SeenDH
          BY <1>1 DEF KeysInv
        <5> QED BY <1>1, <1>6, <4>1, <4>3, <5>1 DEF q
      <4> QED BY <1>1, <4>2, <4>3
    <3>3. s.RK # s.CKr.root /\ s.RK # ZeroChain.root
      BY DEF ChainsInv, s
    <3>4. s.DHs[1] = p /\ s.DHs[2] < keys[p]
      BY DEF KeysInv, s
    <3>5. Len(s.RK) <= Len(s.RK)
      BY <1>2 DEF State, RootKey
    <3> QED BY <1>2, <1>3, <1>5, <1>7, <3>1, <3>2, <3>3, <3>4, <3>5 DEF MessageInv
  <2> QED BY <1>1, <1>3, <1>6, <1>7, <2>1, <2>2 DEF NetInv, q
<1>14. DeliveredInv'
  <2>1. \A x \in Party : To(x) \subseteq To(x)'
    BY <1>3 DEF To
  <2>2. st'[p].DHr = st'[q].DHs => st'[p].Nr <= st'[q].Ns
    BY <1>1, <1>5, <1>6 DEF DeliveredInv, s, t, q
  <2>3. st'[q].DHr = st'[p].DHs => st'[q].Nr <= st'[p].Ns
    BY <1>1, <1>2, <1>5, <1>6 DEF DeliveredInv, s, t, q, State
  <2> QED BY <1>1, <1>3, <1>5, <1>6, <2>1, <2>2, <2>3 DEF DeliveredInv, SkippedKeys, s, t, q
<1>15. PendingInv'
  <2> SUFFICES ASSUME NEW x \in Party, NEW m \in To(x)',
                      m.hdr.DH = st'[x].DHr, m.hdr.N < st'[x].Nr
               PROVE  m \in delivered'[x] \/ SkippedKeys(st'[x], m.hdr) # {}
    BY DEF PendingInv
  <2>1. CASE m \in net
    <3>1. m \in To(x)
      BY <2>1 DEF To
    <3>2. st'[x].DHr = st[x].DHr /\ st'[x].Nr = st[x].Nr /\ st'[x].MKSkipped = st[x].MKSkipped
      BY <1>1, <1>5, <1>6 DEF s, t, q
    <3> QED BY <1>3, <3>1, <3>2 DEF PendingInv, SkippedKeys
  <2>2. CASE m = msg
    <3>1. x = q
      BY <1>1, <1>7, <2>2 DEF To, q
    <3>2. st[q].DHr = s.DHs /\ s.Ns < st[q].Nr
      BY <1>6, <1>7, <2>2, <3>1
    <3>3. st[q].Nr <= s.Ns
      BY <1>1, <3>2 DEF DeliveredInv, s
    <3> QED BY <1>2, <3>2, <3>3 DEF State
  <2> QED BY <1>3, <2>1, <2>2 DEF To
<1>16. UniqueMessageKeys'
  <2>1. ASSUME NEW m \in net
        PROVE  m.mk # msg.mk
    <3>1. MessageInv(m, st[m.from], st[Peer(m.from)])
      BY DEF NetInv
    <3>2. m.from = p \/ m.from = q
      BY <1>1 DEF TypeOK, Message
    <3>3. m.hdr.N \in Nat
      BY DEF TypeOK, Message, Header
    <3> QED BY <1>1, <1>2, <1>7, <3>1, <3>2, <3>3 DEF MessageInv, s, q
  <2> QED BY <1>3, <2>1 DEF UniqueMessageKeys
<1> QED BY <1>8, <1>9, <1>10, <1>11, <1>12, <1>13, <1>14, <1>15, <1>16 DEF IInv

-----------------------------------------------------------------------------
(* A successful Decrypt without a ratchet step. *)

\* The variables after p has accepted m and committed the state t.
Committed(p, m, t) ==
  /\ st' = [st EXCEPT ![p] = t]
  /\ keys' = [keys EXCEPT ![p] = IF t.DHs = st[p].DHs THEN @ ELSE @ + 1]
  /\ delivered' = [delivered EXCEPT ![p] = @ \cup {m}]
  /\ plaintexts' = [plaintexts EXCEPT ![p] = @ + 1]
  /\ net' = net

\* Only the receiving chain and the stored keys change, and m's number is no
\* longer available while every other number passed over is.
SameChain(s, t, m) ==
  /\ t \in State
  /\ t.DHs = s.DHs /\ t.DHr = s.DHr /\ t.RK = s.RK /\ t.CKs = s.CKs
  /\ t.Ns = s.Ns /\ t.PN = s.PN /\ t.SeenDH = s.SeenDH
  /\ t.CKr.root = s.CKr.root /\ t.CKr.n = t.Nr
  /\ m.hdr.DH = s.DHr /\ m.mk = <<s.CKr.root, m.hdr.N>>
  /\ t.Nr <= MaxCounter /\ s.Nr <= t.Nr /\ m.hdr.N < t.Nr
  /\ t.Nr = s.Nr \/ t.Nr = m.hdr.N + 1
  /\ IsFiniteSet(t.MKSkipped) /\ Cardinality(t.MKSkipped) <= MaxSkip
  /\ \A e \in t.MKSkipped : e.DH = t.DHr /\ e.N < t.Nr /\ e.mk = <<t.CKr.root, e.N>>
  /\ \A h \in Header : h.DH = s.DHr =>
       (SkippedKeys(t, h) # {} <=>
          /\ h.N # m.hdr.N
          /\ SkippedKeys(s, h) # {} \/ (s.Nr <= h.N /\ h.N < t.Nr))

\* Using a stored key stays on the chain and frees its entry.
LEMMA SkippedSame ==
  ASSUME NEW s, StateInv(s), NEW t, NEW m, m.hdr \in Header, SkippedStep(s, t, m),
         IsFiniteSet(s.MKSkipped), Cardinality(s.MKSkipped) <= MaxSkip
  PROVE  SameChain(s, t, m)
<1> DEFINE found == SkippedKeys(s, m.hdr)
<1>1. /\ m.hdr.DH = s.DHr /\ m.hdr.N < s.Nr /\ m.mk = <<s.CKr.root, m.hdr.N>>
      /\ t = [s EXCEPT !.MKSkipped = @ \ found]
  BY DEF SkippedStep
<1>2. s \in State /\ s.MKSkipped \ found \subseteq s.MKSkipped
  BY DEF StateInv
<1>3. IsFiniteSet(s.MKSkipped \ found)
      /\ Cardinality(s.MKSkipped \ found) <= Cardinality(s.MKSkipped)
      /\ Cardinality(s.MKSkipped \ found) \in Nat /\ Cardinality(s.MKSkipped) \in Nat
  BY <1>2, FS_Subset, FS_CardinalityType
<1>4. /\ t \in State
      /\ t.DHs = s.DHs /\ t.DHr = s.DHr /\ t.RK = s.RK /\ t.CKs = s.CKs
      /\ t.Ns = s.Ns /\ t.PN = s.PN /\ t.SeenDH = s.SeenDH
      /\ t.CKr = s.CKr /\ t.Nr = s.Nr /\ t.MKSkipped = s.MKSkipped \ found
  BY <1>1, <1>2 DEF State
<1>5. t.Nr <= MaxCounter /\ s.Nr <= t.Nr /\ t.CKr.n = t.Nr
  BY <1>4 DEF StateInv, State
<1>6. \A e \in t.MKSkipped : e.DH = t.DHr /\ e.N < t.Nr /\ e.mk = <<t.CKr.root, e.N>>
  BY <1>4 DEF StateInv
<1>7. ASSUME NEW h \in Header, h.DH = s.DHr
      PROVE  SkippedKeys(t, h) # {} <=>
               /\ h.N # m.hdr.N
               /\ SkippedKeys(s, h) # {} \/ (s.Nr <= h.N /\ h.N < t.Nr)
  <2>1. ~(s.Nr <= h.N /\ h.N < t.Nr)
    BY <1>2, <1>4 DEF Header, State
  <2>2. CASE h.N = m.hdr.N
    BY <1>1, <1>4, <1>7, <2>2 DEF SkippedKeys
  <2>3. CASE h.N # m.hdr.N
    BY <1>1, <1>4, <1>7, <2>1, <2>3 DEF SkippedKeys
  <2> QED BY <2>2, <2>3
<1>8. Cardinality(t.MKSkipped) <= MaxSkip /\ IsFiniteSet(t.MKSkipped)
  BY <1>3, <1>4, ConstantsAssumption
<1> QED BY <1>1, <1>4, <1>5, <1>6, <1>7, <1>8 DEF SameChain

\* Advancing the chain stores exactly the numbers passed over, within MaxSkip.
LEMMA ChainSame ==
  ASSUME NEW s, StateInv(s), NEW t, NEW m, m.hdr \in Header, ChainStep(s, t, m),
         IsFiniteSet(s.MKSkipped), Cardinality(s.MKSkipped) <= MaxSkip
  PROVE  SameChain(s, t, m)
<1> DEFINE N == m.hdr.N
           P == Passed(s.DHr, s.CKr.root, s.Nr, N)
<1>1. /\ m.hdr.DH = s.DHr /\ s.Nr <= N /\ N < MaxCounter
      /\ m.mk = <<s.CKr.root, N>> /\ CanSkip(s, N)
      /\ t = [s EXCEPT !.CKr = [root |-> s.CKr.root, n |-> N + 1],
                        !.Nr = N + 1, !.MKSkipped = @ \cup P]
  BY DEF ChainStep
<1>2. s \in State /\ N \in Nat /\ s.Nr \in Nat /\ s.CKr \in ChainKey /\ s.DHr \in PublicKey
      /\ s.CKr.root \in RootKey /\ s.MKSkipped \subseteq SkippedEntry
  BY DEF StateInv, State, Header, ChainKey
<1>3. P \subseteq SkippedEntry
  BY <1>2, PassedType
<1>4. \A e \in P : e.DH = s.DHr /\ e.N \in s.Nr .. (N - 1) /\ e.mk = <<s.CKr.root, e.N>>
  BY DEF Passed
<1>5. \A i \in s.Nr .. (N - 1) : [DH |-> s.DHr, N |-> i, mk |-> <<s.CKr.root, i>>] \in P
  BY DEF Passed
<1>6. IsFiniteSet(P) /\ Cardinality(P) \in Nat /\ Cardinality(P) <= N - s.Nr
  BY <1>1, <1>2, PassedFinite
<1> HIDE DEF P, N
<1>7. IsFiniteSet(s.MKSkipped \cup P) /\ Cardinality(s.MKSkipped \cup P) <= MaxSkip
  <2>1. IsFiniteSet(s.MKSkipped \cap P) /\ Cardinality(s.MKSkipped \cap P) \in Nat
        /\ Cardinality(s.MKSkipped) \in Nat
    BY FS_Intersection, FS_CardinalityType
  <2>2. IsFiniteSet(s.MKSkipped \cup P) /\ Cardinality(s.MKSkipped \cup P) =
          Cardinality(s.MKSkipped) + Cardinality(P) - Cardinality(s.MKSkipped \cap P)
    BY <1>6, FS_Union
  <2>3. CASE N = s.Nr
    BY <1>2, <1>6, <2>1, <2>2, <2>3, ConstantsAssumption
  <2>4. CASE N > s.Nr
    <3>1. Cardinality(s.MKSkipped) + (N - s.Nr) <= MaxSkip
      BY <1>1, <1>2, <2>4 DEF CanSkip
    <3> QED BY <1>2, <1>6, <2>1, <2>2, <3>1, ConstantsAssumption
  <2> QED BY <1>1, <1>2, <2>3, <2>4
<1>8. /\ t \in State
      /\ t.DHs = s.DHs /\ t.DHr = s.DHr /\ t.RK = s.RK /\ t.CKs = s.CKs
      /\ t.Ns = s.Ns /\ t.PN = s.PN /\ t.SeenDH = s.SeenDH
      /\ t.CKr = [root |-> s.CKr.root, n |-> N + 1] /\ t.Nr = N + 1
      /\ t.MKSkipped = s.MKSkipped \cup P
  <2>1. [root |-> s.CKr.root, n |-> N + 1] \in ChainKey /\ N + 1 \in Nat
    BY <1>2 DEF ChainKey
  <2> QED BY <1>1, <1>2, <1>3, <2>1 DEF State
<1>9. t.Nr <= MaxCounter /\ s.Nr <= t.Nr /\ N < t.Nr /\ t.CKr.n = t.Nr
  BY <1>1, <1>2, <1>8, ConstantsAssumption
<1>10. \A e \in t.MKSkipped : e.DH = t.DHr /\ e.N < t.Nr /\ e.mk = <<t.CKr.root, e.N>>
  <2>1. ASSUME NEW e \in s.MKSkipped PROVE e.N < N + 1 /\ e.DH = s.DHr /\ e.mk = <<s.CKr.root, e.N>>
    BY <1>1, <1>2 DEF StateInv, SkippedEntry
  <2>2. ASSUME NEW e \in P PROVE e.N < N + 1
    BY <1>2, <1>4
  <2> QED BY <1>4, <1>8, <2>1, <2>2
<1>11. ASSUME NEW h \in Header, h.DH = s.DHr
      PROVE  SkippedKeys(t, h) # {} <=>
               /\ h.N # N
               /\ SkippedKeys(s, h) # {} \/ (s.Nr <= h.N /\ h.N < t.Nr)
  <2>0. h.N \in Nat
    BY DEF Header
  <2>1. \A e \in s.MKSkipped : e.N # N
    BY <1>1, <1>2 DEF StateInv, SkippedEntry
  <2>2. CASE h.N = N
    <3>1. \A e \in t.MKSkipped : e.N # N
      BY <1>2, <1>4, <1>8, <2>1
    <3> QED BY <2>2, <3>1 DEF SkippedKeys
  <2>3. CASE h.N # N /\ h.N \in s.Nr .. (N - 1)
    <3>1. [DH |-> s.DHr, N |-> h.N, mk |-> <<s.CKr.root, h.N>>] \in SkippedKeys(t, h)
      BY <1>5, <1>8, <1>11, <2>3 DEF SkippedKeys
    <3> QED BY <1>2, <1>8, <2>3, <3>1
  <2>4. CASE h.N # N /\ h.N \notin s.Nr .. (N - 1)
    <3>1. SkippedKeys(t, h) = SkippedKeys(s, h)
      BY <1>4, <1>8, <2>4 DEF SkippedKeys
    <3>2. ~(s.Nr <= h.N /\ h.N < t.Nr)
      BY <1>2, <1>8, <2>0, <2>4
    <3> QED BY <2>4, <3>1, <3>2
  <2> QED BY <2>2, <2>3, <2>4
<1> QED BY <1>1, <1>7, <1>8, <1>9, <1>10, <1>11 DEF SameChain, N
\* Accepting m on the current receiving chain preserves the invariant.
LEMMA SameChainIInv ==
  ASSUME IInv, NEW p \in Party, NEW m \in To(p), NEW t, NEW s, s = st[p],
         SameChain(s, t, m), Committed(p, m, t)
  PROVE  IInv'
<1> USE DEF IInv
<1>0. PICK q \in Party : q = Peer(p)
  BY PeerFacts
<1>1. q # p /\ Peer(q) = p /\ \A x \in Party : x = p \/ x = q
  BY <1>0, PeerFacts DEF Party, Peer
<1>2. s \in State /\ t \in State /\ st[q] \in State
  BY DEF TypeOK, SameChain
<1>3. st'[p] = t /\ st'[q] = st[q] /\ st' \in [Party -> State]
  BY <1>1, <1>2 DEF TypeOK, Committed
<1>4. keys' = keys /\ net' = net
  BY DEF TypeOK, Committed, SameChain
<1>5. delivered'[p] = delivered[p] \cup {m} /\ delivered'[q] = delivered[q]
  BY <1>1 DEF TypeOK, Committed
<1>6. m \in net /\ m \in Message /\ m.from = q
  BY <1>0 DEF To, TypeOK
<1>7. /\ t.DHs = s.DHs /\ t.DHr = s.DHr /\ t.RK = s.RK /\ t.CKs = s.CKs
      /\ t.Ns = s.Ns /\ t.SeenDH = s.SeenDH
      /\ t.CKr.root = s.CKr.root /\ t.CKr.n = t.Nr
      /\ m.hdr.DH = s.DHr /\ m.mk = <<s.CKr.root, m.hdr.N>>
      /\ t.Nr <= MaxCounter /\ s.Nr <= t.Nr /\ m.hdr.N < t.Nr
      /\ t.Nr = s.Nr \/ t.Nr = m.hdr.N + 1
  BY DEF SameChain
<1>8. \A x \in Party : To(x)' = To(x)
  BY <1>4 DEF To
<1>9. TypeOK'
  <2>1. delivered' \in [Party -> SUBSET Message] /\ plaintexts' \in [Party -> Nat]
    BY <1>6 DEF TypeOK, Committed
  <2>2. \A x \in Party : st'[x].Ns <= MaxCounter /\ st'[x].Nr <= MaxCounter
    BY <1>1, <1>3, <1>7 DEF TypeOK
  <2> QED BY <1>3, <1>4, <2>1, <2>2 DEF TypeOK
<1>10. KeysInv'
  <2> SUFFICES ASSUME NEW x \in Party
               PROVE  /\ st'[x].DHs[1] = x /\ st'[x].DHs[2] < keys[x]
                      /\ st'[x].DHr \in st'[x].SeenDH
                      /\ \A k \in st'[x].SeenDH : k[1] = Peer(x) /\ k[2] < keys[Peer(x)]
    BY <1>4 DEF KeysInv
  <2>1. st'[x].DHs = st[x].DHs /\ st'[x].DHr = st[x].DHr /\ st'[x].SeenDH = st[x].SeenDH
    BY <1>1, <1>3, <1>7
  <2> QED BY <2>1 DEF KeysInv
<1>11. ChainsInv'
  <2> SUFFICES ASSUME NEW x \in Party
               PROVE  /\ st'[x].CKs = [root |-> st'[x].RK, n |-> st'[x].Ns]
                      /\ st'[x].CKr.n = st'[x].Nr
                      /\ st'[x].CKr.root # st'[x].RK
                      /\ st'[x].CKr.root # CorruptKey[1]
                      /\ st'[x].RK # ZeroChain.root
    BY DEF ChainsInv
  <2>1. CASE x = p
    BY <1>3, <1>7, <2>1 DEF ChainsInv
  <2>2. CASE x = q
    BY <1>3, <2>2 DEF ChainsInv
  <2> QED BY <1>1, <2>1, <2>2
<1>12. LockStep'
  <2>1. \A x \in Party : /\ st'[x].RK = st[x].RK /\ st'[x].DHs = st[x].DHs
                         /\ st'[x].DHr = st[x].DHr /\ st'[x].CKr.root = st[x].CKr.root
                         /\ st'[x].SeenDH = st[x].SeenDH
    BY <1>1, <1>3, <1>7
  <2> QED BY <2>1, PeerFacts DEF LockStep
<1>13. SkippedInv'
  <2> SUFFICES ASSUME NEW x \in Party
               PROVE  /\ IsFiniteSet(st'[x].MKSkipped)
                      /\ Cardinality(st'[x].MKSkipped) <= MaxSkip
                      /\ \A e \in st'[x].MKSkipped :
                           e.DH = st'[x].DHr /\ e.N < st'[x].Nr /\ e.mk = <<st'[x].CKr.root, e.N>>
    BY DEF SkippedInv
  <2>1. CASE x = p
    BY <1>3, <2>1 DEF SameChain
  <2>2. CASE x = q
    BY <1>3, <2>2 DEF SkippedInv
  <2> QED BY <1>1, <2>1, <2>2
<1>14. NetInv'
  <2> SUFFICES ASSUME NEW n \in net
               PROVE  /\ n.hdr.DH[1] = n.from /\ n.hdr.DH[2] < keys[n.from]
                      /\ MessageInv(n, st'[n.from], st'[Peer(n.from)])
    BY <1>4 DEF NetInv
  <2>1. /\ n.hdr.DH[1] = n.from /\ n.hdr.DH[2] < keys[n.from]
        /\ MessageInv(n, st[n.from], st[Peer(n.from)])
    BY DEF NetInv
  <2>2. CASE n.from = p
    <3>1. MessageInv(n, s, st[q])
      BY <1>0, <2>1, <2>2
    <3>2. MessageInv(n, t, st[q])
      BY <1>7, <3>1 DEF MessageInv
    <3> QED BY <1>0, <1>3, <2>1, <2>2, <3>2
  <2>3. CASE n.from = q
    <3>1. MessageInv(n, st[q], s)
      BY <1>1, <2>1, <2>3
    <3>2. MessageInv(n, st[q], t)
      BY <1>7, <3>1 DEF MessageInv
    <3> QED BY <1>1, <1>3, <2>1, <2>3, <3>2
  <2> QED BY <1>1, <2>2, <2>3 DEF TypeOK, Message
<1>15. DeliveredInv'
  <2>1. ASSUME NEW n \in delivered'[p]
        PROVE  /\ n \in To(p)
               /\ n.hdr.DH \in t.SeenDH
               /\ n.hdr.DH = t.DHr => n.hdr.N < t.Nr /\ SkippedKeys(t, n.hdr) = {}
    <3>1. n \in To(p) /\ n.hdr.DH \in t.SeenDH
      BY <1>5, <1>7 DEF DeliveredInv, KeysInv
    <3>2. n.hdr \in Header /\ n.hdr.N \in Nat
      BY <3>1 DEF To, TypeOK, Message, Header
    <3>3. CASE n = m
      BY <1>7, <3>1, <3>2, <3>3 DEF SameChain
    <3>4. CASE n \in delivered[p] /\ n.hdr.DH = t.DHr
      <4>1. n.hdr.N < s.Nr /\ SkippedKeys(s, n.hdr) = {}
        BY <1>7, <3>4 DEF DeliveredInv
      <4>2. SkippedKeys(t, n.hdr) = {}
        BY <1>2, <1>7, <3>2, <3>4, <4>1 DEF SameChain, State
      <4>3. n.hdr.N < t.Nr
        BY <1>2, <1>7, <3>2, <4>1 DEF State
      <4> QED BY <3>1, <4>2, <4>3
    <3> QED BY <1>5, <3>1, <3>3, <3>4
  <2>2. t.DHr = st[q].DHs => t.Nr <= st[q].Ns
    <3>1. s.DHr = st[q].DHs => s.Nr <= st[q].Ns
      BY <1>0 DEF DeliveredInv
    <3>2. MessageInv(m, st[q], s)
      BY <1>1, <1>6 DEF NetInv
    <3>3. m.hdr.DH = st[q].DHs => m.hdr.N < st[q].Ns
      BY <3>2 DEF MessageInv
    <3>4. m.hdr.N \in Nat /\ st[q].Ns \in Nat
      BY <1>2, <1>6 DEF Message, Header, State
    <3> QED BY <1>7, <3>1, <3>3, <3>4
  <2>3. /\ \A n \in delivered'[q] :
             /\ n \in To(q)
             /\ n.hdr.DH \in st[q].SeenDH
             /\ n.hdr.DH = st[q].DHr => n.hdr.N < st[q].Nr /\ SkippedKeys(st[q], n.hdr) = {}
        /\ st[q].DHr = t.DHs => st[q].Nr <= t.Ns
    BY <1>1, <1>5, <1>7 DEF DeliveredInv
  <2> SUFFICES ASSUME NEW x \in Party
               PROVE  /\ \A n \in delivered'[x] :
                           /\ n \in To(x)
                           /\ n.hdr.DH \in st'[x].SeenDH
                           /\ n.hdr.DH = st'[x].DHr =>
                                n.hdr.N < st'[x].Nr /\ SkippedKeys(st'[x], n.hdr) = {}
                      /\ st'[x].DHr = st'[Peer(x)].DHs => st'[x].Nr <= st'[Peer(x)].Ns
    BY <1>8 DEF DeliveredInv, SkippedKeys
  <2>4. CASE x = p
    BY <1>0, <1>3, <2>1, <2>2, <2>4
  <2>5. CASE x = q
    BY <1>1, <1>3, <2>3, <2>5
  <2> QED BY <1>1, <2>4, <2>5
<1>16. PendingInv'
  <2> SUFFICES ASSUME NEW x \in Party, NEW n \in To(x),
                      n.hdr.DH = st'[x].DHr, n.hdr.N < st'[x].Nr
               PROVE  n \in delivered'[x] \/ SkippedKeys(st'[x], n.hdr) # {}
    BY <1>8 DEF PendingInv, SkippedKeys
  <2>1. CASE x = q
    BY <1>3, <1>5, <2>1 DEF PendingInv
  <2>2. CASE x = p
    <3>1. n \in net /\ n.from = q /\ n.hdr \in Header /\ n.hdr.N \in Nat /\ n \in Message
      BY <1>0, <2>2 DEF To, TypeOK, Message, Header
    <3>2. n.hdr.DH = s.DHr /\ n.hdr.N < t.Nr
      BY <1>3, <1>7, <2>2
    <3>3. CASE n.hdr.N = m.hdr.N
      <4>1. MessageInv(n, st[q], s)
        BY <1>1, <3>1 DEF NetInv
      <4>2. n.mk[1] = s.CKr.root /\ n.mk[2] = m.hdr.N
        BY <3>2, <3>3, <4>1 DEF MessageInv
      <4>3. n.mk = <<s.CKr.root, m.hdr.N>>
        BY <3>1, <4>2 DEF Message, MessageKey
      <4>4. n = m
        BY <1>6, <1>7, <3>1, <4>3 DEF UniqueMessageKeys
      <4> QED BY <1>5, <2>2, <4>4
    <3>4. CASE n.hdr.N # m.hdr.N
      <4>1. s.Nr <= n.hdr.N \/ n.hdr.N < s.Nr
        BY <1>2, <3>1 DEF State
      <4>2. CASE n.hdr.N < s.Nr
        <5>1. n \in delivered[p] \/ SkippedKeys(s, n.hdr) # {}
          BY <2>2, <3>2, <4>2 DEF PendingInv
        <5> QED BY <1>3, <1>5, <2>2, <3>1, <3>2, <3>4, <5>1 DEF SameChain
      <4>3. CASE s.Nr <= n.hdr.N
        BY <1>3, <2>2, <3>1, <3>2, <3>4, <4>3 DEF SameChain
      <4> QED BY <4>1, <4>2, <4>3
    <3> QED BY <3>3, <3>4
  <2> QED BY <1>1, <2>1, <2>2
<1>17. UniqueMessageKeys'
  BY <1>4 DEF UniqueMessageKeys
<1> QED BY <1>9, <1>10, <1>11, <1>12, <1>13, <1>14, <1>15, <1>16, <1>17 DEF IInv
-----------------------------------------------------------------------------
(* A successful Decrypt with a ratchet step. *)

\* Before the step the peer (state u) is the one ahead, and m is of its
\* current chain; t is the state of the receiver after it.
PeerAhead(s, u, t, m, fresh) ==
  /\ s \in State /\ u \in State /\ t \in State /\ fresh \in PublicKey
  /\ m \in Message
  /\ m.hdr.DH = u.DHs /\ m.hdr.N < u.Ns /\ m.mk = <<u.RK, m.hdr.N>>
  /\ u.RK = Append(s.RK, DH(s.DHs, u.DHs))
  /\ u.DHr = s.DHs /\ u.CKr.root = s.RK
  /\ u.DHs \notin s.SeenDH
  /\ Len(u.RK) = Len(s.RK) + 1 /\ Len(t.RK) = Len(s.RK) + 2 /\ Len(s.RK) \in Nat
  /\ u.RK # ZeroChain.root /\ u.RK # CorruptKey[1] /\ t.RK # ZeroChain.root
  /\ t.RK = Append(u.RK, DH(u.DHs, fresh))
  /\ fresh # s.DHs /\ fresh \notin u.SeenDH /\ fresh # u.DHr

\* A ratchet step on a genuine message happens only when the peer is ahead.
LEMMA RatchetContext ==
  ASSUME IInv, NEW p \in Party, NEW m \in To(p), NEW q, q = Peer(p),
         NEW s, s = st[p], NEW u, u = st[q], NEW t, NEW fresh,
         fresh = <<p, keys[p]>>, RatchetStep(s, t, m, fresh)
  PROVE  m \in net /\ m.from = q /\ PeerAhead(s, u, t, m, fresh)
<1> USE DEF IInv
<1>1. q \in Party /\ q # p /\ Peer(q) = p /\ \A x \in Party : x = p \/ x = q
  BY PeerFacts DEF Party, Peer
<1>2. s \in State /\ u \in State /\ t \in State /\ fresh \in PublicKey
  BY <1>1 DEF TypeOK, PublicKey, RatchetStep, Ratcheted
<1>3. m \in Message /\ m \in net /\ m.from = q
  BY DEF To, TypeOK
<1>4. MessageInv(m, u, s)
  BY <1>1, <1>3 DEF NetInv
<1>5. m.hdr.DH \notin s.SeenDH /\ m.hdr.DH # s.DHr
      /\ m.mk = <<Append(s.RK, DH(s.DHs, m.hdr.DH)), m.hdr.N>>
  BY DEF RatchetStep
<1>6. m.hdr.DH = u.DHs /\ m.hdr.N < u.Ns /\ m.mk[1] = u.RK
  BY <1>4, <1>5 DEF MessageInv
<1>7. m.mk = <<u.RK, m.hdr.N>> /\ u.RK = Append(s.RK, DH(s.DHs, u.DHs))
  BY <1>5, <1>6
<1>8. PICK b \in Party :
        /\ st[b].DHr = st[Peer(b)].DHs
        /\ st[b].CKr.root = st[Peer(b)].RK
        /\ st[b].DHs \notin st[Peer(b)].SeenDH
  BY DEF LockStep
<1>9. b = q
  BY <1>1, <1>5, <1>6, <1>8
<1>10. u.DHr = s.DHs /\ u.CKr.root = s.RK /\ u.DHs \notin s.SeenDH
  BY <1>1, <1>8, <1>9
<1>11. t.RK = Append(u.RK, DH(u.DHs, fresh))
  <2>1. t.RK = Append(Append(s.RK, DH(s.DHs, m.hdr.DH)), DH(fresh, m.hdr.DH))
    BY DEF RatchetStep, Ratcheted
  <2>2. DH(fresh, m.hdr.DH) = DH(u.DHs, fresh)
    BY <1>6 DEF DH
  <2> QED BY <1>6, <1>7, <2>1, <2>2
<1>12. s.RK \in RootKey /\ s.DHs \in PublicKey /\ u.DHs \in PublicKey
  BY <1>2 DEF State
<1>13. /\ u.RK \in RootKey /\ Len(u.RK) = Len(s.RK) + 1 /\ Len(s.RK) \in Nat
       /\ u.RK # ZeroChain.root /\ u.RK # CorruptKey[1]
  <2>1. LET new == Append(s.RK, DH(s.DHs, u.DHs))
        IN  /\ new \in RootKey /\ Len(new) = Len(s.RK) + 1 /\ Len(s.RK) \in Nat
            /\ new # ZeroChain.root /\ new # CorruptKey[1]
    BY <1>12, AppendFacts
  <2> QED BY <1>7, <2>1
<1>14. Len(t.RK) = Len(u.RK) + 1 /\ t.RK # ZeroChain.root
  <2>1. LET new == Append(u.RK, DH(u.DHs, fresh))
        IN  Len(new) = Len(u.RK) + 1 /\ new # ZeroChain.root
    BY <1>2, <1>12, <1>13, AppendFacts
  <2> QED BY <1>11, <2>1
<1>15. Len(t.RK) = Len(s.RK) + 2
  BY <1>13, <1>14
<1>16. fresh # s.DHs /\ fresh \notin u.SeenDH /\ fresh # u.DHr
  <2>1. s.DHs[2] < keys[p] /\ (\A k \in u.SeenDH : k[2] < keys[p]) /\ u.DHr \in u.SeenDH
    BY <1>1 DEF KeysInv
  <2>2. fresh[2] = keys[p] /\ keys[p] \in Nat
    BY DEF TypeOK
  <2> QED BY <2>1, <2>2
<1> QED BY <1>2, <1>3, <1>6, <1>7, <1>10, <1>11, <1>13, <1>14, <1>15, <1>16 DEF PeerAhead

\* Accepting the first message of the peer's new chain preserves the invariant.
LEMMA RatchetIInv ==
  ASSUME IInv, NEW p \in Party, NEW m \in To(p), NEW t, NEW s, s = st[p],
         NEW fresh, fresh = <<p, keys[p]>>,
         RatchetStep(s, t, m, fresh), Committed(p, m, t)
  PROVE  IInv'
<1>0. PICK q \in Party : q = Peer(p)
  BY PeerFacts
<1>1. q # p /\ Peer(q) = p /\ \A x \in Party : x = p \/ x = q
  BY <1>0, PeerFacts DEF Party, Peer
<1>u. PICK u : u = st[q]
  OBVIOUS
<1>c. m \in net /\ m.from = q /\ PeerAhead(s, u, t, m, fresh)
  BY <1>0, <1>u, RatchetContext
<1>2. /\ s \in State /\ u \in State /\ t \in State /\ fresh \in PublicKey
      /\ m \in Message /\ m \in net /\ m.from = q
      /\ m.hdr.DH = u.DHs /\ m.hdr.N < u.Ns /\ m.mk = <<u.RK, m.hdr.N>>
      /\ u.RK = Append(s.RK, DH(s.DHs, u.DHs))
      /\ u.DHr = s.DHs /\ u.CKr.root = s.RK
      /\ u.DHs \notin s.SeenDH
      /\ Len(u.RK) = Len(s.RK) + 1 /\ Len(t.RK) = Len(s.RK) + 2 /\ Len(s.RK) \in Nat
      /\ u.RK # ZeroChain.root /\ u.RK # CorruptKey[1] /\ t.RK # ZeroChain.root
      /\ t.RK = Append(u.RK, DH(u.DHs, fresh))
      /\ fresh # s.DHs /\ fresh \notin u.SeenDH /\ fresh # u.DHr
  BY <1>c, Zenon DEF PeerAhead
<1> USE DEF IInv
<1>3. /\ m.hdr.N < MaxCounter /\ m.hdr.N <= MaxSkip
      /\ t.DHs = fresh /\ t.DHr = u.DHs
      /\ t.CKs = [root |-> t.RK, n |-> 0]
      /\ t.CKr = [root |-> u.RK, n |-> m.hdr.N + 1]
      /\ t.Ns = 0 /\ t.Nr = m.hdr.N + 1
      /\ t.MKSkipped = Passed(u.DHs, u.RK, 0, m.hdr.N)
      /\ t.SeenDH = s.SeenDH \cup {s.DHr, u.DHs}
  BY <1>2, ZenonT(40) DEF RatchetStep, Ratcheted
<1>4. st'[p] = t /\ st'[q] = u /\ st' \in [Party -> State]
  BY <1>1, <1>u, <1>2 DEF TypeOK, Committed
<1>5. keys' = [keys EXCEPT ![p] = keys[p] + 1] /\ net' = net
  BY <1>2, <1>3 DEF Committed
<1>6. keys'[p] = keys[p] + 1 /\ keys'[q] = keys[q] /\ keys[p] \in Nat /\ keys[q] \in Nat
      /\ keys' \in [Party -> Nat]
  BY <1>1, <1>5 DEF TypeOK
<1>7. delivered'[p] = delivered[p] \cup {m} /\ delivered'[q] = delivered[q]
  BY <1>1 DEF TypeOK, Committed
<1>8. \A x \in Party : To(x)' = To(x)
  BY <1>5 DEF To
<1>9. m.hdr \in Header /\ m.hdr.N \in Nat /\ u.Ns \in Nat /\ s.SeenDH \subseteq PublicKey
  BY <1>2 DEF Message, Header, State
<1>10. TypeOK'
  <2>1. delivered' \in [Party -> SUBSET Message] /\ plaintexts' \in [Party -> Nat]
    BY <1>2 DEF TypeOK, Committed
  <2>2. t.Ns <= MaxCounter /\ t.Nr <= MaxCounter
    BY <1>3, <1>9, ConstantsAssumption
  <2>3. \A x \in Party : st'[x].Ns <= MaxCounter /\ st'[x].Nr <= MaxCounter
    BY <1>1, <1>u, <1>4, <2>2 DEF TypeOK
  <2> QED BY <1>4, <1>5, <1>6, <2>1, <2>3 DEF TypeOK
<1>11. KeysInv'
  <2> SUFFICES ASSUME NEW x \in Party
               PROVE  /\ st'[x].DHs[1] = x /\ st'[x].DHs[2] < keys'[x]
                      /\ st'[x].DHr \in st'[x].SeenDH
                      /\ \A k \in st'[x].SeenDH : k[1] = Peer(x) /\ k[2] < keys'[Peer(x)]
    BY DEF KeysInv
  <2>1. CASE x = p
    <3>1. t.DHs[1] = p /\ t.DHs[2] < keys'[p]
      BY <1>3, <1>6
    <3>2. u.DHs[1] = q /\ u.DHs[2] < keys[q]
      BY <1>u DEF KeysInv
    <3>3. s.DHr \in s.SeenDH /\ \A k \in s.SeenDH : k[1] = q /\ k[2] < keys[q]
      BY <1>0 DEF KeysInv
    <3> QED BY <1>0, <1>3, <1>4, <1>6, <2>1, <3>1, <3>2, <3>3
  <2>2. CASE x = q
    <3>1. /\ u.DHs[1] = q /\ u.DHs[2] < keys[q] /\ u.DHr \in u.SeenDH
          /\ \A k \in u.SeenDH : k[1] = p /\ k[2] < keys[p]
      BY <1>1, <1>u DEF KeysInv
    <3>2. \A k \in u.SeenDH : k[2] < keys'[p]
      <4>1. \A k \in u.SeenDH : k[2] \in Nat
        BY <1>2 DEF State, PublicKey
      <4> QED BY <1>6, <3>1, <4>1
    <3> QED BY <1>1, <1>4, <1>6, <2>2, <3>1, <3>2
  <2> QED BY <1>1, <2>1, <2>2
<1>12. ChainsInv'
  <2> SUFFICES ASSUME NEW x \in Party
               PROVE  /\ st'[x].CKs = [root |-> st'[x].RK, n |-> st'[x].Ns]
                      /\ st'[x].CKr.n = st'[x].Nr
                      /\ st'[x].CKr.root # st'[x].RK
                      /\ st'[x].CKr.root # CorruptKey[1]
                      /\ st'[x].RK # ZeroChain.root
    BY DEF ChainsInv
  <2>1. CASE x = p
    <3>1. t.RK # u.RK
      BY <1>2
    <3>2. t.CKr.root = u.RK /\ t.CKr.n = t.Nr /\ t.CKs = [root |-> t.RK, n |-> t.Ns]
      BY <1>3
    <3> QED BY <1>2, <1>4, <2>1, <3>1, <3>2
  <2>2. CASE x = q
    BY <1>u, <1>4, <2>2 DEF ChainsInv
  <2> QED BY <1>1, <2>1, <2>2
<1>13. LockStep'
  <2>1. u.CKr.root # t.RK
    BY <1>2
  <2>2. /\ t.RK = Append(u.RK, DH(u.DHs, t.DHs)) /\ t.DHr = u.DHs
        /\ t.CKr.root = u.RK /\ t.DHs \notin u.SeenDH
    BY <1>2, <1>3, SMTT(30)
  <2> QED BY <1>0, <1>4, <2>1, <2>2 DEF LockStep
<1>14. SkippedInv'
  <2>1. IsFiniteSet(t.MKSkipped) /\ Cardinality(t.MKSkipped) <= MaxSkip
    <3>1. 0 \in Nat /\ 0 <= m.hdr.N
      BY <1>9
    <3>2. LET S == Passed(u.DHs, u.RK, 0, m.hdr.N)
          IN  IsFiniteSet(S) /\ Cardinality(S) \in Nat /\ Cardinality(S) <= m.hdr.N - 0
      BY <1>9, <3>1, PassedFinite
    <3> QED BY <1>3, <1>9, <3>2, ConstantsAssumption
  <2>2. \A e \in t.MKSkipped : e.DH = t.DHr /\ e.N < t.Nr /\ e.mk = <<t.CKr.root, e.N>>
    <3>1. \A e \in t.MKSkipped : e.DH = u.DHs /\ e.N \in 0 .. (m.hdr.N - 1) /\ e.mk = <<u.RK, e.N>>
      BY <1>3 DEF Passed
    <3> QED BY <1>3, <1>9, <3>1
  <2> SUFFICES ASSUME NEW x \in Party
               PROVE  /\ IsFiniteSet(st'[x].MKSkipped)
                      /\ Cardinality(st'[x].MKSkipped) <= MaxSkip
                      /\ \A e \in st'[x].MKSkipped :
                           e.DH = st'[x].DHr /\ e.N < st'[x].Nr /\ e.mk = <<st'[x].CKr.root, e.N>>
    BY DEF SkippedInv
  <2>3. CASE x = p
    BY <1>4, <2>1, <2>2, <2>3
  <2>4. CASE x = q
    BY <1>u, <1>4, <2>4 DEF SkippedInv
  <2> QED BY <1>1, <2>3, <2>4
<1>15. NetInv'
  <2> SUFFICES ASSUME NEW n \in net
               PROVE  /\ n.hdr.DH[1] = n.from /\ n.hdr.DH[2] < keys'[n.from]
                      /\ MessageInv(n, st'[n.from], st'[Peer(n.from)])
    BY <1>5 DEF NetInv
  <2>1. /\ n.hdr.DH[1] = n.from /\ n.hdr.DH[2] < keys[n.from]
        /\ MessageInv(n, st[n.from], st[Peer(n.from)])
    BY DEF NetInv
  <2>2. n.hdr.DH \in PublicKey /\ n.hdr.DH[2] \in Nat /\ Len(n.mk[1]) \in Nat
    BY DEF TypeOK, Message, Header, PublicKey, MessageKey, RootKey
  <2>0. /\ t.DHs = fresh /\ t.DHr = u.DHs /\ t.CKr.root = u.RK /\ t.SeenDH = s.SeenDH \cup {s.DHr, u.DHs}
        /\ u.DHr = s.DHs /\ u.CKr.root = s.RK
    <3>1. t.CKr = [root |-> u.RK, n |-> m.hdr.N + 1]
      BY <1>3, Zenon
    <3>2. t.CKr.root = u.RK
      BY <3>1
    <3> QED BY <1>2, <1>3, <3>2, ZenonT(40)
  <2>3. CASE n.from = p
    <3>1. MessageInv(n, s, u)
      BY <1>0, <1>u, <2>1, <2>3
    <3>2. n.hdr.DH # fresh
      BY <1>6, <2>1, <2>2, <2>3
    <3>3. Len(n.mk[1]) <= Len(t.RK) /\ n.mk[1] # t.RK
      BY <1>2, <2>2, <3>1, SMTT(30) DEF MessageInv
    <3>4. n.hdr.DH \in u.SeenDH
      BY <1>1, <1>u, <1>2, <3>1 DEF MessageInv, KeysInv
    <3>5. MessageInv(n, t, u)
      BY <2>0, <3>1, <3>2, <3>3, <3>4 DEF MessageInv
    <3>6. n.hdr.DH[2] < keys'[p]
      BY <1>6, <2>1, <2>2, <2>3
    <3> QED BY <1>0, <1>4, <2>1, <2>3, <3>5, <3>6
  <2>4. CASE n.from = q
    <3>1. MessageInv(n, u, s)
      BY <1>1, <1>u, <2>1, <2>4
    <3>2. n.mk[1] # t.RK
      BY <1>2, <2>2, <3>1 DEF MessageInv
    <3>3. MessageInv(n, u, t)
      BY <2>0, <3>1, <3>2 DEF MessageInv
    <3> QED BY <1>1, <1>4, <1>6, <2>1, <2>4, <3>3
  <2> QED BY <1>1, <2>3, <2>4 DEF TypeOK, Message
<1>16. DeliveredInv'
  <2>1. ASSUME NEW n \in delivered'[p]
        PROVE  /\ n \in To(p)
               /\ n.hdr.DH \in t.SeenDH
               /\ n.hdr.DH = t.DHr => n.hdr.N < t.Nr /\ SkippedKeys(t, n.hdr) = {}
    <3>1. CASE n = m
      <4>1. \A e \in t.MKSkipped : e.N \in 0 .. (m.hdr.N - 1)
        BY <1>3 DEF Passed
      <4>2. SkippedKeys(t, n.hdr) = {}
        BY <1>9, <3>1, <4>1 DEF SkippedKeys
      <4>3. n.hdr.N < t.Nr
        BY <1>3, <1>9, <3>1
      <4> QED BY <1>2, <1>3, <3>1, <4>2, <4>3
    <3>2. CASE n \in delivered[p]
      <4>1. n \in To(p) /\ n.hdr.DH \in s.SeenDH
        BY <3>2 DEF DeliveredInv
      <4> QED BY <1>2, <1>3, <4>1
    <3> QED BY <1>7, <3>1, <3>2
  <2>2. t.Nr <= u.Ns
    BY <1>2, <1>3, <1>9
  <2>3. /\ \A n \in delivered'[q] :
             /\ n \in To(q)
             /\ n.hdr.DH \in u.SeenDH
             /\ n.hdr.DH = u.DHr => n.hdr.N < u.Nr /\ SkippedKeys(u, n.hdr) = {}
        /\ u.DHr # t.DHs
    BY <1>u, <1>2, <1>3, <1>7 DEF DeliveredInv
  <2> SUFFICES ASSUME NEW x \in Party
               PROVE  /\ \A n \in delivered'[x] :
                           /\ n \in To(x)
                           /\ n.hdr.DH \in st'[x].SeenDH
                           /\ n.hdr.DH = st'[x].DHr =>
                                n.hdr.N < st'[x].Nr /\ SkippedKeys(st'[x], n.hdr) = {}
                      /\ st'[x].DHr = st'[Peer(x)].DHs => st'[x].Nr <= st'[Peer(x)].Ns
    BY <1>8 DEF DeliveredInv, SkippedKeys
  <2>4. CASE x = p
    BY <1>0, <1>4, <2>1, <2>2, <2>4
  <2>5. CASE x = q
    BY <1>1, <1>4, <2>3, <2>5
  <2> QED BY <1>1, <2>4, <2>5
<1>17. PendingInv'
  <2> SUFFICES ASSUME NEW x \in Party, NEW n \in To(x),
                      n.hdr.DH = st'[x].DHr, n.hdr.N < st'[x].Nr
               PROVE  n \in delivered'[x] \/ SkippedKeys(st'[x], n.hdr) # {}
    BY <1>8 DEF PendingInv, SkippedKeys
  <2>1. CASE x = q
    BY <1>u, <1>4, <1>7, <2>1 DEF PendingInv
  <2>2. CASE x = p
    <3>1. n \in net /\ n.from = q /\ n.hdr.N \in Nat /\ n \in Message
      BY <1>0, <2>2 DEF To, TypeOK, Message, Header
    <3>2. n.hdr.DH = u.DHs /\ n.hdr.N < m.hdr.N + 1
      BY <1>3, <1>4, <2>2
    <3>3. CASE n.hdr.N = m.hdr.N
      <4>1. MessageInv(n, u, s)
        BY <1>1, <1>u, <3>1 DEF NetInv
      <4>2. n.mk[1] = u.RK /\ n.mk[2] = m.hdr.N
        BY <3>2, <3>3, <4>1 DEF MessageInv
      <4>3. n.mk = <<u.RK, m.hdr.N>>
        BY <3>1, <4>2 DEF Message, MessageKey
      <4>4. n = m
        BY <1>2, <3>1, <4>3 DEF UniqueMessageKeys
      <4> QED BY <1>7, <2>2, <4>4
    <3>4. CASE n.hdr.N < m.hdr.N
      <4>1. n.hdr.N \in 0 .. (m.hdr.N - 1)
        BY <1>9, <3>1, <3>4
      <4>2. [DH |-> u.DHs, N |-> n.hdr.N, mk |-> <<u.RK, n.hdr.N>>] \in t.MKSkipped
        BY <1>3, <4>1 DEF Passed
      <4>3. SkippedKeys(t, n.hdr) # {}
        BY <3>2, <4>2 DEF SkippedKeys
      <4> QED BY <1>4, <2>2, <4>3
    <3> QED BY <1>9, <3>1, <3>2, <3>3, <3>4
  <2> QED BY <1>1, <2>1, <2>2
<1>18. UniqueMessageKeys'
  BY <1>5 DEF UniqueMessageKeys
<1> QED BY <1>10, <1>11, <1>12, <1>13, <1>14, <1>15, <1>16, <1>17, <1>18 DEF IInv
-----------------------------------------------------------------------------
(* The steps together. *)

\* What the invariant says about the state of one party.
LEMMA PartyStateInv ==
  ASSUME IInv, NEW p \in Party
  PROVE  /\ StateInv(st[p]) /\ <<p, keys[p]>> \in PublicKey
         /\ IsFiniteSet(st[p].MKSkipped) /\ Cardinality(st[p].MKSkipped) <= MaxSkip
BY DEF IInv, TypeOK, ChainsInv, SkippedInv, StateInv, PublicKey

\* A genuine message comes with a header that DecryptedCases covers.
LEMMA GenuineHeader ==
  ASSUME IInv, NEW p \in Party, NEW m \in To(p)
  PROVE  m.hdr \in Header /\ m.hdr.N <= MaxCounter
<1>1. m \in Message /\ m.hdr.N < MaxCounter
  BY DEF IInv, TypeOK, NetInv, MessageInv, To
<1> QED BY <1>1, ConstantsAssumption DEF Message, Header

\* Receive changes nothing, or commits one of the two kinds of advance.
LEMMA ReceiveCases ==
  ASSUME IInv, NEW p \in Party, NEW m, m.hdr \in Header, m.hdr.N <= MaxCounter,
         Receive(p, m)
  PROVE  \/ UNCHANGED vars
         \/ \E t : /\ Committed(p, m, t)
                   /\ \/ SameChain(st[p], t, m)
                      \/ RatchetStep(st[p], t, m, <<p, keys[p]>>)
<1> DEFINE out == Outcome(p, m)
<1>1. /\ StateInv(st[p]) /\ <<p, keys[p]>> \in PublicKey
      /\ IsFiniteSet(st[p].MKSkipped) /\ Cardinality(st[p].MKSkipped) <= MaxSkip
  BY PartyStateInv
<1>2. \/ out.err # "none" /\ out.st = st[p]
      \/ /\ out.err = "none"
         /\ \/ SkippedStep(st[p], out.st, m)
            \/ ChainStep(st[p], out.st, m)
            \/ RatchetStep(st[p], out.st, m, <<p, keys[p]>>)
  BY <1>1, DecryptedCases DEF Outcome, FreshKey
<1>3. /\ st' = [st EXCEPT ![p] = out.st]
      /\ keys' = [keys EXCEPT ![p] = IF out.st.DHs = st[p].DHs THEN @ ELSE @ + 1]
      /\ delivered' = [delivered EXCEPT ![p] = IF out.err = "none" THEN @ \cup {m} ELSE @]
      /\ plaintexts' = [plaintexts EXCEPT ![p] = IF out.err = "none" THEN @ + 1 ELSE @]
      /\ net' = net
  BY DEF Receive
<1> HIDE DEF out
<1>4. CASE out.err # "none" /\ out.st = st[p]
  BY <1>3, <1>4 DEF IInv, TypeOK, vars
<1>5. CASE out.err = "none"
  <2>1. Committed(p, m, out.st)
    BY <1>3, <1>5 DEF Committed
  <2>2. SkippedStep(st[p], out.st, m) => SameChain(st[p], out.st, m)
    BY <1>1, SkippedSame
  <2>3. ChainStep(st[p], out.st, m) => SameChain(st[p], out.st, m)
    BY <1>1, ChainSame
  <2> QED BY <1>2, <1>5, <2>1, <2>2, <2>3
<1> QED BY <1>2, <1>4, <1>5

\* The invariant depends on the variables only.
LEMMA StutterIInv == IInv /\ UNCHANGED vars => IInv'
<1> SUFFICES ASSUME IInv, UNCHANGED vars PROVE IInv'
  OBVIOUS
<1>1. st' = st /\ keys' = keys /\ net' = net /\ delivered' = delivered /\ plaintexts' = plaintexts
  BY DEF vars
<1>2. TypeOK' /\ KeysInv' /\ ChainsInv' /\ LockStep' /\ SkippedInv'
  BY <1>1, ZenonT(40) DEF IInv, TypeOK, KeysInv, ChainsInv, LockStep, SkippedInv
<1>3. NetInv' /\ UniqueMessageKeys'
  BY <1>1 DEF IInv, NetInv, UniqueMessageKeys
<1>4. DeliveredInv' /\ PendingInv'
  BY <1>1 DEF IInv, DeliveredInv, PendingInv, To
<1> QED BY <1>2, <1>3, <1>4 DEF IInv

\* Receiving any message the peer ever sent preserves the invariant.
LEMMA DecryptIInv ==
  ASSUME IInv, NEW p \in Party, Decrypt(p)
  PROVE  IInv'
<1>1. PICK m \in To(p) : Receive(p, m)
  BY DEF Decrypt
<1>2. m.hdr \in Header /\ m.hdr.N <= MaxCounter
  BY GenuineHeader
<1>3. CASE UNCHANGED vars
  BY <1>3, StutterIInv
<1>4. CASE \E t : /\ Committed(p, m, t)
                  /\ \/ SameChain(st[p], t, m)
                     \/ RatchetStep(st[p], t, m, <<p, keys[p]>>)
  <2>1. PICK t : /\ Committed(p, m, t)
                 /\ \/ SameChain(st[p], t, m)
                    \/ RatchetStep(st[p], t, m, <<p, keys[p]>>)
    BY <1>4
  <2>2. PICK s, fresh : s = st[p] /\ fresh = <<p, keys[p]>>
    OBVIOUS
  <2>3. CASE SameChain(s, t, m)
    BY <2>1, <2>2, <2>3, SameChainIInv
  <2>4. CASE RatchetStep(s, t, m, fresh)
    BY <2>1, <2>2, <2>4, RatchetIInv
  <2> QED BY <2>1, <2>2, <2>3, <2>4
<1> QED BY <1>1, <1>2, <1>3, <1>4, ReceiveCases

\* No damaged message is accepted, so it changes nothing.
LEMMA CorruptedUnchanged ==
  ASSUME IInv, NEW p \in Party, DecryptCorrupted(p)
  PROVE  UNCHANGED vars
<1>1. PICK h \in CorruptHeader :
        Receive(p, [from |-> Peer(p), hdr |-> h, mk |-> CorruptKey])
  BY DEF DecryptCorrupted
<1> DEFINE m == [from |-> Peer(p), hdr |-> h, mk |-> CorruptKey]
<1>2. m.hdr = h /\ m.mk = CorruptKey
  OBVIOUS
<1>3. h \in Header /\ h.N <= MaxCounter
  <2>1. h.DH \in PublicKey /\ h.PN \in CorruptNumbers /\ h.N \in CorruptNumbers
        /\ h = [DH |-> h.DH, PN |-> h.PN, N |-> h.N]
    BY DEF CorruptHeader, PublicKey
  <2>2. h.PN \in Nat /\ h.N \in Nat /\ h.N <= MaxCounter
    BY <2>1, ConstantsAssumption
  <2> QED BY <2>1, <2>2 DEF Header
<1> HIDE DEF m
<1>4. ASSUME NEW t, SameChain(st[p], t, m) PROVE FALSE
  <2>1. CorruptKey = <<st[p].CKr.root, h.N>>
    BY <1>2, <1>4 DEF SameChain
  <2>2. st[p].CKr.root # CorruptKey[1]
    BY DEF IInv, ChainsInv
  <2> QED BY <2>1, <2>2
<1>5. ASSUME NEW t, RatchetStep(st[p], t, m, <<p, keys[p]>>) PROVE FALSE
  <2>1. CorruptKey = <<Append(st[p].RK, DH(st[p].DHs, h.DH)), h.N>>
    BY <1>2, <1>5 DEF RatchetStep
  <2>2. st[p].RK \in RootKey /\ st[p].DHs \in PublicKey /\ h.DH \in PublicKey
    BY <1>3 DEF IInv, TypeOK, State, Header
  <2>3. LET new == Append(st[p].RK, DH(st[p].DHs, h.DH)) IN new # CorruptKey[1]
    BY <2>2, AppendFacts
  <2> QED BY <2>1, <2>3
<1>6. Receive(p, m) /\ m.hdr \in Header /\ m.hdr.N <= MaxCounter
  BY <1>1, <1>2, <1>3 DEF m
<1> QED BY <1>4, <1>5, <1>6, ReceiveCases

\* Every step of the two parties and of the network preserves the invariant.
LEMMA NextIInv == IInv /\ [Next]_vars => IInv'
<1> SUFFICES ASSUME IInv, [Next]_vars PROVE IInv'
  OBVIOUS
<1>1. CASE UNCHANGED vars
  BY <1>1, StutterIInv
<1>2. ASSUME NEW p \in Party, Encrypt(p) PROVE IInv'
  BY <1>2, EncryptIInv
<1>3. ASSUME NEW p \in Party, Decrypt(p) PROVE IInv'
  BY <1>3, DecryptIInv
<1>4. ASSUME NEW p \in Party, DecryptCorrupted(p) PROVE IInv'
  BY <1>4, CorruptedUnchanged, StutterIInv
<1> QED BY <1>1, <1>2, <1>3, <1>4 DEF Next

\* The inductive invariant holds in every reachable state of the two ratchets.
THEOREM Invariance == Spec => []IInv
<1>1. Init => IInv
  BY InitIInv
<1>2. IInv /\ [Next]_vars => IInv'
  BY NextIInv
<1> QED BY <1>1, <1>2, PTL DEF Spec

-----------------------------------------------------------------------------
(* The properties that the invariant implies. *)

\* Every variable of the two ratchets keeps its type, and no counter of
\* AdvanceForHeader or NextMessageKey wraps around.
THEOREM TypeCorrect == Spec => []TypeOK
<1>1. IInv => TypeOK
  BY DEF IInv
<1> QED BY <1>1, Invariance, PTL

\* With the invariant, the key derived for a genuine message is the sender's.
LEMMA AgreedKeys == IInv => KeyAgreement
<1> SUFFICES ASSUME IInv, NEW p \in Party, NEW m \in To(p)
             PROVE  Outcome(p, m).err # "mac"
  BY DEF KeyAgreement
<1>s. PICK s, fresh, may : s = st[p] /\ fresh = <<p, keys[p]>> /\ may = MayGenerate(p)
  OBVIOUS
<1> DEFINE adv == AdvanceForHeader(s, m.hdr, fresh, may)
<1>1. StateInv(s) /\ fresh \in PublicKey /\ m.hdr \in Header /\ m.hdr.N <= MaxCounter
  BY <1>s, PartyStateInv, GenuineHeader
<1>a. Outcome(p, m) = IF adv.err = "none" /\ adv.mk # m.mk THEN Error(s, "mac") ELSE adv
  BY <1>s, Zenon DEF Outcome, Decrypted, FreshKey
<1> HIDE DEF adv
<1>2. SUFFICES \/ \E err \in {"duplicate", "maxskip", "keygen", "nochain", "overflow"} :
                    adv = Error(s, err)
               \/ \E t : adv = Success(t, m.mk)
  BY <1>a DEF Success, Error
<1>3. m \in Message /\ m.from = Peer(p) /\ m \in net
  BY DEF To, IInv, TypeOK
<1>4. MessageInv(m, st[Peer(p)], s)
  BY <1>s, <1>3, PeerFacts DEF IInv, NetInv
<1>5. m.mk = <<m.mk[1], m.hdr.N>> /\ m.hdr.N \in Nat /\ s.Nr \in Nat
  BY <1>1, <1>3, <1>4 DEF MessageInv, Message, MessageKey, Header, StateInv, State
<1>6. CASE m.hdr.DH = s.DHr
  <2>1. m.mk = <<s.CKr.root, m.hdr.N>>
    BY <1>4, <1>5, <1>6 DEF MessageInv
  <2>2. CASE SkippedKeys(s, m.hdr) # {}
    <3>1. adv = Success([s EXCEPT !.MKSkipped = @ \ SkippedKeys(s, m.hdr)],
                        <<s.CKr.root, m.hdr.N>>)
      BY <1>1, <2>2, AdvanceSkipped DEF adv
    <3> QED BY <2>1, <3>1
  <2>3. CASE SkippedKeys(s, m.hdr) = {} /\ m.hdr.N < s.Nr
    <3>1. adv = Error(s, "duplicate")
      BY <1>6, <2>3, AdvanceDuplicate DEF adv
    <3> QED BY <3>1
  <2>4. CASE SkippedKeys(s, m.hdr) = {} /\ s.Nr <= m.hdr.N
    <3>1. \/ \E err \in {"maxskip", "nochain", "overflow"} : adv = Error(s, err)
          \/ \E t : adv = Success(t, <<s.CKr.root, m.hdr.N>>)
      BY <1>1, <1>6, <2>4, AdvanceInChain, Zenon DEF adv
    <3> QED BY <2>1, <3>1
  <2> QED BY <1>5, <2>2, <2>3, <2>4
<1>7. CASE m.hdr.DH # s.DHr
  <2>1. SkippedKeys(s, m.hdr) = {}
    BY <1>1, <1>7 DEF SkippedKeys, StateInv
  <2>2. CASE m.hdr.DH \in s.SeenDH
    <3>1. adv = Error(s, "duplicate")
      BY <1>7, <2>1, <2>2, AdvanceDuplicate DEF adv
    <3> QED BY <3>1
  <2>3. CASE m.hdr.DH \notin s.SeenDH
    <3> DEFINE rk == Append(s.RK, DH(s.DHs, m.hdr.DH))
    <3>1. \/ \E err \in {"maxskip", "keygen", "nochain", "overflow"} : adv = Error(s, err)
          \/ \E t : adv = Success(t, <<rk, m.hdr.N>>)
      <4>1. PICK t \in State :
              adv =
                IF ~CanSkip(s, m.hdr.PN) THEN Error(s, "maxskip")
                ELSE IF ~may THEN Error(s, "keygen")
                ELSE IF m.hdr.N > MaxSkip THEN Error(s, "maxskip")
                ELSE IF [root |-> rk, n |-> m.hdr.N] = ZeroChain THEN Error(s, "nochain")
                ELSE IF m.hdr.N = MaxCounter THEN Error(s, "overflow")
                ELSE Success(t, <<rk, m.hdr.N>>)
        BY <1>1, <1>7, <2>1, <2>3, AdvanceRatchet, ZenonT(40) DEF adv
      <4> HIDE DEF rk
      <4> QED BY <4>1, Zenon
    <3>2. m.mk[1] = rk
      <4>1. m.hdr.DH = st[Peer(p)].DHs /\ m.mk[1] = st[Peer(p)].RK
        BY <1>4, <2>3 DEF MessageInv
      <4>2. PICK b \in Party :
              /\ st[b].RK = Append(st[Peer(b)].RK, DH(st[Peer(b)].DHs, st[b].DHs))
              /\ st[b].DHr = st[Peer(b)].DHs
        BY DEF IInv, LockStep
      <4>3. b # p
        BY <1>s, <1>7, <4>1, <4>2
      <4>4. b = Peer(p) /\ Peer(b) = p
        BY <4>3, PeerFacts DEF Party, Peer
      <4> QED BY <1>s, <4>1, <4>2, <4>4
    <3> HIDE DEF rk
    <3> QED BY <1>5, <3>1, <3>2
  <2> QED BY <2>2, <2>3
<1> QED BY <1>6, <1>7

\* A party that derives a key for a genuine message derives the sender's key:
\* Decrypt never answers ErrInvalidMAC to it.
THEOREM KeysAgree == Spec => []KeyAgreement
BY AgreedKeys, Invariance, PTL

\* A genuine message for which a key can be derived is decrypted.
LEMMA DerivedDecrypts ==
  ASSUME IInv, NEW p \in Party, NEW m \in To(p), NEW t, NEW mk,
         AdvanceForHeader(st[p], m.hdr, FreshKey(p), MayGenerate(p)) = Success(t, mk)
  PROVE  Outcome(p, m).err = "none"
<1> DEFINE adv == AdvanceForHeader(st[p], m.hdr, FreshKey(p), MayGenerate(p))
<1>1. Outcome(p, m) = IF adv.err = "none" /\ adv.mk # m.mk THEN Error(st[p], "mac") ELSE adv
  BY Zenon DEF Outcome, Decrypted
<1>2. Outcome(p, m).err # "mac"
  BY AgreedKeys DEF KeyAgreement
<1>3. adv.err = "none"
  BY DEF Success
<1> HIDE DEF adv
<1> QED BY <1>1, <1>2, <1>3 DEF Error

\* Messages of the current receiving chain decrypt in any order, as long as the
\* gap they leave fits into MKSkipped.
THEOREM InChainDecrypts == Spec => []InChainOutOfOrder
<1>1. IInv => InChainOutOfOrder
  <2> SUFFICES ASSUME IInv, NEW p \in Party, NEW m \in To(p), m \notin delivered[p],
                      m.hdr.DH = st[p].DHr, CanSkip(st[p], m.hdr.N)
               PROVE  Outcome(p, m).err = "none"
    BY DEF InChainOutOfOrder
  <2>s. PICK s, fresh, may : s = st[p] /\ fresh = FreshKey(p) /\ may = MayGenerate(p)
    OBVIOUS
  <2> DEFINE adv == AdvanceForHeader(s, m.hdr, fresh, may)
  <2>1. StateInv(s) /\ m.hdr \in Header /\ m.hdr.N <= MaxCounter
    BY <2>s, PartyStateInv, GenuineHeader
  <2>2. m.from = Peer(p) /\ m \in net
    BY DEF To
  <2>3. MessageInv(m, st[Peer(p)], s)
    BY <2>s, <2>2, PeerFacts DEF IInv, NetInv
  <2>4. /\ m.hdr.N \in Nat /\ s.Nr \in Nat /\ m.hdr.N # MaxCounter
        /\ s.CKr.root # ZeroChain.root
    BY <2>s, <2>1, <2>3, ConstantsAssumption DEF MessageInv, Header, StateInv, State
  <2>5. SUFFICES \E t, mk : adv = Success(t, mk)
    BY <2>s, DerivedDecrypts
  <2>6. CASE SkippedKeys(s, m.hdr) # {}
    <3>1. adv = Success([s EXCEPT !.MKSkipped = @ \ SkippedKeys(s, m.hdr)],
                        <<s.CKr.root, m.hdr.N>>)
      BY <2>1, <2>6, AdvanceSkipped
    <3> HIDE DEF adv
    <3> QED BY <3>1
  <2>7. CASE SkippedKeys(s, m.hdr) = {}
    <3>1. s.Nr <= m.hdr.N
      BY <2>s, <2>4, <2>7 DEF IInv, PendingInv
    <3> DEFINE u == [s EXCEPT !.CKr = [root |-> s.CKr.root, n |-> m.hdr.N],
                              !.Nr = m.hdr.N,
                              !.MKSkipped = @ \cup Passed(s.DHr, s.CKr.root, s.Nr, m.hdr.N)]
    <3>2. u.CKr # ZeroChain
      BY <2>1, <2>4 DEF StateInv, State, ZeroChain
    <3>3. m.hdr.DH = s.DHr /\ CanSkip(s, m.hdr.N)
      BY <2>s
    <3>4. adv = Success([s EXCEPT !.CKr = [root |-> s.CKr.root, n |-> m.hdr.N + 1],
                                  !.Nr = m.hdr.N + 1,
                                  !.MKSkipped = @ \cup Passed(s.DHr, s.CKr.root, s.Nr, m.hdr.N)],
                        <<s.CKr.root, m.hdr.N>>)
      BY <2>1, <2>4, <2>7, <3>1, <3>2, <3>3, AdvanceInChain, Zenon
    <3> HIDE DEF adv
    <3> QED BY <3>4
  <2> QED BY <2>6, <2>7
<1> QED BY <1>1, Invariance, PTL

\* The first message of the peer's newest chain to arrive opens it, whichever
\* message of the chain that is, unless one of the two gaps exceeds MaxSkip.
THEOREM NewChainDecrypts == Spec => []NewChainOpens
<1>1. IInv => NewChainOpens
  <2> SUFFICES ASSUME IInv, NEW p \in Party, NEW m \in To(p), m \notin delivered[p],
                      m.hdr.DH = st[Peer(p)].DHs, m.hdr.DH # st[p].DHr,
                      CanSkip(st[p], m.hdr.PN), m.hdr.N <= MaxSkip, MayGenerate(p)
               PROVE  Outcome(p, m).err = "none"
    BY DEF NewChainOpens
  <2>s. PICK s, fresh, may : s = st[p] /\ fresh = FreshKey(p) /\ may = MayGenerate(p)
    OBVIOUS
  <2> DEFINE adv == AdvanceForHeader(s, m.hdr, fresh, may)
             rk == Append(s.RK, DH(s.DHs, m.hdr.DH))
  <2>1. StateInv(s) /\ fresh \in PublicKey /\ m.hdr \in Header /\ m.hdr.N <= MaxCounter
    BY <2>s, PartyStateInv, GenuineHeader DEF FreshKey
  <2>2. m.from = Peer(p) /\ m \in net
    BY DEF To
  <2>3. MessageInv(m, st[Peer(p)], s)
    BY <2>s, <2>2, PeerFacts DEF IInv, NetInv
  <2>4. m.hdr.N \in Nat /\ m.hdr.N # MaxCounter /\ ~(m.hdr.N > MaxSkip)
    BY <2>1, <2>3, ConstantsAssumption DEF MessageInv, Header
  <2>5. SUFFICES \E t, mk : adv = Success(t, mk)
    BY <2>s, DerivedDecrypts
  <2>6. m.hdr.DH # s.DHr /\ CanSkip(s, m.hdr.PN) /\ may
    BY <2>s
  <2>7. PICK b \in Party :
          /\ st[b].RK = Append(st[Peer(b)].RK, DH(st[Peer(b)].DHs, st[b].DHs))
          /\ st[b].DHr = st[Peer(b)].DHs
          /\ st[b].DHs \notin st[Peer(b)].SeenDH
    BY DEF IInv, LockStep
  <2>8. b = Peer(p) /\ Peer(b) = p
    <3>1. b # p
      BY <2>7
    <3> QED BY <3>1, PeerFacts DEF Party, Peer
  <2>9. m.hdr.DH \notin s.SeenDH
    BY <2>s, <2>7, <2>8
  <2>10. SkippedKeys(s, m.hdr) = {}
    BY <2>1, <2>6 DEF SkippedKeys, StateInv
  <2>11. [root |-> rk, n |-> m.hdr.N] # ZeroChain
    <3>1. m.mk[1] = rk
      BY <2>s, <2>3, <2>7, <2>8 DEF MessageInv
    <3> HIDE DEF rk
    <3> QED BY <2>3, <3>1 DEF MessageInv, ZeroChain
  <2>12. PICK t \in State :
           adv =
             IF ~CanSkip(s, m.hdr.PN) THEN Error(s, "maxskip")
             ELSE IF ~may THEN Error(s, "keygen")
             ELSE IF m.hdr.N > MaxSkip THEN Error(s, "maxskip")
             ELSE IF [root |-> rk, n |-> m.hdr.N] = ZeroChain THEN Error(s, "nochain")
             ELSE IF m.hdr.N = MaxCounter THEN Error(s, "overflow")
             ELSE Success(t, <<rk, m.hdr.N>>)
    BY <2>1, <2>6, <2>9, <2>10, AdvanceRatchet, ZenonT(40)
  <2> HIDE DEF adv, rk
  <2> QED BY <2>4, <2>6, <2>11, <2>12, Zenon
<1> QED BY <1>1, Invariance, PTL

\* The invariant leaves Decrypt only ErrDuplicateMessage for an old message.
LEMMA ReplayRefused == IInv => NoReplay
<1> SUFFICES ASSUME IInv, NEW p \in Party, NEW m \in delivered[p]
             PROVE  Outcome(p, m).err # "none"
  BY DEF NoReplay
<1>s. PICK s, fresh, may : s = st[p] /\ fresh = <<p, keys[p]>> /\ may = MayGenerate(p)
  OBVIOUS
<1>1. /\ m.hdr.DH \in s.SeenDH
      /\ m.hdr.DH = s.DHr => m.hdr.N < s.Nr /\ SkippedKeys(s, m.hdr) = {}
  BY <1>s DEF IInv, DeliveredInv
<1>2. SkippedKeys(s, m.hdr) = {}
  BY <1>s, <1>1, PartyStateInv DEF SkippedKeys, StateInv
<1>3. AdvanceForHeader(s, m.hdr, fresh, may) = Error(s, "duplicate")
  BY <1>1, <1>2, AdvanceDuplicate
<1>4. Outcome(p, m) = Error(s, "duplicate")
  BY <1>s, <1>3 DEF Outcome, Decrypted, FreshKey, Error
<1> QED BY <1>4 DEF Error

\* A message that was decrypted once is refused in every later state: its
\* stored key is gone, its number is behind Nr or its DH key is in SeenDH.
THEOREM NeverReplayed == Spec => []NoReplay
BY ReplayRefused, Invariance, PTL

\* No message key is used for two messages.
THEOREM MessageKeysUnique == Spec => []UniqueMessageKeys
<1>1. IInv => UniqueMessageKeys
  BY DEF IInv
<1> QED BY <1>1, Invariance, PTL

\* MKSkipped never outgrows MaxSkip and holds nothing of an earlier chain.
THEOREM SkippedBounded == Spec => []SkippedKeysBounded
<1>1. IInv => SkippedKeysBounded
  BY DEF IInv, SkippedInv, SkippedKeysBounded
<1> QED BY <1>1, Invariance, PTL

\* The state of a party, stored keys included, yields the key of no message it
\* has sent and of none it has decrypted.
THEOREM ForwardSecret == Spec => []ForwardSecrecy
<1>1. IInv => ForwardSecrecy
  <2> SUFFICES ASSUME IInv, NEW p \in Party,
                      NEW m \in {n \in net : n.from = p} \cup delivered[p],
                      Derivable(st[p], m.mk)
               PROVE  FALSE
    BY DEF ForwardSecrecy
  <2>s. PICK s, q : s = st[p] /\ q = Peer(p)
    OBVIOUS
  <2>1. q \in Party /\ Peer(q) = p /\ q # p
    BY <2>s, PeerFacts
  <2>2. s \in State /\ s.Nr \in Nat /\ s.Ns \in Nat
    BY <2>s DEF IInv, TypeOK, State
  <2>3. /\ s.CKs = [root |-> s.RK, n |-> s.Ns] /\ s.CKr.n = s.Nr
        /\ \A e \in s.MKSkipped : e.DH = s.DHr /\ e.N < s.Nr /\ e.mk = <<s.CKr.root, e.N>>
    BY <2>s DEF IInv, ChainsInv, SkippedInv
  <2>4. \/ \E e \in s.MKSkipped : e.mk = m.mk
        \/ s.RK = m.mk[1] /\ s.Ns <= m.mk[2]
        \/ s.CKr.root = m.mk[1] /\ s.Nr <= m.mk[2]
    BY <2>s, <2>3 DEF Derivable
  <2>5. CASE m \in net /\ m.from = p
    <3>1. MessageInv(m, s, st[q])
      BY <2>s, <2>5 DEF IInv, NetInv
    <3>2. m.mk[2] = m.hdr.N /\ m.hdr.N \in Nat
      BY <2>5, <3>1 DEF MessageInv, IInv, TypeOK, Message, Header
    <3> QED BY <2>2, <2>3, <2>4, <3>1, <3>2 DEF MessageInv
  <2>6. CASE m \in delivered[p]
    <3>1. /\ m \in To(p)
          /\ m.hdr.DH = s.DHr => m.hdr.N < s.Nr /\ SkippedKeys(s, m.hdr) = {}
      BY <2>s, <2>6 DEF IInv, DeliveredInv
    <3>2. m \in net /\ m.from = q
      BY <2>s, <3>1 DEF To
    <3>3. MessageInv(m, st[q], s)
      BY <2>s, <2>1, <3>2 DEF IInv, NetInv
    <3>4. m.mk[2] = m.hdr.N /\ m.hdr.N \in Nat
      BY <3>2, <3>3 DEF MessageInv, IInv, TypeOK, Message, Header
    <3>5. m.mk[1] = s.CKr.root
      BY <2>3, <2>4, <3>3 DEF MessageInv
    <3>6. m.hdr.N < s.Nr /\ SkippedKeys(s, m.hdr) = {} /\ m.hdr.DH = s.DHr
      BY <3>1, <3>3, <3>5 DEF MessageInv
    <3>7. \A e \in s.MKSkipped : e.mk # m.mk
      <4> SUFFICES ASSUME NEW e \in s.MKSkipped, e.mk = m.mk PROVE FALSE
        OBVIOUS
      <4>1. e.DH = m.hdr.DH /\ e.N = m.hdr.N
        BY <2>3, <3>4, <3>6
      <4> QED BY <3>6, <4>1 DEF SkippedKeys
    <3> QED BY <2>2, <2>4, <3>3, <3>4, <3>6, <3>7 DEF MessageInv
  <2> QED BY <2>5, <2>6
<1> QED BY <1>1, Invariance, PTL

\* The two ratchets implement the at-most-once channel: a step of Encrypt is a
\* Send, a Decrypt that succeeds is a Deliver of a message sent and not yet
\* delivered, and everything else, a damaged message included, is a stutter.
THEOREM Implementation == Spec => ImplementsChannel
<1>1. Init => Channel!Init
  BY DEF Init, Channel!Init
<1>2. IInv /\ [Next]_vars => [Channel!Next]_(Channel!channelVars)
  <2> SUFFICES ASSUME IInv, [Next]_vars
               PROVE  Channel!Next \/ UNCHANGED Channel!channelVars
    OBVIOUS
  <2>1. CASE UNCHANGED vars
    BY <2>1 DEF vars, Channel!channelVars
  <2>2. ASSUME NEW p \in Party, Encrypt(p) PROVE Channel!Next
    <3>1. PICK m : m = NextMessage(p)
      OBVIOUS
    <3>2. net' = net \cup {m} /\ delivered' = delivered /\ plaintexts' = plaintexts
      BY <2>2, <3>1 DEF Encrypt
    <3>3. m.from = p /\ m.hdr.DH = st[p].DHs /\ m.hdr.N = st[p].Ns
      BY <3>1 DEF NextMessage
    <3>4. m \notin net
      <4> SUFFICES ASSUME m \in net PROVE FALSE
        OBVIOUS
      <4>1. m.hdr.N < st[p].Ns
        BY <3>3 DEF IInv, NetInv, MessageInv
      <4> QED BY <3>3, <4>1 DEF IInv, TypeOK, State
    <3> QED BY <3>2, <3>3, <3>4 DEF Channel!Next, Channel!Send
  <2>3. ASSUME NEW p \in Party, Decrypt(p) PROVE Channel!Next \/ UNCHANGED Channel!channelVars
    <3>1. PICK m \in To(p) : Receive(p, m)
      BY <2>3 DEF Decrypt
    <3>2. m.hdr \in Header /\ m.hdr.N <= MaxCounter
      BY GenuineHeader
    <3>3. CASE UNCHANGED vars
      BY <3>3 DEF vars, Channel!channelVars
    <3>4. CASE \E t : /\ Committed(p, m, t)
                      /\ \/ SameChain(st[p], t, m)
                         \/ RatchetStep(st[p], t, m, <<p, keys[p]>>)
      <4>1. PICK t : Committed(p, m, t)
        BY <3>4
      <4>2. m \in net /\ m.from # p
        BY PeerFacts DEF To
      <4>3. m \notin delivered[p]
        <5>1. plaintexts' = [plaintexts EXCEPT ![p] =
                               IF Outcome(p, m).err = "none" THEN @ + 1 ELSE @]
          BY <3>1 DEF Receive
        <5>2. plaintexts'[p] = plaintexts[p] + 1 /\ plaintexts[p] \in Nat
          BY <4>1 DEF Committed, IInv, TypeOK
        <5>3. Outcome(p, m).err = "none"
          BY <5>1, <5>2 DEF IInv, TypeOK
        <5> QED BY <5>3, ReplayRefused DEF NoReplay
      <4> QED BY <4>1, <4>2, <4>3 DEF Committed, Channel!Next, Channel!Deliver
    <3> QED BY <3>1, <3>2, <3>3, <3>4, ReceiveCases
  <2>4. ASSUME NEW p \in Party, DecryptCorrupted(p) PROVE UNCHANGED Channel!channelVars
    BY <2>4, CorruptedUnchanged DEF vars, Channel!channelVars
  <2> QED BY <2>1, <2>2, <2>3, <2>4 DEF Next
<1> QED BY <1>1, <1>2, Invariance, PTL DEF Spec, ImplementsChannel, Channel!Spec
=============================================================================
