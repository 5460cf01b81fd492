----------------------------- MODULE SpqrProofs -----------------------------
(***************************************************************************)
(* TLAPS proofs about Spqr, for every MaxJump and MaxOOO, any number of    *)
(* chunks per value, of epochs, of messages under way and of losses, and   *)
(* with both parties or only one of them having the ratchet.               *)
(***************************************************************************)
EXTENDS Spqr, SpqrV1Proofs, FiniteSetTheorems

-----------------------------------------------------------------------------
(* The inductive invariant. *)

\* The samples the parties draw.
Samples == Party \X Nat

\* A sequence that begins with r.
Begins(r, a) == Len(r) <= Len(a) /\ \A i \in 1 .. Len(r) : r[i] = a[i]

\* A chain has a link for each of the epochs from the oldest to the current one.
Oldest(c) == c.currentEpoch - Len(c.links) + 1
Epochs(c) == Oldest(c) .. c.currentEpoch
LinkAt(c, e) == c.links[e - Oldest(c) + 1]

Dirs == [ctr : Nat, open : BOOLEAN, prev : SUBSET Nat]
Links == [root : Seq(Secrets(Samples)), send : Dirs, recv : Dirs]

IsChain(c) ==
  /\ c = [currentEpoch |-> c.currentEpoch, sendEpoch |-> c.sendEpoch, links |-> c.links]
  /\ c.currentEpoch \in Nat /\ c.sendEpoch \in Nat
  /\ c.links \in Seq(Links)
  /\ Oldest(c) \in Nat
  /\ Oldest(c) <= c.sendEpoch /\ c.sendEpoch <= c.currentEpoch /\ c.sendEpoch <= Oldest(c) + 1
  /\ Oldest(c) > 0 => c.sendEpoch = Oldest(c) + 1

\* The stored keys are behind the counter, and at least one index of the window
\* that they lie in has no key.
DirOK(d) ==
  /\ \A i \in d.prev : 1 <= i /\ i < d.ctr /\ d.ctr - 1 <= i + MaxOOO
  /\ \E w \in (d.ctr - 1 - MaxOOO) .. (d.ctr - 1) : w \notin d.prev

\* The link of epoch e: it is named by the first e secrets, sends only if it is
\* not behind the sending epoch, and has not been sent with if it is ahead.
LinkOK(c, e, a) ==
  /\ Len(LinkAt(c, e).root) = e /\ Begins(LinkAt(c, e).root, a)
  /\ e >= c.sendEpoch => LinkAt(c, e).send.open = TRUE
  /\ e < c.sendEpoch => LinkAt(c, e).send.open = FALSE
  /\ LinkAt(c, e).send.prev = {}
  /\ e > c.sendEpoch => LinkAt(c, e).send.ctr = 0
  /\ DirOK(LinkAt(c, e).recv)

\* A chain of a party with the secrets a.
ChainOK(c, a) ==
  /\ IsChain(c)
  /\ c.currentEpoch = Len(a)
  /\ \A e \in Epochs(c) : LinkOK(c, e, a)

\* The phases of a party that has sent a message in its epoch.
HasSent == (EkSide \cup CtSide) \ {"KeysUnsampled", "NoHeaderReceived", "HeaderReceived"}

\* The sending epoch follows that of the state machine, by one at most.
InStep(c, s) ==
  /\ c.sendEpoch <= s.epoch - 1 /\ s.epoch - 1 <= c.sendEpoch + 1
  /\ s.phase \in HasSent => c.sendEpoch = s.epoch - 1

\* Nothing has arrived yet.
Fresh(s) ==
  s.epoch = 1 /\ s.auth = << >> /\ s.phase \in {"KeysUnsampled", "KeysSampled", "NoHeaderReceived"}

StateOK(s) ==
  /\ s = SpqrState(VersionV1, s.v1, s.chain, s.negotiation)
  /\ V1State(s.v1, Samples)
  /\ s.v1.phase = "Ct2Sampled" => s.v1.ek = Nothing
  /\ s.chain = Nothing => Fresh(s.v1)
  /\ ChainOK(chainForRecv(s), s.v1.auth)
  /\ InStep(chainForRecv(s), s.v1)

\* A receiver with chain c has got nothing that its peer, with chain d, has not sent.
Behind(c, d) ==
  \A e \in Epochs(c) :
    /\ e > d.sendEpoch => LinkAt(c, e).recv.ctr = 0
    /\ e = d.sendEpoch => LinkAt(c, e).recv.ctr <= LinkAt(d, e).send.ctr

\* A message of party q, which has chain d and the secrets a.
IsFrom(m, q, d, a) ==
  /\ m.wire[1] = VersionV1 /\ m.wire # << >>
  /\ m.wire[2] \in Nat \ {0} /\ m.wire[3] \in Nat
  /\ m.wire[3] = 0 => m.salt = Nothing /\ m.wire[2] = 1
  /\ m.wire[3] > 0 =>
       /\ m.wire[2] - 1 <= d.sendEpoch
       /\ m.wire[2] - 1 = d.sendEpoch => m.wire[3] <= LinkAt(d, d.sendEpoch).send.ctr
       /\ m.salt = Salt(m.salt.root, q, m.wire[3])
       /\ m.salt.root \in Seq(Secrets(Samples))
       /\ Len(m.salt.root) = m.wire[2] - 1 /\ Begins(m.salt.root, a)

\* The key with index i has not been taken from d, but may have been dropped.
Untaken(d, i) == i > d.ctr \/ i \in d.prev \/ i + MaxOOO < d.ctr

Pending(m, c) ==
  m.wire[3] > 0 /\ m.wire[2] - 1 \in Epochs(c) =>
    Untaken(LinkAt(c, m.wire[2] - 1).recv, m.wire[3])

\* The salts that p, which has chain d, has used.
UsedOK(salts, p, d) ==
  \A salt \in salts :
    /\ salt = Salt(salt.root, p, salt.index)
    /\ salt.root \in Seq(Secrets(Samples)) /\ salt.index \in Nat
    /\ Len(salt.root) <= d.sendEpoch
    /\ Len(salt.root) = d.sendEpoch => salt.index <= LinkAt(d, d.sendEpoch).send.ctr

FunctionsInv ==
  /\ state = [p \in Party |-> state[p]]
  /\ net = [p \in Party |-> net[p]]
  /\ used = [p \in Party |-> used[p]]
  /\ samples \in [Party -> Nat]
  /\ speaks \in {Party, {A}, {B}}

ChainFor(p) == chainForRecv(state[p])

\* Both parties have the ratchet.
BothInv ==
  /\ \A p \in Party : StateOK(state[p])
  /\ Joined(state[A].v1, state[B].v1)
  /\ \A p \in Party :
       /\ Behind(ChainFor(p), ChainFor(Peer(p)))
       /\ UsedOK(used[p], p, ChainFor(p))
       /\ \A m \in net[p] :
            /\ Genuine(deserializeV1Message(m.wire), state[Peer(p)].v1)
            /\ IsFrom(m, Peer(p), ChainFor(Peer(p)), state[Peer(p)].v1.auth)
            /\ Pending(m, ChainFor(p))
       /\ \A m, n \in net[p] :
            m.wire[3] > 0 /\ m.wire[2] = n.wire[2] /\ m.wire[3] = n.wire[3] => m = n

\* One party has the ratchet: it never hears of its peer's, and no message has a salt.
AloneInv ==
  \A p \in Party :
    /\ used[p] = {}
    /\ \A m \in net[p] : m.salt = Nothing
    /\ p \notin speaks => state[p] = Nothing
    /\ p \in speaks =>
         /\ \A m \in net[p] : m.wire = << >>
         /\ state[p] # Nothing =>
              /\ state[p] = SpqrState(VersionV1, state[p].v1, Nothing, TRUE)
              /\ V1State(state[p].v1, Samples)
              /\ Fresh(state[p].v1)

IInv == FunctionsInv /\ (IF speaks = Party THEN BothInv ELSE AloneInv)

-----------------------------------------------------------------------------
(* Sequences that begin alike. *)

LEMMA BeginsAppend ==
  ASSUME NEW S, NEW a \in Seq(S), NEW x \in S, NEW r \in Seq(S), Begins(r, a)
  PROVE  Begins(r, Append(a, x))
<1>1. Len(r) \in Nat /\ Len(a) \in Nat /\ Len(Append(a, x)) = Len(a) + 1
  OBVIOUS
<1>2. ASSUME NEW i \in 1 .. Len(r) PROVE r[i] = Append(a, x)[i]
  BY <1>1 DEF Begins
<1> QED BY <1>1, <1>2 DEF Begins

\* Two sequences of one length that begin a sequence are the same.
LEMMA BeginsSame ==
  ASSUME NEW S, NEW a, NEW r \in Seq(S), NEW q \in Seq(S), Begins(r, a), Begins(q, a), Len(r) = Len(q)
  PROVE  r = q
<1>1. \A i \in 1 .. Len(r) : r[i] = q[i]
  BY DEF Begins
<1> QED BY <1>1, SeqEqual

\* A record is not Nothing.
LEMMA NotNothing ==
  /\ \A a, b, c, d, e, f, g :
       [phase |-> a, epoch |-> b, auth |-> c, ek |-> d, ct |-> e, sent |-> f, dec |-> g] # Nothing
  /\ \A a, b, c : [currentEpoch |-> a, sendEpoch |-> b, links |-> c] # Nothing
  /\ \A a, b, c, d : SpqrState(a, b, c, d) # Nothing
  /\ \A a, b, c : Salt(a, b, c) # Nothing
BY DEF SpqrState, Salt, Nothing

-----------------------------------------------------------------------------
(* Chains. *)

LEMMA EpochsFacts ==
  ASSUME NEW c, IsChain(c)
  PROVE  /\ Len(c.links) \in Nat /\ Len(c.links) >= 1
         /\ Oldest(c) \in Nat /\ Oldest(c) + Len(c.links) = c.currentEpoch + 1
         /\ c.sendEpoch \in Epochs(c) /\ c.currentEpoch \in Epochs(c)
         /\ \A e \in Epochs(c) : /\ e \in Nat /\ e - Oldest(c) + 1 \in 1 .. Len(c.links)
                                 /\ LinkAt(c, e) \in Links
<1>1. /\ Len(c.links) \in Nat /\ Oldest(c) \in Nat /\ c.currentEpoch \in Nat /\ c.sendEpoch \in Nat
      /\ Oldest(c) = c.currentEpoch - Len(c.links) + 1 /\ c.links \in Seq(Links)
      /\ Oldest(c) <= c.sendEpoch /\ c.sendEpoch <= c.currentEpoch
  BY DEF IsChain, Oldest
<1>2. ASSUME NEW e \in Epochs(c)
      PROVE  e \in Nat /\ e - Oldest(c) + 1 \in 1 .. Len(c.links) /\ LinkAt(c, e) \in Links
  <2>1. e \in Oldest(c) .. c.currentEpoch
    BY DEF Epochs
  <2>2. e \in Nat /\ e - Oldest(c) + 1 \in 1 .. Len(c.links)
    BY <1>1, <2>1
  <2> QED BY <1>1, <2>2 DEF LinkAt
<1>3. c.sendEpoch \in Epochs(c) /\ c.currentEpoch \in Epochs(c)
  BY <1>1 DEF Epochs
<1>4. Len(c.links) >= 1 /\ Oldest(c) + Len(c.links) = c.currentEpoch + 1
  BY <1>1
<1> QED BY <1>1, <1>2, <1>3, <1>4

LEMMA IndexOf ==
  ASSUME NEW c, IsChain(c), NEW e \in Int
  PROVE  /\ e \in Epochs(c) => EpochIndex(c, e) = e - Oldest(c) + 1
         /\ e \notin Epochs(c) => EpochIndex(c, e) = 0
<1>1. /\ Len(c.links) \in Nat /\ Oldest(c) \in Nat /\ c.currentEpoch \in Nat
      /\ Oldest(c) = c.currentEpoch - Len(c.links) + 1
  BY DEF IsChain, Oldest
<1>2. Len(c.links) - (c.currentEpoch - e) = e - Oldest(c) + 1
  BY <1>1
<1> QED BY <1>1, <1>2 DEF EpochIndex, Epochs

LEMMA NewChainOK ==
  /\ ChainOK(NewChain, << >>)
  /\ NewChain.sendEpoch = 0 /\ NewChain.currentEpoch = 0 /\ Epochs(NewChain) = {0}
  /\ LinkAt(NewChain, 0) = Link(<< >>)
<1>1. PICK c : c = NewChain
  OBVIOUS
<1>2. PICK l : l = Link(<< >>)
  OBVIOUS
<1>3. c = [currentEpoch |-> 0, sendEpoch |-> 0, links |-> <<l>>]
  BY <1>1, <1>2 DEF NewChain
<1>4. /\ l = [root |-> << >>, send |-> [ctr |-> 0, open |-> TRUE, prev |-> {}],
              recv |-> [ctr |-> 0, open |-> TRUE, prev |-> {}]]
      /\ << >> \in Seq(Secrets(Samples)) /\ Len(<< >>) = 0
  BY <1>2 DEF Link, newChainEpochDirection
<1>5. l \in Links
  BY <1>4 DEF Links, Dirs
<1>6. <<l>> \in Seq(Links) /\ Len(<<l>>) = 1
  BY <1>5
<1>7. Oldest(c) = 0 /\ c.currentEpoch = 0 /\ c.sendEpoch = 0 /\ Epochs(c) = {0} /\ LinkAt(c, 0) = l
  BY <1>3, <1>6 DEF Oldest, Epochs, LinkAt
<1>8. IsChain(c)
  BY <1>3, <1>6, <1>7 DEF IsChain
<1>9. DirOK(l.recv)
  BY <1>4, SpqrAssumption DEF DirOK
<1>10. LinkOK(c, 0, << >>)
  <2>1. /\ l.root = << >> /\ Len(l.root) = 0 /\ l.send.open = TRUE /\ l.send.prev = {}
        /\ l.send.ctr = 0
    BY <1>4
  <2>2. Begins(l.root, << >>)
    BY <2>1, <1>4 DEF Begins
  <2> QED BY <1>7, <1>9, <2>1, <2>2 DEF LinkOK
<1> QED BY <1>1, <1>2, <1>4, <1>7, <1>8, <1>10 DEF ChainOK

\* t is c, perhaps with a link for one more epoch.
IsExtended(c, t) ==
  /\ t.sendEpoch = c.sendEpoch /\ Oldest(t) = Oldest(c) /\ c.currentEpoch <= t.currentEpoch
  /\ \A e \in Epochs(c) : e \in Epochs(t) /\ LinkAt(t, e) = LinkAt(c, e)
  /\ \A e \in Epochs(t) \ Epochs(c) :
       LinkAt(t, e).recv = newChainEpochDirection /\ LinkAt(t, e).send = newChainEpochDirection

LEMMA AddEpochOK ==
  ASSUME NEW a \in Seq(Secrets(Samples)), NEW c, ChainOK(c, a), NEW key \in Secrets(Samples),
         key.epoch = Len(a) + 1, NEW t, t = AddEpoch(c, key)
  PROVE  /\ ChainOK(t, Append(a, key))
         /\ IsExtended(c, t)
<1>1. IsChain(c) /\ c.currentEpoch = Len(a)
  BY DEF ChainOK
<1>2. /\ Len(c.links) \in Nat /\ Len(c.links) >= 1 /\ Oldest(c) \in Nat
      /\ Oldest(c) + Len(c.links) = c.currentEpoch + 1 /\ c.currentEpoch \in Epochs(c)
      /\ \A e \in Epochs(c) : e - Oldest(c) + 1 \in 1 .. Len(c.links) /\ LinkAt(c, e) \in Links
  BY <1>1, EpochsFacts
<1>3. /\ c.currentEpoch \in Nat /\ c.sendEpoch \in Nat /\ c.links \in Seq(Links)
      /\ Oldest(c) <= c.sendEpoch /\ c.sendEpoch <= c.currentEpoch /\ c.sendEpoch <= Oldest(c) + 1
      /\ c = [currentEpoch |-> c.currentEpoch, sendEpoch |-> c.sendEpoch, links |-> c.links]
      /\ Oldest(c) > 0 => c.sendEpoch = Oldest(c) + 1
  BY <1>1 DEF IsChain
<1>4. NextRoot(c) = a
  <2>1. LinkAt(c, c.currentEpoch) = c.links[Len(c.links)]
    <3>1. c.currentEpoch - Oldest(c) + 1 = Len(c.links)
      BY <1>2, <1>3
    <3> QED BY <3>1 DEF LinkAt
  <2>2. PICK r : r = LinkAt(c, c.currentEpoch).root
    OBVIOUS
  <2>3. r \in Seq(Secrets(Samples)) /\ Len(r) = c.currentEpoch /\ Begins(r, a)
    BY <1>2, <2>2 DEF ChainOK, LinkOK, Links
  <2>4. Begins(a, a)
    BY DEF Begins
  <2> QED BY <1>1, <2>1, <2>2, <2>3, <2>4, BeginsSame DEF NextRoot
<1>5. PICK b : b = Append(a, key)
  OBVIOUS
<1>6. b \in Seq(Secrets(Samples)) /\ Len(b) = Len(a) + 1
  BY <1>5
<1>7. PICK l : l = Link(b)
  OBVIOUS
<1>8. l = [root |-> b, send |-> newChainEpochDirection, recv |-> newChainEpochDirection]
  BY <1>7 DEF Link
<1>9. l \in Links
  BY <1>6, <1>8 DEF Links, Dirs, newChainEpochDirection
<1>10. PICK ls : ls = Append(c.links, l)
  OBVIOUS
<1>11. /\ ls \in Seq(Links) /\ Len(ls) = Len(c.links) + 1 /\ ls[Len(ls)] = l
       /\ \A i \in 1 .. Len(c.links) : ls[i] = c.links[i]
  BY <1>3, <1>9, <1>10
<1>12. t = [currentEpoch |-> Len(a) + 1, sendEpoch |-> c.sendEpoch, links |-> ls]
  <2>1. t = [c EXCEPT !.currentEpoch = key.epoch, !.links = Append(@, Link(Append(NextRoot(c), key)))]
    BY DEF AddEpoch
  <2> QED BY <1>3, <1>4, <1>5, <1>7, <1>10, <2>1
<1>13. /\ t.currentEpoch = c.currentEpoch + 1 /\ t.sendEpoch = c.sendEpoch /\ t.links = ls
       /\ Oldest(t) = Oldest(c)
  <2>1. t.currentEpoch = c.currentEpoch + 1 /\ t.sendEpoch = c.sendEpoch /\ t.links = ls
    BY <1>1, <1>12
  <2>2. t.currentEpoch - Len(t.links) + 1 = c.currentEpoch - Len(c.links) + 1
    <3>1. Len(t.links) = Len(c.links) + 1
      BY <1>11, <2>1
    <3>2. c.currentEpoch \in Nat /\ Len(c.links) \in Nat
      BY <1>2, <1>3
    <3> QED BY <2>1, <3>1, <3>2
  <2> QED BY <2>1, <2>2 DEF Oldest
<1>14. IsChain(t)
  <2>1. t = [currentEpoch |-> t.currentEpoch, sendEpoch |-> t.sendEpoch, links |-> t.links]
    BY <1>1, <1>12, <1>13
  <2>2. c.sendEpoch <= c.currentEpoch + 1 /\ c.currentEpoch + 1 \in Nat
    BY <1>3
  <2> QED BY <1>2, <1>3, <1>11, <1>13, <2>1, <2>2 DEF IsChain
<1>15. ASSUME NEW e \in Epochs(c) PROVE e \in Epochs(t) /\ LinkAt(t, e) = LinkAt(c, e)
  <2>1. e \in Epochs(t)
    BY <1>2, <1>3, <1>13 DEF Epochs
  <2> QED BY <1>2, <1>11, <1>13, <2>1 DEF LinkAt
<1>16. LinkAt(t, t.currentEpoch) = l
  <2>1. t.currentEpoch - Oldest(t) + 1 = Len(ls)
    BY <1>2, <1>3, <1>11, <1>13
  <2> QED BY <1>11, <1>13, <2>1 DEF LinkAt
<1>17. ASSUME NEW e \in Epochs(t), e \notin Epochs(c) PROVE e = t.currentEpoch
  BY <1>2, <1>3, <1>13, <1>17 DEF Epochs
<1>18. IsExtended(c, t)
  BY <1>3, <1>8, <1>13, <1>15, <1>16, <1>17 DEF IsExtended
<1>19. LinkOK(t, t.currentEpoch, b)
  <2>1. Begins(b, b) /\ Len(b) = t.currentEpoch
    BY <1>1, <1>6, <1>13 DEF Begins
  <2>2. DirOK(newChainEpochDirection)
    BY SpqrAssumption DEF DirOK, newChainEpochDirection
  <2>3. t.currentEpoch >= t.sendEpoch
    BY <1>3, <1>13
  <2>4. /\ l.root = b /\ l.send = newChainEpochDirection /\ l.recv = newChainEpochDirection
        /\ l.send.open = TRUE /\ l.send.prev = {} /\ l.send.ctr = 0
    BY <1>8 DEF newChainEpochDirection
  <2>5. ~(t.currentEpoch < t.sendEpoch)
    BY <1>3, <1>13
  <2> QED BY <1>16, <2>1, <2>2, <2>3, <2>4, <2>5 DEF LinkOK
<1>20. ASSUME NEW e \in Epochs(c) PROVE LinkOK(t, e, b)
  <2>1. LinkOK(c, e, a) /\ LinkAt(c, e) \in Links
    BY <1>2 DEF ChainOK
  <2>2. Begins(LinkAt(c, e).root, a) /\ LinkAt(c, e).root \in Seq(Secrets(Samples))
    BY <2>1 DEF LinkOK, Links
  <2>3. Begins(LinkAt(c, e).root, b)
    BY <1>5, <2>2, BeginsAppend
  <2> QED BY <1>13, <1>15, <2>1, <2>3 DEF LinkOK
<1>21. \A e \in Epochs(t) : LinkOK(t, e, b)
  BY <1>17, <1>19, <1>20
<1> QED BY <1>1, <1>5, <1>6, <1>13, <1>14, <1>18, <1>21 DEF ChainOK

LEMMA ClosedLink ==
  ASSUME NEW l \in Links, NEW k, k = [l EXCEPT !.send.open = FALSE]
  PROVE  /\ k \in Links /\ k.root = l.root /\ k.recv = l.recv
         /\ k.send.ctr = l.send.ctr /\ k.send.prev = l.send.prev /\ k.send.open = FALSE
BY DEF Links, Dirs

LEMMA CountedLink ==
  ASSUME NEW l \in Links, NEW n \in Nat, NEW k, k = [l EXCEPT !.send.ctr = n]
  PROVE  /\ k \in Links /\ k.root = l.root /\ k.recv = l.recv
         /\ k.send.ctr = n /\ k.send.prev = l.send.prev /\ k.send.open = l.send.open
BY DEF Links, Dirs

LEMMA ReceivedLink ==
  ASSUME NEW l \in Links, NEW d \in Dirs, NEW k, k = [l EXCEPT !.recv = d]
  PROVE  k \in Links /\ k.root = l.root /\ k.send = l.send /\ k.recv = d
BY DEF Links

\* t is c after its sending epoch has become e.
IsMoved(c, t, e) ==
  /\ t.sendEpoch = e /\ t.currentEpoch = c.currentEpoch /\ Oldest(c) <= Oldest(t)
  /\ \A k \in Epochs(t) :
       /\ k \in Epochs(c)
       /\ LinkAt(t, k).root = LinkAt(c, k).root
       /\ LinkAt(t, k).recv = LinkAt(c, k).recv
       /\ LinkAt(t, k).send.ctr = LinkAt(c, k).send.ctr

LEMMA ToSendEpochOK ==
  ASSUME NEW a, NEW c, ChainOK(c, a), NEW e \in Nat,
         c.sendEpoch <= e, e <= c.sendEpoch + 1, e <= c.currentEpoch,
         NEW t, t = ToSendEpoch(c, e)
  PROVE  ChainOK(t, a) /\ IsMoved(c, t, e)
<1>1. IsChain(c) /\ c.currentEpoch = Len(a)
  BY DEF ChainOK
<1>2. /\ Len(c.links) \in Nat /\ Len(c.links) >= 1 /\ Oldest(c) \in Nat
      /\ Oldest(c) + Len(c.links) = c.currentEpoch + 1
  BY <1>1, EpochsFacts
<1>3. /\ c.currentEpoch \in Nat /\ c.sendEpoch \in Nat /\ c.links \in Seq(Links)
      /\ Oldest(c) <= c.sendEpoch /\ c.sendEpoch <= c.currentEpoch /\ c.sendEpoch <= Oldest(c) + 1
  BY <1>1 DEF IsChain
<1>6. c = [currentEpoch |-> c.currentEpoch, sendEpoch |-> c.sendEpoch, links |-> c.links]
  BY <1>1 DEF IsChain
<1>7. PICK o, n, cur, sd : o = Oldest(c) /\ n = Len(c.links) /\ cur = c.currentEpoch /\ sd = c.sendEpoch
  OBVIOUS
<1>8. /\ o \in Nat /\ n \in Nat /\ cur \in Nat /\ sd \in Nat /\ n >= 1 /\ o + n = cur + 1
      /\ o <= sd /\ sd <= cur /\ sd <= o + 1 /\ sd <= e /\ e <= sd + 1 /\ e <= cur
  BY <1>2, <1>3, <1>7
<1>4. CASE e = c.sendEpoch
  <2>1. t = c
    BY <1>4 DEF ToSendEpoch
  <2> QED BY <1>2, <1>4, <2>1 DEF IsMoved
<1>5. CASE e # c.sendEpoch
  <2>1. e = sd + 1
    BY <1>7, <1>8, <1>5
  <2>2. e \in Epochs(c)
    BY <1>7, <1>8, <2>1 DEF Epochs
  <2>3. PICK i : i = EpochIndex(c, e)
    OBVIOUS
  <2>4. i = e - o + 1 /\ i - 1 \in {1, 2}
    <3>1. i = e - o + 1
      BY <1>1, <1>7, <2>2, <2>3, IndexOf
    <3> QED BY <1>8, <2>1, <3>1
  <2>5. PICK drop : drop = IF i - 1 > epochsToKeepPriorToSend THEN i - 1 - epochsToKeepPriorToSend ELSE 0
    OBVIOUS
  <2>6. i \in Int /\ drop = i - 2 /\ drop \in {0, 1} /\ i - drop = 2
    BY <1>8, <2>4, <2>5 DEF epochsToKeepPriorToSend
  <2>7. drop = e - o - 1 /\ drop + 1 <= n /\ n - drop \in Nat
    BY <1>8, <2>1, <2>4, <2>6
  <2>8. PICK kept : kept = SubSeq(c.links, drop + 1, n)
    OBVIOUS
  <2>9. /\ kept \in Seq(Links) /\ Len(kept) = n - drop
        /\ \A j \in 1 .. Len(kept) : kept[j] = c.links[drop + j]
    <3>1. drop + 1 \in Int /\ n \in Int /\ drop + 1 <= n /\ n - (drop + 1) + 1 = n - drop
      BY <1>8, <2>6, <2>7
    <3>2. \A j \in (drop + 1) .. n : c.links[j] \in Links
      BY <1>3, <1>7, <1>8, <2>6
    <3>3. PICK m : m = drop + 1
      OBVIOUS
    <3>4. /\ kept \in Seq(Links)
          /\ Len(kept) = n - m + 1
          /\ \A j \in 1 .. n - m + 1 : kept[j] = c.links[m + j - 1]
      BY <2>8, <3>1, <3>2, <3>3, SubSeqProperties
    <3>5. \A j \in 1 .. Len(kept) : m + j - 1 = drop + j
      BY <2>6, <3>3
    <3> QED BY <3>1, <3>3, <3>4, <3>5
  <2>10. PICK ls : ls = [j \in 1 .. Len(kept) |->
                          IF j < i - drop THEN [kept[j] EXCEPT !.send.open = FALSE] ELSE kept[j]]
    OBVIOUS
  <2>11. t = [currentEpoch |-> c.currentEpoch, sendEpoch |-> e, links |-> ls]
    <3>1. t = [c EXCEPT !.sendEpoch = e, !.links = ls]
      BY <1>5, <1>7, <2>3, <2>5, <2>8, <2>10 DEF ToSendEpoch
    <3> QED BY <1>6, <3>1
  <2>12. ASSUME NEW j \in 1 .. Len(kept)
         PROVE  /\ kept[j] \in Links /\ ls[j] \in Links
                /\ ls[j].root = kept[j].root /\ ls[j].recv = kept[j].recv
                /\ ls[j].send.ctr = kept[j].send.ctr /\ ls[j].send.prev = kept[j].send.prev
                /\ j < 2 => ls[j].send.open = FALSE
                /\ j >= 2 => ls[j].send.open = kept[j].send.open
    <3>1. kept[j] \in Links /\ j \in Int
      BY <2>9
    <3>2. CASE j < 2
      <4>1. ls[j] = [kept[j] EXCEPT !.send.open = FALSE]
        BY <2>6, <2>10, <3>2
      <4>2. ~(j >= 2)
        BY <3>1, <3>2
      <4> QED BY <3>1, <3>2, <4>1, <4>2, ClosedLink
    <3>3. CASE ~(j < 2)
      <4>1. ls[j] = kept[j]
        BY <2>6, <2>10, <3>3
      <4> QED BY <3>1, <3>3, <4>1
    <3> QED BY <3>2, <3>3
  <2>13. ls \in Seq(Links) /\ Len(ls) = Len(kept)
    <3>1. Len(kept) \in Nat
      BY <2>9
    <3>2. ls \in [1 .. Len(kept) -> Links]
      BY <2>10, <2>12
    <3> QED BY <3>1, <3>2, SeqDef, LenProperties
  <2>14. /\ t.currentEpoch = c.currentEpoch /\ t.sendEpoch = e /\ t.links = ls
         /\ Oldest(t) = e - 1
    <3>1. t.currentEpoch = c.currentEpoch /\ t.sendEpoch = e /\ t.links = ls
      BY <2>11
    <3>2. cur - Len(ls) + 1 = e - 1
      BY <1>8, <2>6, <2>7, <2>9, <2>13
    <3> QED BY <1>7, <3>1, <3>2 DEF Oldest
  <2>15. IsChain(t)
    <3>1. t = [currentEpoch |-> t.currentEpoch, sendEpoch |-> t.sendEpoch, links |-> t.links]
      BY <2>11, <2>14
    <3>2. e - 1 \in Nat /\ e - 1 <= e /\ e <= e - 1 + 1 /\ e = e - 1 + 1
      BY <1>8, <2>1
    <3> QED BY <1>3, <2>13, <2>14, <3>1, <3>2 DEF IsChain
  <2>16. ASSUME NEW k \in Epochs(t)
         PROVE  /\ k \in Epochs(c)
                /\ LinkAt(t, k).root = LinkAt(c, k).root
                /\ LinkAt(t, k).recv = LinkAt(c, k).recv
                /\ LinkAt(t, k).send.ctr = LinkAt(c, k).send.ctr
                /\ LinkOK(t, k, a)
    <3>1. k \in (e - 1) .. cur /\ k \in Int
      BY <1>7, <1>8, <2>14 DEF Epochs
    <3>2. k \in Epochs(c)
      BY <1>7, <1>8, <2>1, <3>1 DEF Epochs
    <3>3. PICK j : j = k - (e - 1) + 1
      OBVIOUS
    <3>4. j \in Int /\ j \in 1 .. Len(kept) /\ drop + j = k - o + 1 /\ (k < e => j < 2) /\ (k >= e => j >= 2)
      <4>1. e \in Nat /\ k \in Int /\ e - 1 <= k /\ k <= cur
        BY <1>8, <3>1
      <4>2. 1 <= j /\ j <= n - drop /\ j \in Int
        BY <1>8, <2>6, <2>7, <3>3, <4>1
      <4>3. drop + j = k - o + 1
        BY <1>8, <2>7, <3>3, <4>1
      <4> QED BY <2>7, <2>9, <3>3, <4>1, <4>2, <4>3
    <3>5. LinkAt(t, k) = ls[j] /\ LinkAt(c, k) = kept[j]
      BY <1>7, <2>9, <2>14, <3>3, <3>4 DEF LinkAt
    <3>6. LinkOK(c, k, a)
      BY <3>2 DEF ChainOK
    <3>7. k >= e => k >= c.sendEpoch
      BY <1>7, <1>8, <2>1, <3>1
    <3>8. k > e => k > c.sendEpoch
      BY <1>7, <1>8, <2>1, <3>1
    <3>9. LinkOK(t, k, a)
      <4>1. k >= e => LinkAt(t, k).send.open = TRUE
        BY <2>12, <3>1, <3>4, <3>5, <3>6, <3>7 DEF LinkOK
      <4>2. k < e => LinkAt(t, k).send.open = FALSE
        BY <2>12, <3>4, <3>5
      <4>3. k > e => LinkAt(t, k).send.ctr = 0
        BY <2>12, <3>4, <3>5, <3>6, <3>8 DEF LinkOK
      <4>4. /\ LinkAt(t, k).root = LinkAt(c, k).root /\ LinkAt(t, k).recv = LinkAt(c, k).recv
            /\ LinkAt(t, k).send.prev = LinkAt(c, k).send.prev
        BY <2>12, <3>4, <3>5
      <4>5. /\ Len(LinkAt(c, k).root) = k /\ Begins(LinkAt(c, k).root, a)
            /\ LinkAt(c, k).send.prev = {} /\ DirOK(LinkAt(c, k).recv)
        BY <3>6 DEF LinkOK
      <4> QED BY <2>14, <4>1, <4>2, <4>3, <4>4, <4>5 DEF LinkOK
    <3> QED BY <2>12, <3>2, <3>4, <3>5, <3>9
  <2>17. Oldest(c) <= Oldest(t)
    BY <1>7, <1>8, <2>1, <2>14
  <2> QED BY <1>1, <2>14, <2>15, <2>16, <2>17 DEF ChainOK, IsMoved
<1> QED BY <1>4, <1>5

\* t is c with one link replaced.
IsReplaced(c, t, e, l) ==
  /\ t.sendEpoch = c.sendEpoch /\ t.currentEpoch = c.currentEpoch
  /\ Oldest(t) = Oldest(c) /\ Epochs(t) = Epochs(c)
  /\ LinkAt(t, e) = l
  /\ \A k \in Epochs(c) : k # e => LinkAt(t, k) = LinkAt(c, k)

LEMMA ReplacedOK ==
  ASSUME NEW a, NEW c, ChainOK(c, a), NEW e \in Epochs(c), NEW l \in Links,
         l.root = LinkAt(c, e).root, l.send.open = LinkAt(c, e).send.open, l.send.prev = {},
         e > c.sendEpoch => l.send.ctr = 0, DirOK(l.recv),
         NEW i, i = EpochIndex(c, e), NEW t, t = [c EXCEPT !.links = [@ EXCEPT ![i] = l]]
  PROVE  ChainOK(t, a) /\ IsReplaced(c, t, e, l)
<1>1. IsChain(c) /\ c.currentEpoch = Len(a)
  BY DEF ChainOK
<1>2. /\ Len(c.links) \in Nat /\ Oldest(c) \in Nat /\ e \in Nat
      /\ \A k \in Epochs(c) : k \in Nat /\ k - Oldest(c) + 1 \in 1 .. Len(c.links)
  BY <1>1, EpochsFacts
<1>3. c.links \in Seq(Links) /\ c = [currentEpoch |-> c.currentEpoch, sendEpoch |-> c.sendEpoch, links |-> c.links]
  BY <1>1 DEF IsChain
<1>4. i = e - Oldest(c) + 1 /\ i \in 1 .. Len(c.links)
  BY <1>1, <1>2, IndexOf
<1>5. PICK ls : ls = [c.links EXCEPT ![i] = l]
  OBVIOUS
<1>6. /\ ls \in Seq(Links) /\ Len(ls) = Len(c.links) /\ ls[i] = l
      /\ \A j \in 1 .. Len(c.links) : j # i => ls[j] = c.links[j]
  BY <1>3, <1>4, <1>5
<1>7. t = [currentEpoch |-> c.currentEpoch, sendEpoch |-> c.sendEpoch, links |-> ls]
  BY <1>3, <1>5
<1>8. /\ t.currentEpoch = c.currentEpoch /\ t.sendEpoch = c.sendEpoch /\ t.links = ls
      /\ Oldest(t) = Oldest(c) /\ Epochs(t) = Epochs(c)
  BY <1>6, <1>7 DEF Oldest, Epochs
<1>9. IsChain(t)
  <2>1. t = [currentEpoch |-> t.currentEpoch, sendEpoch |-> t.sendEpoch, links |-> t.links]
    BY <1>7, <1>8
  <2> QED BY <1>1, <1>6, <1>8, <2>1 DEF IsChain
<1>10. LinkAt(t, e) = l
  BY <1>4, <1>6, <1>8 DEF LinkAt
<1>11. ASSUME NEW k \in Epochs(c), k # e PROVE LinkAt(t, k) = LinkAt(c, k)
  <2>1. PICK j : j = k - Oldest(c) + 1
    OBVIOUS
  <2>2. j \in 1 .. Len(c.links) /\ j # i
    BY <1>2, <1>4, <1>11, <2>1
  <2> QED BY <1>6, <1>8, <2>1, <2>2 DEF LinkAt
<1>12. IsReplaced(c, t, e, l)
  BY <1>8, <1>10, <1>11 DEF IsReplaced
<1>13. ASSUME NEW k \in Epochs(c) PROVE LinkOK(t, k, a)
  <2>1. LinkOK(c, k, a)
    BY DEF ChainOK
  <2>2. CASE k = e
    BY <1>8, <1>10, <2>1, <2>2 DEF LinkOK
  <2>3. CASE k # e
    BY <1>8, <1>11, <2>1, <2>3 DEF LinkOK
  <2> QED BY <2>2, <2>3
<1> QED BY <1>1, <1>8, <1>9, <1>12, <1>13 DEF ChainOK

\* t is c after a key of epoch e was drawn for sending.
IsSent(c, t, e) ==
  /\ t.sendEpoch = e /\ t.currentEpoch = c.currentEpoch /\ Oldest(c) <= Oldest(t)
  /\ e \in Epochs(t)
  /\ \A k \in Epochs(t) :
       /\ k \in Epochs(c)
       /\ LinkAt(t, k).root = LinkAt(c, k).root
       /\ LinkAt(t, k).recv = LinkAt(c, k).recv
  /\ LinkAt(t, e).send.ctr = LinkAt(c, e).send.ctr + 1

\* SendKey for the sending epoch or the next one does not fail.
LEMMA SendKeyOK ==
  ASSUME NEW p, NEW a, NEW c, ChainOK(c, a), NEW e \in Nat,
         c.sendEpoch <= e, e <= c.sendEpoch + 1, e <= c.currentEpoch,
         NEW out, out = SendKey(p, c, e)
  PROVE  /\ out.err = "none" /\ ChainOK(out.chain, a) /\ IsSent(c, out.chain, e)
         /\ out.index = LinkAt(c, e).send.ctr + 1 /\ out.index \in Nat
         /\ out.salt = Salt(LinkAt(c, e).root, p, out.index)
         /\ LinkAt(c, e).root \in Seq(Secrets(Samples)) /\ Len(LinkAt(c, e).root) = e
         /\ Begins(LinkAt(c, e).root, a)
<1>1. PICK t : t = ToSendEpoch(c, e)
  OBVIOUS
<1>2. ChainOK(t, a) /\ IsMoved(c, t, e)
  BY <1>1, ToSendEpochOK
<1>3. IsChain(c) /\ IsChain(t)
  BY <1>2 DEF ChainOK
<1>4. e \in Epochs(t) /\ e \in Epochs(c)
  BY <1>2, <1>3, EpochsFacts DEF IsMoved
<1>5. LinkAt(t, e) \in Links /\ LinkAt(c, e) \in Links
  BY <1>3, <1>4, EpochsFacts
<1>6. PICK i : i = EpochIndex(t, e)
  OBVIOUS
<1>7. i = e - Oldest(t) + 1 /\ EpochIndex(c, e) # 0 /\ t.links[i] = LinkAt(t, e)
  <2>1. i = e - Oldest(t) + 1
    BY <1>3, <1>4, <1>6, IndexOf
  <2>2. EpochIndex(c, e) = e - Oldest(c) + 1 /\ EpochIndex(c, e) \in 1 .. Len(c.links)
    BY <1>3, <1>4, IndexOf, EpochsFacts
  <2> QED BY <2>1, <2>2 DEF LinkAt
<1>8. /\ LinkAt(t, e).root = LinkAt(c, e).root /\ LinkAt(t, e).recv = LinkAt(c, e).recv
      /\ LinkAt(t, e).send.ctr = LinkAt(c, e).send.ctr /\ t.sendEpoch = e
  BY <1>2, <1>4 DEF IsMoved
<1>9. LinkOK(t, e, a)
  BY <1>2, <1>4 DEF ChainOK
<1>10. /\ LinkAt(t, e).send.open = TRUE /\ LinkAt(t, e).send.prev = {} /\ DirOK(LinkAt(t, e).recv)
       /\ Len(LinkAt(t, e).root) = e /\ Begins(LinkAt(t, e).root, a)
  BY <1>8, <1>9 DEF LinkOK
<1>11. PICK n : n = LinkAt(t, e).send.ctr + 1
  OBVIOUS
<1>12. n \in Nat /\ LinkAt(t, e).root \in Seq(Secrets(Samples))
  BY <1>5, <1>11 DEF Links, Dirs
<1>13. PICK l : l = [LinkAt(t, e) EXCEPT !.send.ctr = n]
  OBVIOUS
<1>14. /\ l \in Links /\ l.root = LinkAt(t, e).root /\ l.recv = LinkAt(t, e).recv
       /\ l.send.ctr = n /\ l.send.prev = LinkAt(t, e).send.prev /\ l.send.open = LinkAt(t, e).send.open
  <2>1. PICK k : k = LinkAt(t, e)
    OBVIOUS
  <2>2. k \in Links /\ n \in Nat /\ l = [k EXCEPT !.send.ctr = n]
    BY <1>5, <1>12, <1>13, <2>1
  <2>3. /\ l \in Links /\ l.root = k.root /\ l.recv = k.recv
        /\ l.send.ctr = n /\ l.send.prev = k.send.prev /\ l.send.open = k.send.open
    BY <2>2, CountedLink
  <2> QED BY <2>1, <2>3
<1>15. PICK u : u = [t EXCEPT !.links = [@ EXCEPT ![i] = l]]
  OBVIOUS
<1>16. ChainOK(u, a) /\ IsReplaced(t, u, e, l)
  <2>1. ~(e > t.sendEpoch)
    BY <1>8
  <2> QED BY <1>2, <1>4, <1>6, <1>10, <1>14, <1>15, <2>1, ReplacedOK
<1>17. out = [err |-> "none", chain |-> u, index |-> n, salt |-> Salt(LinkAt(t, e).root, p, n)]
  <2>1. [t EXCEPT !.links[i].send.ctr = n] = u
    BY <1>7, <1>13, <1>15
  <2>2. ~(e < c.sendEpoch)
    BY <1>3 DEF IsChain
  <2> QED BY <1>1, <1>6, <1>7, <1>10, <1>11, <2>1, <2>2 DEF SendKey
<1>18. IsSent(c, u, e)
  <2>1. /\ u.sendEpoch = e /\ u.currentEpoch = c.currentEpoch /\ Oldest(c) <= Oldest(u)
        /\ Epochs(u) = Epochs(t) /\ LinkAt(u, e) = l
    BY <1>2, <1>16 DEF IsMoved, IsReplaced
  <2>2. ASSUME NEW k \in Epochs(u)
        PROVE  k \in Epochs(c) /\ LinkAt(u, k).root = LinkAt(c, k).root /\ LinkAt(u, k).recv = LinkAt(c, k).recv
    <3>1. /\ k \in Epochs(t) /\ k \in Epochs(c)
          /\ LinkAt(t, k).root = LinkAt(c, k).root /\ LinkAt(t, k).recv = LinkAt(c, k).recv
      BY <1>2, <2>1 DEF IsMoved
    <3>2. CASE k = e
      BY <1>14, <2>1, <3>1, <3>2
    <3>3. CASE k # e
      BY <1>16, <3>1, <3>3 DEF IsReplaced
    <3> QED BY <3>2, <3>3
  <2>3. l.send.ctr = LinkAt(c, e).send.ctr + 1
    BY <1>8, <1>11, <1>14
  <2> QED BY <1>4, <2>1, <2>2, <2>3 DEF IsSent
<1> QED BY <1>8, <1>10, <1>11, <1>12, <1>16, <1>17, <1>18

\* d is the direction g after the key with index i was taken.
IsTaken(g, d, i) ==
  /\ g.ctr <= d.ctr /\ i <= d.ctr /\ (d.ctr = g.ctr \/ d.ctr = i)
  /\ i \notin d.prev
  /\ \A j \in d.prev : j \in g.prev \/ j > g.ctr
  /\ \A j \in Nat : Untaken(g, j) /\ j # i => Untaken(d, j)

\* The key of a direction that a message asks for.
LEMMA TakeKeyOK ==
  ASSUME NEW g \in Dirs, DirOK(g), NEW i \in Nat, i > 0, NEW out, out = TakeKey(g, i)
  PROVE  /\ out.err = "none" => out.dir \in Dirs /\ DirOK(out.dir) /\ IsTaken(g, out.dir, i)
         /\ out.err # "none" => ~Untaken(g, i) \/ i + MaxOOO < g.ctr \/ i > g.ctr + MaxJump
<1>1. g.ctr \in Nat /\ g.prev \subseteq Nat /\ MaxOOO \in Nat /\ MaxJump \in Nat
  BY SpqrAssumption DEF Dirs
<1>2. g = [ctr |-> g.ctr, open |-> g.open, prev |-> g.prev] /\ g.open \in BOOLEAN
  BY DEF Dirs
<1>3. CASE i < g.ctr /\ i + MaxOOO < g.ctr
  <2>1. out = [err |-> "trimmed", dir |-> g]
    BY <1>3 DEF TakeKey
  <2> QED BY <1>3, <2>1
<1>4. CASE i < g.ctr /\ ~(i + MaxOOO < g.ctr) /\ i \notin g.prev
  <2>1. out = [err |-> "requested", dir |-> g]
    BY <1>4 DEF TakeKey
  <2>2. ~Untaken(g, i)
    BY <1>1, <1>4 DEF Untaken
  <2> QED BY <2>1, <2>2
<1>5. CASE i < g.ctr /\ ~(i + MaxOOO < g.ctr) /\ i \in g.prev
  <2>1. PICK d : d = [g EXCEPT !.prev = @ \ {i}]
    OBVIOUS
  <2>2. out = [err |-> "none", dir |-> d]
    BY <1>5, <2>1 DEF TakeKey
  <2>3. d = [ctr |-> g.ctr, open |-> g.open, prev |-> g.prev \ {i}]
    BY <1>2, <2>1
  <2>4. d.ctr = g.ctr /\ d.prev = g.prev \ {i} /\ d \in Dirs
    BY <1>1, <1>2, <2>3 DEF Dirs
  <2>5. DirOK(d)
    BY <2>4 DEF DirOK
  <2>6. ASSUME NEW j \in Nat, Untaken(g, j), j # i PROVE Untaken(d, j)
    BY <2>4, <2>6 DEF Untaken
  <2>7. IsTaken(g, d, i)
    BY <1>1, <1>5, <2>4, <2>6 DEF IsTaken
  <2> QED BY <2>2, <2>4, <2>5, <2>7
<1>6. CASE i = g.ctr
  <2>1. out = [err |-> "requested", dir |-> g]
    BY <1>1, <1>6 DEF TakeKey
  <2>2. ~Untaken(g, i)
    BY <1>1, <1>6 DEF Untaken, DirOK
  <2> QED BY <2>1, <2>2
<1>7. CASE i > g.ctr /\ i - g.ctr > MaxJump
  <2>1. out = [err |-> "jump", dir |-> g]
    BY <1>1, <1>7 DEF TakeKey
  <2>2. i > g.ctr + MaxJump
    BY <1>1, <1>7
  <2> QED BY <2>1, <2>2
<1>8. CASE i > g.ctr /\ ~(i - g.ctr > MaxJump)
  <2>1. PICK d : d = JumpTo(g, i)
    OBVIOUS
  <2>2. out = [err |-> "none", dir |-> d]
    BY <1>1, <1>8, <2>1 DEF TakeKey
  <2>3. PICK kept : kept = IF i > g.ctr + MaxOOO THEN {} ELSE g.prev
    OBVIOUS
  <2>4. PICK passed : passed = {j \in (g.ctr + 1) .. (i - 1) : j + MaxOOO >= i}
    OBVIOUS
  <2>5. PICK prev : prev = {j \in kept \cup passed : j + MaxOOO >= i - 1}
    OBVIOUS
  <2>6. d = [ctr |-> i, open |-> g.open, prev |-> prev]
    <3>1. d = [g EXCEPT !.ctr = i, !.prev = prev]
      BY <2>1, <2>3, <2>4, <2>5 DEF JumpTo
    <3> QED BY <1>2, <3>1
  <2>7. \A j \in prev : /\ j \in Nat /\ 1 <= j /\ j < i /\ i - 1 <= j + MaxOOO
                        /\ j \in g.prev \/ j > g.ctr
    <3> SUFFICES ASSUME NEW j \in prev
                 PROVE  j \in Nat /\ 1 <= j /\ j < i /\ i - 1 <= j + MaxOOO /\ (j \in g.prev \/ j > g.ctr)
      OBVIOUS
    <3>1. CASE j \in g.prev
      <4>1. j \in Nat /\ 1 <= j /\ j < g.ctr
        BY <1>1, <3>1 DEF DirOK
      <4> QED BY <1>1, <1>8, <2>5, <3>1, <4>1
    <3>2. CASE j \in passed
      BY <1>1, <1>8, <2>4, <2>5, <3>2
    <3> QED BY <2>3, <2>5, <3>1, <3>2
  <2>8. d.ctr = i /\ d.prev = prev /\ d \in Dirs
    BY <1>2, <2>6, <2>7 DEF Dirs
  <2>9. \E w \in (i - 1 - MaxOOO) .. (i - 1) : w \notin prev
    <3>1. CASE i > g.ctr + MaxOOO
      <4>1. i - 1 - MaxOOO \notin prev
        BY <1>1, <2>3, <2>4, <2>5, <3>1
      <4>2. i - 1 - MaxOOO \in (i - 1 - MaxOOO) .. (i - 1)
        BY <1>1
      <4> QED BY <4>1, <4>2
    <3>2. CASE ~(i > g.ctr + MaxOOO)
      <4>1. g.ctr \notin g.prev
        BY <1>1 DEF DirOK
      <4>2. g.ctr \notin prev
        BY <1>1, <2>3, <2>4, <2>5, <4>1
      <4>3. g.ctr \in (i - 1 - MaxOOO) .. (i - 1)
        BY <1>1, <1>8, <3>2
      <4> QED BY <4>2, <4>3
    <3> QED BY <3>1, <3>2
  <2>10. DirOK(d)
    BY <2>7, <2>8, <2>9 DEF DirOK
  <2>11. ASSUME NEW j \in Nat, Untaken(g, j), j # i PROVE Untaken(d, j)
    <3>1. SUFFICES ASSUME j < i, j + MaxOOO >= i PROVE j \in prev
      BY <1>1, <2>8, <2>11, <3>1 DEF Untaken
    <3>2. CASE j > g.ctr
      <4>1. j \in (g.ctr + 1) .. (i - 1)
        BY <1>1, <3>1, <3>2
      <4>2. j \in passed
        BY <2>4, <3>1, <4>1
      <4> QED BY <1>1, <2>5, <3>1, <4>2
    <3>3. CASE ~(j > g.ctr)
      <4>1. ~(i > g.ctr + MaxOOO) /\ ~(j + MaxOOO < g.ctr)
        BY <1>1, <1>8, <3>1, <3>3
      <4>2. j \in g.prev
        BY <2>11, <3>3, <4>1 DEF Untaken
      <4>3. j \in kept
        BY <2>3, <4>1, <4>2
      <4> QED BY <1>1, <2>5, <3>1, <4>3
    <3> QED BY <3>2, <3>3
  <2>12. i \notin d.prev
    BY <2>7, <2>8
  <2>13. IsTaken(g, d, i)
    BY <1>1, <1>8, <2>7, <2>8, <2>11, <2>12 DEF IsTaken
  <2> QED BY <2>2, <2>8, <2>10, <2>13
<1> QED BY <1>1, <1>3, <1>4, <1>5, <1>6, <1>7, <1>8

\* t is c after the key with index i of epoch e was taken to open a message.
IsReceived(c, t, e, i) ==
  /\ t.sendEpoch = c.sendEpoch /\ t.currentEpoch = c.currentEpoch
  /\ Oldest(t) = Oldest(c) /\ Epochs(t) = Epochs(c)
  /\ \A k \in Epochs(c) :
       /\ LinkAt(t, k).root = LinkAt(c, k).root /\ LinkAt(t, k).send = LinkAt(c, k).send
       /\ k # e => LinkAt(t, k).recv = LinkAt(c, k).recv
       /\ k = e => IsTaken(LinkAt(c, e).recv, LinkAt(t, e).recv, i)

LEMMA RecvKeyOK ==
  ASSUME NEW p, NEW a, NEW c, ChainOK(c, a), NEW e \in Int, NEW i \in Nat, i > 0,
         NEW out, out = RecvKey(p, c, e, i)
  PROVE  /\ out.err = "none" =>
              /\ e \in Epochs(c) /\ ChainOK(out.chain, a) /\ IsReceived(c, out.chain, e, i)
              /\ out.salt = Salt(LinkAt(c, e).root, Peer(p), i)
         /\ out.err # "none" =>
              \/ e \notin Epochs(c)
              \/ ~Untaken(LinkAt(c, e).recv, i)
              \/ i + MaxOOO < LinkAt(c, e).recv.ctr
              \/ i > LinkAt(c, e).recv.ctr + MaxJump
<1>1. IsChain(c)
  BY DEF ChainOK
<1>2. CASE e \notin Epochs(c)
  <2>1. EpochIndex(c, e) = 0
    BY <1>1, <1>2, IndexOf
  <2>2. out = Failed("epoch")
    BY <2>1 DEF RecvKey
  <2> QED BY <1>2, <2>2 DEF Failed
<1>3. CASE e \in Epochs(c)
  <2>1. PICK x : x = EpochIndex(c, e)
    OBVIOUS
  <2>2. x = e - Oldest(c) + 1 /\ x # 0 /\ c.links[x] = LinkAt(c, e) /\ LinkAt(c, e) \in Links
    <3>1. x = e - Oldest(c) + 1 /\ x \in 1 .. Len(c.links) /\ LinkAt(c, e) \in Links
      BY <1>1, <1>3, <2>1, IndexOf, EpochsFacts
    <3> QED BY <3>1 DEF LinkAt
  <2>3. PICK g : g = LinkAt(c, e).recv
    OBVIOUS
  <2>4. LinkOK(c, e, a)
    BY <1>3 DEF ChainOK
  <2>5. g \in Dirs /\ DirOK(g)
    BY <2>2, <2>3, <2>4 DEF Links, LinkOK
  <2>6. PICK key : key = TakeKey(g, i)
    OBVIOUS
  <2>7. CASE key.err # "none"
    <3>1. out = Failed(key.err)
      BY <2>1, <2>2, <2>3, <2>6, <2>7 DEF RecvKey
    <3>2. out.err = key.err
      BY <3>1 DEF Failed
    <3> QED BY <2>3, <2>5, <2>6, <2>7, <3>2, TakeKeyOK
  <2>8. CASE key.err = "none"
    <3>1. PICK d : d = key.dir
      OBVIOUS
    <3>2. d \in Dirs /\ DirOK(d) /\ IsTaken(g, d, i)
      BY <2>5, <2>6, <2>8, <3>1, TakeKeyOK
    <3>3. PICK l : l = [LinkAt(c, e) EXCEPT !.recv = d]
      OBVIOUS
    <3>4. l \in Links /\ l.root = LinkAt(c, e).root /\ l.send = LinkAt(c, e).send /\ l.recv = d
      <4>1. PICK k : k = LinkAt(c, e)
        OBVIOUS
      <4>2. k \in Links /\ l = [k EXCEPT !.recv = d]
        BY <2>2, <3>3, <4>1
      <4>3. l \in Links /\ l.root = k.root /\ l.send = k.send /\ l.recv = d
        BY <3>2, <4>2, ReceivedLink
      <4> QED BY <4>1, <4>3
    <3>5. PICK t : t = [c EXCEPT !.links = [@ EXCEPT ![x] = l]]
      OBVIOUS
    <3>6. ChainOK(t, a) /\ IsReplaced(c, t, e, l)
      <4>1. l.send.prev = {} /\ (e > c.sendEpoch => l.send.ctr = 0) /\ DirOK(l.recv)
        BY <2>4, <3>2, <3>4 DEF LinkOK
      <4>2. l.send.open = LinkAt(c, e).send.open
        BY <3>4
      <4> QED BY <1>3, <2>1, <3>4, <3>5, <4>1, <4>2, ReplacedOK
    <3>7. out = [err |-> "none", chain |-> t, index |-> i, salt |-> Salt(LinkAt(c, e).root, Peer(p), i)]
      <4>1. [c EXCEPT !.links[x].recv = d] = t
        BY <2>2, <3>3, <3>5
      <4> QED BY <2>1, <2>2, <2>3, <2>6, <2>8, <3>1, <4>1 DEF RecvKey
    <3>8. IsReceived(c, t, e, i)
      BY <2>3, <3>2, <3>4, <3>6 DEF IsReceived, IsReplaced
    <3> QED BY <1>3, <3>6, <3>7, <3>8
  <2> QED BY <2>7, <2>8
<1> QED BY <1>2, <1>3

\* A chain comes back as it was stored.
LEMMA StoredChain ==
  ASSUME NEW c, IsChain(c)
  PROVE  deserializeChain(serializeChain(c)) = c
<1>1. PICK n : n = Len(c.links)
  OBVIOUS
<1>2. /\ n \in Nat /\ c.links \in [1 .. n -> Links]
      /\ c = [currentEpoch |-> c.currentEpoch, sendEpoch |-> c.sendEpoch, links |-> c.links]
  BY <1>1, LenProperties DEF IsChain
<1>3. PICK ls : ls = [i \in 1 .. n |->
            <<c.links[i].root, appendChainDir(c.links[i].root, c.links[i].send),
              appendChainDir(c.links[i].root, c.links[i].recv)>>]
  OBVIOUS
<1>4. c # Nothing
  BY <1>2, NotNothing
<1>5. serializeChain(c) = <<c.currentEpoch, c.sendEpoch, ls>>
  BY <1>1, <1>3, <1>4 DEF serializeChain
<1>6. PICK data : data = <<c.currentEpoch, c.sendEpoch, ls>>
  OBVIOUS
<1>7. data # << >> /\ data[1] = c.currentEpoch /\ data[2] = c.sendEpoch /\ data[3] = ls
  BY <1>6
<1>8. Len(ls) = n
  <2>1. ls \in Seq({ls[i] : i \in 1 .. n})
    BY <1>2, <1>3
  <2> QED BY <1>2, <1>3, <2>1
<1>9. ASSUME NEW r, NEW d \in Dirs PROVE consumeChainDir(appendChainDir(r, d)) = d
  <2>1. d = [ctr |-> d.ctr, open |-> d.open, prev |-> d.prev] /\ d.open \in BOOLEAN
    BY DEF Dirs
  <2>2. PICK x : x = IF d.open THEN <<r, d.ctr>> ELSE << >>
    OBVIOUS
  <2>3. (x # << >>) = d.open
    BY <2>1, <2>2
  <2>4. PICK y : y = <<d.ctr, x, d.prev>>
    OBVIOUS
  <2>5. y[1] = d.ctr /\ y[2] = x /\ y[3] = d.prev
    BY <2>4
  <2> QED BY <2>1, <2>2, <2>3, <2>4, <2>5 DEF consumeChainDir, appendChainDir
<1>10. ASSUME NEW i \in 1 .. n
       PROVE  [root |-> ls[i][1], send |-> consumeChainDir(ls[i][2]),
               recv |-> consumeChainDir(ls[i][3])] = c.links[i]
  <2>1. PICK l : l = c.links[i]
    OBVIOUS
  <2>2. l \in Links
    BY <1>2, <2>1
  <2>3. l = [root |-> l.root, send |-> l.send, recv |-> l.recv] /\ l.send \in Dirs /\ l.recv \in Dirs
    BY <2>2 DEF Links
  <2>4. ls[i] = <<l.root, appendChainDir(l.root, l.send), appendChainDir(l.root, l.recv)>>
    BY <1>3, <2>1
  <2>5. ls[i][1] = l.root /\ ls[i][2] = appendChainDir(l.root, l.send) /\ ls[i][3] = appendChainDir(l.root, l.recv)
    BY <2>4
  <2>6. consumeChainDir(ls[i][2]) = l.send /\ consumeChainDir(ls[i][3]) = l.recv
    BY <1>9, <2>3, <2>5
  <2> QED BY <2>1, <2>3, <2>5, <2>6
<1>11. [i \in 1 .. n |-> [root |-> ls[i][1], send |-> consumeChainDir(ls[i][2]),
                          recv |-> consumeChainDir(ls[i][3])]] = c.links
  BY <1>2, <1>10
<1>12. deserializeChain(data) =
         [currentEpoch |-> c.currentEpoch, sendEpoch |-> c.sendEpoch, links |-> c.links]
  BY <1>7, <1>8, <1>11 DEF deserializeChain
<1> QED BY <1>2, <1>5, <1>6, <1>12

-----------------------------------------------------------------------------
(* What sending and receiving make of epoch, phase and secrets. *)

LEMMA SendPhase ==
  ASSUME NEW K, NEW s, V1State(s, K), NEW sample, NEW out, out = send(s, sample)
  PROVE  /\ out.msg.epoch = s.epoch /\ out.state.epoch = s.epoch
         /\ s.phase = "KeysUnsampled" => out.state.phase = "KeysSampled"
         /\ s.phase = "HeaderReceived" => out.state.phase = "Ct1Sampled"
         /\ s.phase \notin {"KeysUnsampled", "HeaderReceived"} => out.state.phase = s.phase
         /\ s.phase # "HeaderReceived" => out.key = Nothing /\ out.state.auth = s.auth
<1>1. /\ s = [phase |-> s.phase, epoch |-> s.epoch, auth |-> s.auth,
              ek |-> s.ek, ct |-> s.ct, sent |-> s.sent, dec |-> s.dec]
      /\ s.phase \in EkSide \cup CtSide
  BY DEF V1State, IsRecord
<1>2. ASSUME NEW v, NEW kind, NEW data, NEW o, o = SendChunk(v, kind, data),
             v = [phase |-> v.phase, epoch |-> v.epoch, auth |-> v.auth,
                  ek |-> v.ek, ct |-> v.ct, sent |-> v.sent, dec |-> v.dec]
      PROVE  /\ o.state.phase = v.phase /\ o.state.epoch = v.epoch /\ o.state.auth = v.auth
             /\ o.key = Nothing /\ o.msg.epoch = v.epoch
             /\ o = [state |-> o.state, key |-> Nothing, msg |-> o.msg]
  <2>1. PICK u : u = [v EXCEPT !.sent = (v.sent + 1) % IndexSpace]
    OBVIOUS
  <2>2. u = [phase |-> v.phase, epoch |-> v.epoch, auth |-> v.auth, ek |-> v.ek, ct |-> v.ct,
             sent |-> (v.sent + 1) % IndexSpace, dec |-> v.dec]
    BY <1>2, <2>1
  <2>3. o = Sent(u, kind, nextChunk(v.sent, data))
    BY <1>2, <2>1 DEF SendChunk
  <2> QED BY <2>2, <2>3 DEF Sent, v1Message
<1>3. CASE s.phase = "KeysUnsampled"
  <2>1. PICK v : v = [s EXCEPT !.phase = "KeysSampled", !.ek = sample, !.sent = 0]
    OBVIOUS
  <2>2. v = [phase |-> "KeysSampled", epoch |-> s.epoch, auth |-> s.auth, ek |-> sample,
             ct |-> s.ct, sent |-> 0, dec |-> s.dec]
    BY <1>1, <2>1
  <2>3. out = SendChunk(v, "Hdr", HdrValue(v))
    BY <1>3, <2>1 DEF send, SendFirstHdr
  <2>4. /\ out.state.phase = v.phase /\ out.state.epoch = v.epoch /\ out.state.auth = v.auth
        /\ out.key = Nothing /\ out.msg.epoch = v.epoch
    BY <1>2, <2>2, <2>3
  <2> QED BY <1>3, <2>2, <2>4
<1>4. CASE s.phase = "HeaderReceived"
  <2>1. PICK ct, key, v : /\ ct = Encaps(s.ek, sample) /\ key = Secret(s.epoch, ct)
                          /\ v = [s EXCEPT !.ct = ct, !.auth = Append(s.auth, key),
                                           !.phase = "Ct1Sampled", !.sent = 0]
    OBVIOUS
  <2>2. v = [phase |-> "Ct1Sampled", epoch |-> s.epoch, auth |-> Append(s.auth, key), ek |-> s.ek,
             ct |-> ct, sent |-> 0, dec |-> s.dec]
    BY <1>1, <2>1
  <2>3. PICK w : w = [s EXCEPT !.ct = ct, !.auth = Append(s.auth, key)]
    OBVIOUS
  <2>10. w = [phase |-> s.phase, epoch |-> s.epoch, auth |-> Append(s.auth, key), ek |-> s.ek,
              ct |-> ct, sent |-> s.sent, dec |-> s.dec]
    BY <1>1, <2>3
  <2>11. sendCt1(s, sample).state = w
    BY <2>1, <2>3 DEF sendCt1, Update
  <2>14. PICK x : x = [w EXCEPT !.phase = "Ct1Sampled", !.sent = 0]
    OBVIOUS
  <2>15. x = [phase |-> "Ct1Sampled", epoch |-> s.epoch, auth |-> Append(s.auth, key), ek |-> s.ek,
              ct |-> ct, sent |-> 0, dec |-> s.dec]
    BY <2>10, <2>14
  <2>12. [w EXCEPT !.phase = "Ct1Sampled", !.sent = 0] = v
    BY <2>2, <2>14, <2>15, Zenon
  <2>4. [sendCt1(s, sample).state EXCEPT !.phase = "Ct1Sampled", !.sent = 0] = v
    BY <2>11, <2>12
  <2>5. PICK o : o = SendChunk(v, "Ct1", v.ct)
    OBVIOUS
  <2>13. v = [phase |-> v.phase, epoch |-> v.epoch, auth |-> v.auth,
              ek |-> v.ek, ct |-> v.ct, sent |-> v.sent, dec |-> v.dec]
    BY <2>2
  <2>6. /\ o.state.phase = v.phase /\ o.state.epoch = v.epoch /\ o.msg.epoch = v.epoch
        /\ o = [state |-> o.state, key |-> Nothing, msg |-> o.msg]
    BY <1>2, <2>13, <2>5
  <2>7. out = SendFirstCt1(s, sample)
    BY <1>4 DEF send
  <2>8. out = [o EXCEPT !.key = sendCt1(s, sample).key]
    BY <2>4, <2>5, <2>7 DEF SendFirstCt1
  <2>9. out.state = o.state /\ out.msg = o.msg
    BY <2>6, <2>8
  <2> QED BY <1>4, <2>2, <2>6, <2>9
<1>5. CASE \E kind, data : out = SendChunk(s, kind, data) /\ s.phase \notin {"KeysUnsampled", "HeaderReceived"}
  BY <1>1, <1>2, <1>5
<1>6. CASE \E kind : out = Sent(s, kind, Nothing) /\ s.phase \notin {"KeysUnsampled", "HeaderReceived"}
  BY <1>6 DEF Sent, v1Message
<1>7. CASE s.phase = "KeysSampled"
  BY <1>5, <1>7 DEF send
<1>8. CASE s.phase = "HeaderSent"
  BY <1>5, <1>8 DEF send
<1>9. CASE s.phase = "Ct1Received"
  BY <1>5, <1>9 DEF send
<1>10. CASE s.phase = "EkSentCt1Received"
  BY <1>6, <1>10 DEF send
<1>11. CASE s.phase \in {"NoHeaderReceived", "Ct1Acknowledged"}
  BY <1>6, <1>11 DEF send
<1>12. CASE s.phase \in {"Ct1Sampled", "EkReceivedCt1Sampled"}
  BY <1>5, <1>12 DEF send
<1>13. CASE s.phase = "Ct2Sampled"
  BY <1>5, <1>13 DEF send
<1> QED BY <1>1, <1>3, <1>4, <1>7, <1>8, <1>9, <1>10, <1>11, <1>12, <1>13 DEF EkSide, CtSide

\* An epoch begins in a phase in which nothing has been sent yet, after one in
\* which something has been sent.
Follows(s, u) ==
  \/ u.epoch = s.epoch /\ (u.phase \in HasSent => s.phase \in HasSent)
  \/ u.epoch = s.epoch + 1 /\ s.phase \in HasSent /\ u.phase \notin HasSent

LEMMA RecvPhase ==
  ASSUME NEW K, NEW s, V1State(s, K), NEW m, NEW out, out = recv(s, m), out.err = "none"
  PROVE  Follows(s, out.state)
<1>1. /\ s = [phase |-> s.phase, epoch |-> s.epoch, auth |-> s.auth,
              ek |-> s.ek, ct |-> s.ct, sent |-> s.sent, dec |-> s.dec]
      /\ s.phase \in EkSide \cup CtSide
  BY DEF V1State, IsRecord
<1> USE DEF Follows
<1>2. CASE \E u : out = Ignored(u) /\ Follows(s, u)
  BY <1>2 DEF Ignored
<1>3. CASE out = Ignored(s)
  BY <1>3 DEF Ignored
<1>4. ASSUME NEW u, NEW phase, u.phase = phase, u.epoch = s.epoch, s.phase \in HasSent
      PROVE  Follows(s, u)
  BY <1>4
<1>5. CASE out = RecvNextEpoch(s) /\ s.phase = "Ct2Sampled"
  <2>1. PICK u : u = State("KeysUnsampled", s.epoch + 1, s.auth)
    OBVIOUS
  <2>2. out.state = u /\ u.epoch = s.epoch + 1 /\ u.phase = "KeysUnsampled"
    BY <1>5, <2>1 DEF RecvNextEpoch, recvNextEpoch, Ignored, State
  <2> QED BY <1>5, <2>2 DEF HasSent, CtSide
<1>6. CASE out = RecvSameEpoch(s, m)
  <2>1. CASE s.phase = "NoHeaderReceived" /\ m.kind = "Hdr"
    <3>1. out = RecvHdr(s, m.chunk)
      BY <1>6, <2>1 DEF RecvSameEpoch
    <3>2. PICK dec : dec = addChunk(s.dec, m.chunk)
      OBVIOUS
    <3>3. PICK u, v : u = [s EXCEPT !.dec = dec] /\
                     v = [s EXCEPT !.phase = "HeaderReceived", !.ek = Decoded(dec).ek, !.dec = {}]
      OBVIOUS
    <3>4. out = Ignored(u) \/ out = Ignored(v) \/ out = Refused(s, "mac")
      BY <3>1, <3>2, <3>3 DEF RecvHdr, recvHeader
    <3>5. u.phase = "NoHeaderReceived" /\ v.phase = "HeaderReceived" /\ u.epoch = s.epoch /\ v.epoch = s.epoch
      BY <1>1, <2>1, <3>3
    <3>6. Follows(s, u) /\ Follows(s, v)
      BY <3>5 DEF HasSent
    <3>7. out # Refused(s, "mac")
      BY DEF Refused
    <3> QED BY <1>2, <3>4, <3>6, <3>7
  <2>2. CASE s.phase = "EkSentCt1Received" /\ m.kind = "Ct2"
    <3>1. out = RecvCt2(s, m.chunk)
      BY <1>6, <2>2 DEF RecvSameEpoch
    <3>2. PICK dec : dec = addChunk(s.dec, m.chunk)
      OBVIOUS
    <3>3. PICK u : u = [s EXCEPT !.dec = dec]
      OBVIOUS
    <3>4. CASE ~IsDecoded("Ct2", dec)
      <4>1. out = Ignored(u)
        BY <3>1, <3>2, <3>3, <3>4 DEF RecvCt2
      <4>2. u.phase = s.phase /\ u.epoch = s.epoch
        BY <1>1, <3>3
      <4> QED BY <1>2, <4>1, <4>2
    <3>5. CASE IsDecoded("Ct2", dec)
      <4>1. PICK got : got = Decoded(dec)
        OBVIOUS
      <4>2. PICK key, auth, v : /\ key = Secret(s.epoch, Decaps(s.ek, s.ct, got.ct))
                                /\ auth = Update(s.auth, key)
                                /\ v = State("NoHeaderReceived", s.epoch + 1, auth)
        OBVIOUS
      <4>3. out = recvCt2(s, got)
        BY <3>1, <3>2, <3>5, <4>1 DEF RecvCt2
      <4>4. out = Refused(s, "mac") \/ out = [err |-> "none", key |-> key, state |-> v]
        BY <4>2, <4>3 DEF recvCt2
      <4>5. out.state = v
        BY <4>4 DEF Refused
      <4>6. v.epoch = s.epoch + 1 /\ v.phase = "NoHeaderReceived"
        BY <4>2 DEF State
      <4> QED BY <2>2, <4>5, <4>6 DEF HasSent, EkSide
    <3> QED BY <3>4, <3>5
  <2>3. CASE s.phase = "KeysSampled" /\ m.kind = "Ct1"
    <3>1. PICK u : u = [s EXCEPT !.phase = "HeaderSent", !.sent = 0, !.dec = {m.chunk}]
      OBVIOUS
    <3>2. out = Ignored(u)
      BY <1>6, <2>3, <3>1 DEF RecvSameEpoch, RecvFirstCt1
    <3>3. u.epoch = s.epoch /\ s.phase \in HasSent
      BY <1>1, <2>3, <3>1 DEF HasSent, EkSide
    <3> QED BY <1>2, <3>2, <3>3
  <2>4. CASE s.phase = "HeaderSent" /\ m.kind = "Ct1"
    <3>1. PICK dec : dec = addChunk(s.dec, m.chunk)
      OBVIOUS
    <3>2. PICK u, v : /\ u = [s EXCEPT !.phase = "Ct1Received", !.ct = Decoded(dec), !.dec = {}]
                      /\ v = [s EXCEPT !.dec = dec]
      OBVIOUS
    <3>3. out = Ignored(u) \/ out = Ignored(v)
      BY <1>6, <2>4, <3>1, <3>2 DEF RecvSameEpoch, RecvCt1, recvCt1
    <3>4. u.epoch = s.epoch /\ v.epoch = s.epoch /\ s.phase \in HasSent
      BY <1>1, <2>4, <3>2 DEF HasSent, EkSide
    <3> QED BY <1>2, <3>3, <3>4
  <2>5. CASE s.phase = "Ct1Received" /\ m.kind = "Ct2"
    <3>1. PICK u : u = [s EXCEPT !.phase = "EkSentCt1Received", !.sent = 0, !.dec = {m.chunk}]
      OBVIOUS
    <3>2. out = Ignored(u)
      BY <1>6, <2>5, <3>1 DEF RecvSameEpoch, RecvFirstCt2
    <3>3. u.epoch = s.epoch /\ s.phase \in HasSent
      BY <1>1, <2>5, <3>1 DEF HasSent, EkSide
    <3> QED BY <1>2, <3>2, <3>3
  <2>6. CASE s.phase \in {"Ct1Sampled", "Ct1Acknowledged"} /\ m.kind \in {"Ek", "EkCt1Ack"}
    <3>1. PICK acked \in BOOLEAN : out = RecvEk(s, m.chunk, acked)
      BY <1>6, <2>6 DEF RecvSameEpoch
    <3>2. PICK dec : dec = addChunk(s.dec, m.chunk)
      OBVIOUS
    <3>3. PICK u, v, w, x : /\ u = [s EXCEPT !.phase = "Ct1Acknowledged", !.sent = 0, !.dec = dec]
                            /\ v = [s EXCEPT !.dec = dec]
                            /\ w = [s EXCEPT !.phase = "Ct2Sampled", !.sent = 0, !.dec = {}]
                            /\ x = [s EXCEPT !.phase = "EkReceivedCt1Sampled", !.dec = {}]
      OBVIOUS
    <3>4. u.epoch = s.epoch /\ v.epoch = s.epoch /\ w.epoch = s.epoch /\ x.epoch = s.epoch
      BY <1>1, <3>3
    <3>5. s.phase \in HasSent
      BY <2>6 DEF HasSent, CtSide
    <3>6. \/ out = Ignored(u) \/ out = Ignored(v) \/ out = Ignored(w) \/ out = Ignored(x)
          \/ out = Refused(s, "erroneous")
      BY <3>1, <3>2, <3>3 DEF RecvEk, recvEk
    <3>7. out # Refused(s, "erroneous")
      BY DEF Refused
    <3> QED BY <1>2, <3>4, <3>5, <3>6, <3>7
  <2>7. CASE s.phase = "EkReceivedCt1Sampled" /\ m.kind \in {"Ct1Ack", "EkCt1Ack"}
    <3>1. PICK u : u = [s EXCEPT !.phase = "Ct2Sampled", !.sent = 0]
      OBVIOUS
    <3>2. out = Ignored(u)
      BY <1>6, <2>7, <3>1 DEF RecvSameEpoch, RecvCt1Ack
    <3>3. u.epoch = s.epoch /\ s.phase \in HasSent
      BY <1>1, <2>7, <3>1 DEF HasSent, CtSide
    <3> QED BY <1>2, <3>2, <3>3
  <2>8. CASE ~(\/ s.phase = "KeysSampled" /\ m.kind = "Ct1"
               \/ s.phase = "HeaderSent" /\ m.kind = "Ct1"
               \/ s.phase = "Ct1Received" /\ m.kind = "Ct2"
               \/ s.phase = "EkSentCt1Received" /\ m.kind = "Ct2"
               \/ s.phase = "NoHeaderReceived" /\ m.kind = "Hdr"
               \/ s.phase \in {"Ct1Sampled", "Ct1Acknowledged"} /\ m.kind \in {"Ek", "EkCt1Ack"}
               \/ s.phase = "EkReceivedCt1Sampled" /\ m.kind \in {"Ct1Ack", "EkCt1Ack"})
    <3>1. out = Ignored(s)
      BY <1>6, <2>8 DEF RecvSameEpoch
    <3> QED BY <1>3, <3>1
  <2> QED BY <2>1, <2>2, <2>3, <2>4, <2>5, <2>6, <2>7, <2>8
<1>7. out # Refused(s, "epoch")
  BY DEF Refused
<1> QED BY <1>3, <1>5, <1>6, <1>7 DEF recv

LEMMA AuthLength ==
  ASSUME NEW K, NEW s, V1State(s, K), NEW t, V1State(t, K), Joined(s, t)
  PROVE  /\ Len(s.auth) \in Nat /\ s.epoch \in Nat
         /\ s.epoch - 1 <= Len(s.auth) /\ Len(s.auth) <= s.epoch
         /\ Len(s.auth) = s.epoch => s.phase \in HasSent
<1>1. /\ s.epoch \in Nat /\ t.epoch \in Nat /\ s.auth \in Seq(Secrets(K))
      /\ t.auth \in Seq(Secrets(K)) /\ Len(s.auth) \in Nat /\ Len(t.auth) \in Nat
  BY DEF V1State
<1>2. CASE Paired(s, t)
  BY <1>1, <1>2 DEF Paired
<1>3. CASE Paired(t, s)
  <2>1. CASE s.phase \in WithCt
    <3>1. PICK key : key = Secret(t.epoch, s.ct)
      OBVIOUS
    <3>2. s.auth = Append(t.auth, key) /\ Len(t.auth) = t.epoch - 1 /\ t.epoch = s.epoch /\ s.phase \in CtSide
      BY <1>3, <2>1, <3>1 DEF Paired
    <3>3. Len(s.auth) = Len(t.auth) + 1
      BY <1>1, <3>2
    <3>4. s.phase \in HasSent
      BY <2>1, <3>2 DEF HasSent, CtSide, WithCt
    <3> QED BY <1>1, <3>2, <3>3, <3>4
  <2>2. CASE s.phase \notin WithCt
    BY <1>1, <1>3, <2>2 DEF Paired
  <2> QED BY <2>1, <2>2
<1>4. CASE Ahead(s, t)
  BY <1>1, <1>4 DEF Ahead
<1>5. CASE Ahead(t, s)
  BY <1>1, <1>5 DEF Ahead, HasSent, CtSide
<1> QED BY <1>2, <1>3, <1>4, <1>5 DEF Joined

\* What begins the secrets of one party begins those of the other one.
LEMMA AuthsBegin ==
  ASSUME NEW K, NEW s, V1State(s, K), NEW t, V1State(t, K), Joined(s, t),
         NEW r \in Seq(Secrets(K)), Begins(r, t.auth), Len(r) <= Len(s.auth)
  PROVE  Begins(r, s.auth)
<1>1. s.auth \in Seq(Secrets(K)) /\ t.auth \in Seq(Secrets(K))
  BY DEF V1State
<1>2. PICK key : s.auth = t.auth \/ s.auth = Append(t.auth, key) \/ t.auth = Append(s.auth, key)
  BY DEF Joined, Paired, Ahead
<1>3. CASE s.auth = t.auth
  BY <1>3
<1>4. CASE s.auth = Append(t.auth, key)
  <2>1. \A i \in 1 .. Len(t.auth) : s.auth[i] = t.auth[i]
    BY <1>1, <1>4
  <2>2. Len(r) \in Nat /\ Len(t.auth) \in Nat /\ Len(r) <= Len(t.auth) /\ \A i \in 1 .. Len(r) : r[i] = t.auth[i]
    BY <1>1 DEF Begins
  <2> QED BY <2>1, <2>2 DEF Begins
<1>5. CASE t.auth = Append(s.auth, key)
  <2>1. \A i \in 1 .. Len(s.auth) : s.auth[i] = t.auth[i]
    BY <1>1, <1>5
  <2>2. Len(r) \in Nat /\ Len(s.auth) \in Nat /\ \A i \in 1 .. Len(r) : r[i] = t.auth[i]
    BY <1>1 DEF Begins
  <2> QED BY <2>1, <2>2 DEF Begins
<1> QED BY <1>2, <1>3, <1>4, <1>5

-----------------------------------------------------------------------------
(* Messages on the wire. *)

LEMMA WireOK ==
  ASSUME NEW m, NEW s, Genuine(m, s), NEW n, NEW w, w = serialize(m, n)
  PROVE  /\ w # << >> /\ w[1] = VersionV1 /\ w[2] = m.epoch /\ w[3] = n
         /\ Genuine(deserializeV1Message(w), s)
<1>1. PICK x : x = deserializeV1Message(w)
  OBVIOUS
<1>2. CASE hasChunk(m.kind)
  <2>1. w = <<VersionV1, m.epoch, n, m.kind, m.chunk.index, m.chunk.data>>
    BY <1>2, Concat42 DEF serialize
  <2>2. /\ w # << >> /\ w[1] = VersionV1 /\ w[2] = m.epoch /\ w[3] = n /\ w[4] = m.kind
        /\ w[6] = m.chunk.data
    BY <2>1
  <2>3. x.epoch = m.epoch /\ x.kind = m.kind /\ x.chunk.data = m.chunk.data
    BY <1>1, <1>2, <2>2 DEF deserializeV1Message
  <2>4. Current(m, s) => Current(x, s)
    BY <2>3 DEF Current
  <2> QED BY <1>1, <2>2, <2>3, <2>4 DEF Genuine
<1>3. CASE ~hasChunk(m.kind)
  <2>1. <<VersionV1, m.epoch, n, m.kind>> \o << >> = <<VersionV1, m.epoch, n, m.kind>>
    OBVIOUS
  <2>2. w = <<VersionV1, m.epoch, n, m.kind>>
    BY <1>3, <2>1 DEF serialize
  <2>3. w # << >> /\ w[1] = VersionV1 /\ w[2] = m.epoch /\ w[3] = n /\ w[4] = m.kind
    BY <2>2
  <2>4. x.epoch = m.epoch /\ x.kind = m.kind
    BY <1>1, <2>3 DEF deserializeV1Message
  <2>5. Current(m, s) => Current(x, s)
    BY <1>3, <2>4 DEF Current, hasChunk
  <2> QED BY <1>1, <2>3, <2>4, <2>5 DEF Genuine
<1> QED BY <1>2, <1>3

-----------------------------------------------------------------------------
(* The state as bytes. *)

LEMMA StoredState ==
  ASSUME NEW K, NEW v, V1State(v, K), NEW c, c = Nothing \/ IsChain(c), NEW n
  PROVE  DeserializeState(Serialize(SpqrState(VersionV1, v, c, n)))
           = SpqrState(VersionV1, Stored(v), c, n)
<1>1. PICK s : s = SpqrState(VersionV1, v, c, n)
  OBVIOUS
<1>2. s # Nothing /\ s.version = VersionV1 /\ s.v1 = v /\ s.chain = c /\ s.negotiation = n
  <2>1. s # Nothing
    BY <1>1, NotNothing
  <2> QED BY <1>1, <2>1 DEF SpqrState
<1>3. v # Nothing
  <2>1. v = [phase |-> v.phase, epoch |-> v.epoch, auth |-> v.auth,
             ek |-> v.ek, ct |-> v.ct, sent |-> v.sent, dec |-> v.dec]
    BY DEF V1State, IsRecord
  <2> QED BY <2>1, NotNothing
<1>4. PICK x, y : x = serializeV1States(v) /\ y = serializeChain(c)
  OBVIOUS
<1>5. Serialize(s) = <<2, n, x, y>>
  BY <1>2, <1>3, <1>4 DEF Serialize, VersionV1, VersionDisabled
<1>6. PICK data : data = <<2, n, x, y>>
  OBVIOUS
<1>7. data # << >> /\ data[1] = 2 /\ data[2] = n /\ data[3] = x /\ data[4] = y
  BY <1>6
<1>8. DeserializeState(data) = SpqrState(VersionV1, deserializeV1States(x), deserializeChain(y), n)
  BY <1>7 DEF DeserializeState
<1>9. deserializeChain(y) = c
  <2>1. CASE c = Nothing
    BY <1>4, <2>1 DEF serializeChain, deserializeChain, Nothing
  <2>2. CASE IsChain(c)
    BY <1>4, <2>2, StoredChain
  <2> QED BY <2>1, <2>2
<1>10. deserializeV1States(x) = Stored(v)
  BY <1>4 DEF Stored
<1> QED BY <1>1, <1>5, <1>6, <1>8, <1>9, <1>10

LEMMA StoredNothing ==
  DeserializeState(Serialize(Nothing)) = Nothing /\ DeserializeState(Serialize(Disabled)) = Nothing
<1>1. Disabled.version = VersionDisabled
  BY DEF Disabled, SpqrState
<1> QED BY <1>1 DEF Serialize, DeserializeState, Nothing

\* The last phase forgets the header, and a state without it stays as it is.
LEMMA StoredHeader ==
  ASSUME NEW K, NEW v, V1State(v, K)
  PROVE  /\ Stored(v).phase = "Ct2Sampled" => Stored(v).ek = Nothing
         /\ (v.phase = "Ct2Sampled" => v.ek = Nothing) => Stored(v) = v
<1>1. v = [phase |-> v.phase, epoch |-> v.epoch, auth |-> v.auth,
           ek |-> v.ek, ct |-> v.ct, sent |-> v.sent, dec |-> v.dec]
  BY DEF V1State, IsRecord
<1>2. CASE v.phase = "Ct2Sampled"
  <2>1. PICK w : w = [v EXCEPT !.ek = Nothing]
    OBVIOUS
  <2>2. w = [phase |-> v.phase, epoch |-> v.epoch, auth |-> v.auth,
             ek |-> Nothing, ct |-> v.ct, sent |-> v.sent, dec |-> v.dec]
    BY <1>1, <2>1
  <2>3. Stored(v) = w
    BY <1>2, <2>1, StoredIs
  <2>4. w.ek = Nothing
    BY <2>2
  <2>5. v.ek = Nothing => w = v
    BY <1>1, <2>2, Zenon
  <2> QED BY <1>2, <2>3, <2>4, <2>5
<1>3. CASE v.phase # "Ct2Sampled"
  <2>1. Stored(v) = v
    BY <1>3, StoredIs
  <2> QED BY <1>3, <2>1
<1> QED BY <1>2, <1>3

LEMMA PeerFacts ==
  \A p \in Party : Peer(p) \in Party /\ Peer(p) # p /\ Peer(Peer(p)) = p /\ Party = {p, Peer(p)}
BY SpqrAssumption DEF Party, Peer

\* Sending while nothing has arrived leaves it at that.
LEMMA FreshSend ==
  ASSUME NEW K, NEW s, V1State(s, K), Fresh(s), NEW sample \in K, NEW out, out = send(s, sample)
  PROVE  /\ out.key = Nothing /\ V1State(out.state, K) /\ V1State(Stored(out.state), K)
         /\ Fresh(Stored(out.state)) /\ out.msg.epoch = 1
<1>1. s.phase # "HeaderReceived" /\ s.epoch = 1 /\ s.auth = << >>
      /\ s.phase \in {"KeysUnsampled", "KeysSampled", "NoHeaderReceived"}
  BY DEF Fresh
<1>2. /\ out.msg.epoch = 1 /\ out.state.epoch = 1 /\ out.key = Nothing /\ out.state.auth = << >>
      /\ out.state.phase \in {"KeysUnsampled", "KeysSampled", "NoHeaderReceived"}
  BY <1>1, SendPhase
<1>3. V1State(out.state, K)
  <2>1. CASE s.phase = "NoHeaderReceived"
    <3>1. out = Sent(s, "None", Nothing)
      BY <2>1 DEF send
    <3>2. out.state = s
      BY <3>1 DEF Sent
    <3> QED BY <3>2
  <2>2. CASE s.phase \in {"KeysUnsampled", "KeysSampled"}
    <3>1. PICK t : t = initV1StateB
      OBVIOUS
    <3>2. /\ t = [phase |-> "NoHeaderReceived", epoch |-> 1, auth |-> << >>, ek |-> Nothing,
                  ct |-> Nothing, sent |-> 0, dec |-> {}]
          /\ V1State(t, K) /\ Len(<< >>) = 0
      BY <3>1, InitJoined DEF initV1StateB, State, newAuthenticator
    <3>3. Paired(s, t)
      BY <1>1, <2>2, <3>2 DEF Paired, DecodesTo, EkSide, CtSide, WithEk, WithCt
    <3>4. Joined(s, t)
      BY <3>3 DEF Joined
    <3>5. CASE s.phase = "KeysUnsampled"
      <4>1. out = SendFirstHdr(s, sample)
        BY <3>5 DEF send
      <4>2. Advance(K, s, t, out.state, out.key)
        BY <3>4, <3>5, <4>1, SendFirstHdrAdvance
      <4> QED BY <4>2 DEF Advance
    <3>6. CASE s.phase = "KeysSampled"
      <4>1. out = SendChunk(s, "Hdr", HdrValue(s)) /\ s.phase \in HasEncoder
        BY <3>6 DEF send, HasEncoder
      <4>2. Advance(K, s, t, out.state, out.key)
        BY <3>4, <4>1, SendChunkAdvance
      <4> QED BY <4>2 DEF Advance
    <3> QED BY <2>2, <3>5, <3>6
  <2> QED BY <1>1, <2>1, <2>2
<1>4. V1State(Stored(out.state), K) /\ Agrees(out.state, Stored(out.state))
  BY <1>3, StoredAgrees
<1>5. Fresh(Stored(out.state))
  BY <1>2, <1>4 DEF Agrees, Fresh
<1> QED BY <1>2, <1>3, <1>4, <1>5

-----------------------------------------------------------------------------
(* State.Send. *)

Grows(a, b) == \A r \in Seq(Secrets(Samples)) : Begins(r, a) => Begins(r, b)

LEMMA AdvanceGrows ==
  ASSUME NEW s, V1State(s, Samples), NEW t, NEW u, NEW key, Advance(Samples, s, t, u, key)
  PROVE  Grows(s.auth, u.auth)
<1>1. s.auth \in Seq(Secrets(Samples))
  BY DEF V1State
<1>2. CASE u.auth = s.auth
  BY <1>2 DEF Grows
<1>3. CASE key \in Secrets(Samples) /\ u.auth = Append(s.auth, key)
  BY <1>1, <1>3, BeginsAppend DEF Grows
<1> QED BY <1>2, <1>3 DEF Advance

LEMMA ExtendedOK ==
  ASSUME NEW a \in Seq(Secrets(Samples)), NEW c, ChainOK(c, a), NEW key, NEW b,
         \/ key = Nothing /\ b = a
         \/ key # Nothing /\ key \in Secrets(Samples) /\ key.epoch = Len(a) + 1 /\ b = Append(a, key),
         NEW y, y = Extended(c, key)
  PROVE  CanExtend(c, key) /\ ChainOK(y, b) /\ IsExtended(c, y)
<1>1. c.currentEpoch = Len(a) /\ IsChain(c)
  BY DEF ChainOK
<1>2. CASE key = Nothing
  <2>1. y = c /\ b = a
    BY <1>2 DEF Extended
  <2>2. Oldest(c) \in Nat /\ c.currentEpoch \in Nat
    BY <1>1 DEF IsChain
  <2> QED BY <1>2, <2>1, <2>2 DEF CanExtend, IsExtended
<1>3. CASE key # Nothing
  <2>1. y = AddEpoch(c, key)
    BY <1>3 DEF Extended
  <2>2. ChainOK(y, Append(a, key)) /\ IsExtended(c, y)
    BY <1>3, <2>1, AddEpochOK
  <2> QED BY <1>1, <1>3, <2>2 DEF CanExtend
<1> QED BY <1>2, <1>3

\* d is the chain c after the epoch secret, if there is one, was added and the
\* key with index n of epoch e was drawn for sending.
IsDrawn(c, d, e, n) ==
  /\ d.sendEpoch = e /\ c.sendEpoch <= e
  /\ \A k \in Epochs(d) :
       /\ k \in Epochs(c) => LinkAt(d, k).root = LinkAt(c, k).root /\ LinkAt(d, k).recv = LinkAt(c, k).recv
       /\ k \notin Epochs(c) => LinkAt(d, k).recv = newChainEpochDirection
       /\ k <= c.currentEpoch => k \in Epochs(c)
  /\ LinkAt(d, e).send.ctr = n /\ n \in Nat /\ n > 0
  /\ e = c.sendEpoch => LinkAt(c, e).send.ctr + 1 = n

LEMMA DrawnOK ==
  ASSUME NEW c, IsChain(c), NEW y, IsChain(y), NEW d, IsChain(d), NEW e \in Nat,
         IsExtended(c, y), IsSent(y, d, e), c.sendEpoch <= e, e \in Epochs(y),
         NEW n, n = LinkAt(y, e).send.ctr + 1
  PROVE  IsDrawn(c, d, e, n)
<1>1. LinkAt(y, e).send.ctr \in Nat
  BY EpochsFacts DEF Links, Dirs
<1>2. n \in Nat /\ n > 0
  BY <1>1
<1>3. e = c.sendEpoch => LinkAt(c, e).send.ctr + 1 = n
  BY EpochsFacts DEF IsExtended
<1>4. ASSUME NEW k \in Epochs(d)
      PROVE  /\ k \in Epochs(c) => LinkAt(d, k).root = LinkAt(c, k).root /\ LinkAt(d, k).recv = LinkAt(c, k).recv
             /\ k \notin Epochs(c) => LinkAt(d, k).recv = newChainEpochDirection
             /\ k <= c.currentEpoch => k \in Epochs(c)
  <2>1. k \in Epochs(y) /\ LinkAt(d, k).root = LinkAt(y, k).root /\ LinkAt(d, k).recv = LinkAt(y, k).recv
    BY DEF IsSent
  <2>2. k \in Epochs(c) => LinkAt(y, k) = LinkAt(c, k)
    BY DEF IsExtended
  <2>3. k \notin Epochs(c) => LinkAt(y, k).recv = newChainEpochDirection
    BY <2>1 DEF IsExtended
  <2>4. k <= c.currentEpoch => k \in Epochs(c)
    BY <2>1 DEF IsExtended, Epochs, IsChain
  <2> QED BY <2>1, <2>2, <2>3, <2>4
<1> QED BY <1>2, <1>3, <1>4 DEF IsDrawn, IsSent

\* What is known of a state and the one that a step of its party makes of it.
StepOK(s, t, u) ==
  /\ StateOK(u) /\ Joined(u.v1, t)
  /\ \A m : Genuine(m, s.v1) => Genuine(m, u.v1)
  /\ Grows(s.v1.auth, u.v1.auth)

With(s, v, c) == [s EXCEPT !.v1 = v, !.chain = c]

LEMMA StateWith ==
  ASSUME NEW x, NEW y, NEW v, NEW c, NEW s, s = SpqrState(x, s.v1, y, s.negotiation)
  PROVE  With(s, v, c) = SpqrState(x, v, c, s.negotiation)
<1>1. PICK w, n, u : w = s.v1 /\ n = s.negotiation /\ u = With(s, v, c)
  OBVIOUS
<1>2. s = [version |-> x, v1 |-> w, chain |-> y, negotiation |-> n]
  BY <1>1 DEF SpqrState
<1>4. u = [s EXCEPT !.v1 = v, !.chain = c]
  BY <1>1 DEF With
<1>3. u = [version |-> x, v1 |-> v, chain |-> c, negotiation |-> n]
  BY <1>2, <1>4
<1> QED BY <1>1, <1>3 DEF SpqrState

\* Before anything has arrived, messages go out without a salt.
LEMMA SendFreshOK ==
  ASSUME NEW p \in Party, samples[p] \in Nat, NEW s, s = SpqrState(VersionV1, s.v1, Nothing, s.negotiation),
         V1State(s.v1, Samples), Fresh(s.v1), NEW out, out = SendState(p, s),
         NEW o, o = send(s.v1, <<p, samples[p]>>)
  PROVE  /\ out.err = "none" /\ out.wire = serialize(o.msg, 0) /\ out.salt = Nothing /\ out.index = 0
         /\ V1State(Stored(o.state), Samples) /\ Fresh(Stored(o.state)) /\ o.key = Nothing
         /\ DeserializeState(Serialize(out.state))
              = SpqrState(VersionV1, Stored(o.state), Nothing, s.negotiation)
<1>1. <<p, samples[p]>> \in Samples
  BY DEF Samples
<1>2. /\ o.key = Nothing /\ V1State(o.state, Samples) /\ V1State(Stored(o.state), Samples)
      /\ Fresh(Stored(o.state))
  BY <1>1, FreshSend
<1>3. s.chain = Nothing
  BY DEF SpqrState
<1>7. PICK z : z = With(s, o.state, Nothing)
  OBVIOUS
<1>4. out = [err |-> "none", state |-> z,
             wire |-> serialize(o.msg, 0), index |-> 0, salt |-> Nothing]
  BY <1>2, <1>3, <1>7 DEF SendState, chainForSend, With
<1>5. z = SpqrState(VersionV1, o.state, Nothing, s.negotiation)
  BY <1>7, StateWith
<1>6. DeserializeState(Serialize(out.state)) = SpqrState(VersionV1, Stored(o.state), Nothing, s.negotiation)
  BY <1>2, <1>4, <1>5, StoredState
<1> QED BY <1>2, <1>4, <1>6

\* What a party sends, and with which salt.
SentOK(p, s, u, out) ==
  /\ Genuine(deserializeV1Message(out.wire), u.v1)
  /\ out.wire # << >> /\ out.wire[1] = VersionV1 /\ out.wire[2] = s.v1.epoch /\ out.wire[3] = out.index
  /\ s.chain = Nothing => u.chain = Nothing /\ s.v1.epoch = 1 /\ out.index = 0 /\ out.salt = Nothing
  /\ s.chain # Nothing =>
       /\ u.chain # Nothing /\ IsDrawn(s.chain, u.chain, s.v1.epoch - 1, out.index)
       /\ out.salt = Salt(out.salt.root, p, out.index) /\ out.salt.root \in Seq(Secrets(Samples))
       /\ Len(out.salt.root) = s.v1.epoch - 1 /\ Begins(out.salt.root, u.v1.auth)

LEMMA SendStateOK ==
  ASSUME NEW p \in Party, samples[p] \in Nat, NEW s, StateOK(s), NEW t, V1State(t, Samples),
         Joined(s.v1, t), NEW out, out = SendState(p, s), NEW u, u = DeserializeState(Serialize(out.state))
  PROVE  out.err = "none" /\ StepOK(s, t, u) /\ SentOK(p, s, u, out)
<1>1. <<p, samples[p]>> \in Samples
  BY DEF Samples
<1>2. /\ s = SpqrState(VersionV1, s.v1, s.chain, s.negotiation)
      /\ V1State(s.v1, Samples)
      /\ s.chain = Nothing => Fresh(s.v1)
      /\ ChainOK(chainForRecv(s), s.v1.auth)
      /\ InStep(chainForRecv(s), s.v1)
  BY DEF StateOK
<1>3. PICK o : o = send(s.v1, <<p, samples[p]>>)
  OBVIOUS
<1>4. PICK v : v = Stored(o.state)
  OBVIOUS
<1>5. Advance(Samples, s.v1, t, v, o.key) /\ Genuine(o.msg, v) /\ V1State(o.state, Samples)
  BY <1>1, <1>2, <1>3, <1>4, SendAdvance
<1>6. /\ V1State(v, Samples) /\ Joined(v, t) /\ \A m : Genuine(m, s.v1) => Genuine(m, v)
  BY <1>5 DEF Advance
<1>7. Grows(s.v1.auth, v.auth)
  BY <1>2, <1>5, AdvanceGrows
<1>8. CASE s.chain = Nothing
  <2>1. s = SpqrState(VersionV1, s.v1, Nothing, s.negotiation) /\ Fresh(s.v1)
    BY <1>2, <1>8
  <2>2. /\ out.err = "none" /\ out.wire = serialize(o.msg, 0) /\ out.salt = Nothing /\ out.index = 0
        /\ Fresh(v) /\ u = SpqrState(VersionV1, v, Nothing, s.negotiation)
    BY <1>2, <1>3, <1>4, <2>1, SendFreshOK
  <2>3. u.v1 = v /\ u.chain = Nothing /\ u.negotiation = s.negotiation
    BY <2>2 DEF SpqrState
  <2>4. ChainOK(chainForRecv(u), v.auth)
    BY <2>2, <2>3, NewChainOK DEF chainForRecv, Fresh
  <2>5. InStep(chainForRecv(u), v)
    <3>1. chainForRecv(u).sendEpoch = 0 /\ v.epoch = 1
      BY <2>2, <2>3, NewChainOK DEF chainForRecv, Fresh
    <3> QED BY <3>1 DEF InStep
  <2>6. v.phase = "Ct2Sampled" => v.ek = Nothing
    BY <2>2 DEF Fresh
  <2>7. StateOK(u)
    BY <1>6, <2>2, <2>3, <2>4, <2>5, <2>6 DEF StateOK
  <2>8. StepOK(s, t, u)
    BY <1>6, <1>7, <2>3, <2>7 DEF StepOK
  <2>9. o.msg.epoch = 1 /\ s.v1.epoch = 1
    BY <1>1, <1>2, <1>3, <2>1, FreshSend DEF Fresh
  <2>10. /\ out.wire # << >> /\ out.wire[1] = VersionV1 /\ out.wire[2] = o.msg.epoch /\ out.wire[3] = 0
         /\ Genuine(deserializeV1Message(out.wire), v)
    BY <1>5, <2>2, WireOK
  <2>11. SentOK(p, s, u, out)
    BY <1>8, <2>2, <2>3, <2>9, <2>10 DEF SentOK
  <2> QED BY <2>2, <2>8, <2>11
<1>9. CASE s.chain # Nothing
  <2>1. PICK c, e : c = s.chain /\ e = s.v1.epoch - 1
    OBVIOUS
  <2>2. /\ ChainOK(c, s.v1.auth) /\ InStep(c, s.v1) /\ s.v1.auth \in Seq(Secrets(Samples))
        /\ s.v1.epoch \in Nat \ {0}
    BY <1>2, <1>9, <2>1 DEF chainForRecv, V1State
  <2>3. PICK y : y = Extended(c, o.key)
    OBVIOUS
  <2>4. CanExtend(c, o.key) /\ ChainOK(y, v.auth) /\ IsExtended(c, y)
    BY <1>5, <2>2, <2>3, ExtendedOK DEF Advance
  <2>5. /\ o.msg.epoch = s.v1.epoch /\ o.state.epoch = s.v1.epoch
    BY <1>2, <1>3, SendPhase
  <2>6. /\ e \in Nat /\ y.sendEpoch <= e /\ e <= y.sendEpoch + 1 /\ e <= y.currentEpoch
        /\ c.sendEpoch <= e /\ y.sendEpoch \in Nat
    <3>1. IsChain(c) /\ IsChain(y) /\ c.currentEpoch = Len(s.v1.auth)
      BY <2>2, <2>4 DEF ChainOK
    <3>2. s.v1.epoch - 1 <= Len(s.v1.auth) /\ Len(s.v1.auth) \in Nat
      BY <1>2, AuthLength
    <3>3. y.sendEpoch = c.sendEpoch /\ c.currentEpoch <= y.currentEpoch
      BY <2>4 DEF IsExtended
    <3>4. y.sendEpoch \in Nat /\ y.currentEpoch \in Nat
      BY <3>1 DEF IsChain
    <3> QED BY <2>1, <2>2, <3>1, <3>2, <3>3, <3>4 DEF InStep
  <2>7. PICK k : k = SendKey(p, y, e)
    OBVIOUS
  <2>8. /\ k.err = "none" /\ ChainOK(k.chain, v.auth) /\ IsSent(y, k.chain, e)
        /\ k.index = LinkAt(y, e).send.ctr + 1 /\ k.index \in Nat
        /\ k.salt = Salt(LinkAt(y, e).root, p, k.index)
        /\ LinkAt(y, e).root \in Seq(Secrets(Samples)) /\ Len(LinkAt(y, e).root) = e
        /\ Begins(LinkAt(y, e).root, v.auth)
    BY <2>4, <2>6, <2>7, SendKeyOK
  <2>11. PICK z : z = With(s, o.state, k.chain)
    OBVIOUS
  <2>9. out = [err |-> k.err, state |-> z,
               wire |-> serialize(o.msg, k.index), index |-> k.index, salt |-> k.salt]
    BY <1>3, <1>9, <2>11, <2>1, <2>3, <2>4, <2>5, <2>7 DEF SendState, chainForSend, With
  <2>10. z = SpqrState(VersionV1, o.state, k.chain, s.negotiation)
    BY <1>2, <2>11, StateWith
  <2>12. IsChain(k.chain)
    BY <2>8 DEF ChainOK
  <2>13. u = SpqrState(VersionV1, v, k.chain, s.negotiation)
    BY <1>4, <2>9, <2>10, <1>5, <2>12, StoredState
  <2>14. k.chain # Nothing
    BY <2>12, NotNothing DEF IsChain
  <2>15. u.v1 = v /\ u.chain = k.chain /\ u.negotiation = s.negotiation /\ chainForRecv(u) = k.chain
    BY <2>13, <2>14 DEF SpqrState, chainForRecv
  <2>16. v.epoch = s.v1.epoch
    BY <1>4, <2>5, <1>5, StoredAgrees DEF Agrees
  <2>17. InStep(k.chain, v)
    <3>1. k.chain.sendEpoch = s.v1.epoch - 1
      BY <2>1, <2>8 DEF IsSent
    <3> QED BY <2>2, <2>16, <3>1 DEF InStep
  <2>18. v.phase = "Ct2Sampled" => v.ek = Nothing
    BY <1>4, <1>5, StoredHeader
  <2>19. StateOK(u)
    BY <1>6, <2>8, <2>13, <2>14, <2>15, <2>17, <2>18 DEF StateOK
  <2>20. StepOK(s, t, u)
    BY <1>6, <1>7, <2>15, <2>19 DEF StepOK
  <2>21. IsChain(y) /\ IsChain(c) /\ e \in Epochs(y)
    <3>1. IsChain(y) /\ IsChain(c)
      BY <2>2, <2>4 DEF ChainOK
    <3>2. Oldest(y) <= y.sendEpoch /\ Oldest(y) \in Nat /\ y.currentEpoch \in Nat
      BY <3>1 DEF IsChain
    <3> QED BY <2>6, <3>1, <3>2 DEF Epochs
  <2>22. IsDrawn(c, k.chain, e, k.index)
    BY <2>4, <2>6, <2>8, <2>12, <2>21, DrawnOK
  <2>23. /\ out.err = "none" /\ out.wire = serialize(o.msg, k.index) /\ out.index = k.index /\ out.salt = k.salt
    BY <2>8, <2>9
  <2>24. /\ out.wire # << >> /\ out.wire[1] = VersionV1 /\ out.wire[2] = s.v1.epoch /\ out.wire[3] = k.index
         /\ Genuine(deserializeV1Message(out.wire), v)
    BY <1>5, <2>5, <2>23, WireOK
  <2>25. k.salt.root = LinkAt(y, e).root
    BY <2>8 DEF Salt
  <2>26. SentOK(p, s, u, out)
    BY <1>9, <2>1, <2>8, <2>14, <2>15, <2>22, <2>23, <2>24, <2>25 DEF SentOK
  <2> QED BY <2>20, <2>23, <2>26
<1> QED BY <1>8, <1>9

-----------------------------------------------------------------------------
(* State.Receive. *)

\* x is the chain c after the epoch secret, if there is one, was added and the
\* key with index i of epoch e was taken, or none if i is 0.
IsGot(c, x, e, i) ==
  /\ x.sendEpoch = c.sendEpoch
  /\ \A k \in Epochs(c) :
       /\ k \in Epochs(x)
       /\ LinkAt(x, k).root = LinkAt(c, k).root /\ LinkAt(x, k).send = LinkAt(c, k).send
       /\ k # e \/ i = 0 => LinkAt(x, k).recv = LinkAt(c, k).recv
       /\ k = e /\ i > 0 => IsTaken(LinkAt(c, e).recv, LinkAt(x, e).recv, i)
  /\ \A k \in Epochs(x) :
       /\ k <= c.currentEpoch => k \in Epochs(c)
       /\ k \notin Epochs(c) => LinkAt(x, k).recv = newChainEpochDirection

LEMMA ExtendedGot ==
  ASSUME NEW c, IsChain(c), NEW y, IsChain(y), IsExtended(c, y), NEW e
  PROVE  IsGot(c, y, e, 0)
<1>1. ASSUME NEW k \in Epochs(y), k <= c.currentEpoch PROVE k \in Epochs(c)
  BY <1>1 DEF IsExtended, Epochs, IsChain
<1> QED BY <1>1 DEF IsGot, IsExtended

LEMMA ReceivedGot ==
  ASSUME NEW c, IsChain(c), NEW y, IsChain(y), IsExtended(c, y), NEW x, NEW e \in Epochs(c),
         NEW i \in Nat, i > 0, IsReceived(y, x, e, i)
  PROVE  IsGot(c, x, e, i)
<1>1. IsGot(c, y, e, 0)
  BY ExtendedGot
<1>2. ASSUME NEW k \in Epochs(c)
      PROVE  /\ k \in Epochs(x)
             /\ LinkAt(x, k).root = LinkAt(c, k).root /\ LinkAt(x, k).send = LinkAt(c, k).send
             /\ k # e => LinkAt(x, k).recv = LinkAt(c, k).recv
             /\ k = e => IsTaken(LinkAt(c, e).recv, LinkAt(x, e).recv, i)
  BY DEF IsExtended, IsReceived
<1>3. ASSUME NEW k \in Epochs(x)
      PROVE  /\ k <= c.currentEpoch => k \in Epochs(c)
             /\ k \notin Epochs(c) => LinkAt(x, k).recv = newChainEpochDirection
  BY <1>1 DEF IsGot, IsReceived
<1>4. x.sendEpoch = c.sendEpoch /\ i # 0
  BY DEF IsExtended, IsReceived
<1> QED BY <1>2, <1>3, <1>4 DEF IsGot

\* Why a message is refused, given the chain it arrives at.
Stale(m, c) ==
  \/ m.wire[2] - 1 < c.sendEpoch - 1
  \/ /\ m.wire[2] - 1 \in Epochs(c)
     /\ \/ m.wire[3] + MaxOOO < LinkAt(c, m.wire[2] - 1).recv.ctr
        \/ m.wire[3] > LinkAt(c, m.wire[2] - 1).recv.ctr + MaxJump

LEMMA RecvStateOK ==
  ASSUME NEW p \in Party, NEW s, StateOK(s), NEW t, V1State(t, Samples), Joined(s.v1, t),
         NEW d, NEW m, IsFrom(m, Peer(p), d, t.auth), Genuine(deserializeV1Message(m.wire), t),
         Pending(m, chainForRecv(s)),
         NEW out, out = ReceiveState(p, s, m.wire), NEW u, u = DeserializeState(Serialize(out.state))
  PROVE  /\ StepOK(s, t, u)
         /\ out.err # "none" => u = s /\ m.wire[3] > 0 /\ Stale(m, chainForRecv(s))
         /\ out.err = "none" =>
              /\ out.salt = m.salt /\ u.chain # Nothing
              /\ m.wire[3] > 0 => m.wire[2] - 1 \in Epochs(chainForRecv(s))
              /\ IsGot(chainForRecv(s), u.chain, m.wire[2] - 1, m.wire[3])
<1>1. /\ s = SpqrState(VersionV1, s.v1, s.chain, s.negotiation)
      /\ V1State(s.v1, Samples)
      /\ s.v1.phase = "Ct2Sampled" => s.v1.ek = Nothing
      /\ s.chain = Nothing => Fresh(s.v1)
      /\ ChainOK(chainForRecv(s), s.v1.auth)
      /\ InStep(chainForRecv(s), s.v1)
  BY DEF StateOK
<1>2. PICK c, e, i, msg : /\ c = chainForRecv(s) /\ e = m.wire[2] - 1 /\ i = m.wire[3]
                          /\ msg = deserializeV1Message(m.wire)
  OBVIOUS
<1>3. msg.epoch = m.wire[2] /\ msg.index = i
  BY <1>2 DEF deserializeV1Message
<1>4. m.wire[2] \in Nat \ {0} /\ i \in Nat /\ e \in Nat /\ msg.epoch = e + 1
  BY <1>2, <1>3 DEF IsFrom
<1>5. PICK o : o = recv(s.v1, msg)
  OBVIOUS
<1>6. PICK v : v = Stored(o.state)
  OBVIOUS
<1>7. o.err = "none" /\ Advance(Samples, s.v1, t, v, o.key) /\ V1State(o.state, Samples)
  BY <1>1, <1>2, <1>5, <1>6, RecvAdvance
<1>8. /\ V1State(v, Samples) /\ Joined(v, t) /\ \A x : Genuine(x, s.v1) => Genuine(x, v)
  BY <1>7 DEF Advance
<1>9. Grows(s.v1.auth, v.auth)
  BY <1>1, <1>7, AdvanceGrows
<1>10. s.v1.auth \in Seq(Secrets(Samples))
  BY <1>1 DEF V1State
<1>11. PICK y : y = Extended(c, o.key)
  OBVIOUS
<1>12. CanExtend(c, o.key) /\ ChainOK(y, v.auth) /\ IsExtended(c, y)
  BY <1>1, <1>2, <1>7, <1>10, <1>11, ExtendedOK DEF Advance
<1>13. IsChain(c) /\ IsChain(y) /\ c.currentEpoch = Len(s.v1.auth) /\ y.currentEpoch = Len(v.auth)
  BY <1>1, <1>2, <1>12 DEF ChainOK
<1>14. e <= c.currentEpoch
  <2>1. t.epoch <= Len(s.v1.auth) + 1
    BY <1>1, SecretsKnown
  <2>2. msg.epoch <= t.epoch
    BY <1>2 DEF Genuine
  <2>3. t.epoch \in Nat /\ Len(s.v1.auth) \in Nat
    BY <1>10 DEF V1State
  <2> QED BY <1>4, <1>13, <2>1, <2>2, <2>3
<1>15. out = ReceiveV1(p, s, msg)
  <2>1. s.v1 # Nothing
    <3>1. s.v1 = [phase |-> s.v1.phase, epoch |-> s.v1.epoch, auth |-> s.v1.auth,
                  ek |-> s.v1.ek, ct |-> s.v1.ct, sent |-> s.v1.sent, dec |-> s.v1.dec]
      BY <1>1 DEF V1State, IsRecord
    <3> QED BY <3>1, NotNothing
  <2>2. msgVersion(m.wire) # VersionDisabled
    BY DEF IsFrom, msgVersion, VersionV1, VersionDisabled
  <2> QED BY <1>2, <2>1, <2>2 DEF ReceiveState
<1>16. (msg.epoch = 1 /\ msg.index = 0) <=> i = 0
  BY <1>2, <1>3 DEF IsFrom
<1>17. v.epoch = o.state.epoch /\ v.phase = o.state.phase
  BY <1>6, <1>7, StoredAgrees DEF Agrees
<1>18. v.phase = "Ct2Sampled" => v.ek = Nothing
  BY <1>6, <1>7, StoredHeader
<1>19. ASSUME NEW x, ChainOK(x, v.auth), x.sendEpoch = c.sendEpoch, NEW salt,
              out = AcceptedBy(SpqrState(VersionV1, o.state, x, FALSE), salt)
       PROVE  out.err = "none" /\ out.salt = salt /\ u.chain = x /\ u.chain # Nothing /\ StepOK(s, t, u)
  <2>1. IsChain(x)
    BY <1>19 DEF ChainOK
  <2>2. x # Nothing
    BY <2>1, NotNothing DEF IsChain
  <2>3. out.err = "none" /\ out.salt = salt /\ out.state = SpqrState(VersionV1, o.state, x, FALSE)
    BY <1>19 DEF AcceptedBy
  <2>9. DeserializeState(Serialize(SpqrState(VersionV1, o.state, x, FALSE)))
          = SpqrState(VersionV1, Stored(o.state), x, FALSE)
    BY <1>7, <2>1, StoredState, Zenon
  <2>4. u = SpqrState(VersionV1, v, x, FALSE)
    BY <1>6, <2>3, <2>9
  <2>5. u.v1 = v /\ u.chain = x /\ u.negotiation = FALSE /\ chainForRecv(u) = x
    BY <2>2, <2>4 DEF SpqrState, chainForRecv
  <2>6. InStep(x, v)
    <3>1. Follows(s.v1, o.state)
      BY <1>1, <1>5, <1>7, RecvPhase
    <3>2. InStep(c, s.v1)
      BY <1>1, <1>2
    <3>3. s.v1.epoch \in Nat /\ c.sendEpoch \in Nat
      BY <1>1, <1>13 DEF V1State, IsChain
    <3> QED BY <1>17, <1>19, <3>1, <3>2, <3>3 DEF Follows, InStep
  <2>7. StateOK(u)
    BY <1>8, <1>18, <1>19, <2>2, <2>4, <2>5, <2>6 DEF StateOK
  <2>8. StepOK(s, t, u)
    BY <1>8, <1>9, <2>5, <2>7 DEF StepOK
  <2> QED BY <2>2, <2>3, <2>5, <2>8
<1>20. CASE i = 0
  <2>1. out = AcceptedBy(SpqrState(VersionV1, o.state, y, FALSE), Nothing)
    BY <1>2, <1>5, <1>7, <1>11, <1>12, <1>15, <1>16, <1>20 DEF ReceiveV1
  <2>2. y.sendEpoch = c.sendEpoch
    BY <1>12 DEF IsExtended
  <2>3. out.err = "none" /\ out.salt = Nothing /\ u.chain = y /\ u.chain # Nothing /\ StepOK(s, t, u)
    BY <1>12, <1>19, <2>1, <2>2
  <2>4. IsGot(c, y, e, 0)
    BY <1>12, <1>13, ExtendedGot
  <2>5. m.salt = Nothing
    BY <1>2, <1>20 DEF IsFrom
  <2>6. ~(m.wire[3] > 0)
    BY <1>2, <1>20
  <2> QED BY <1>2, <1>20, <2>3, <2>4, <2>5, <2>6
<1>21. CASE i # 0
  <2>1. i > 0 /\ e \in Int
    BY <1>4, <1>21
  <2>2. PICK k : k = RecvKey(p, y, e, i)
    OBVIOUS
  <2>3. msg.epoch - 1 = e
    BY <1>4
  <2>4. /\ k.err = "none" => out = AcceptedBy(SpqrState(VersionV1, o.state, k.chain, FALSE), k.salt)
        /\ k.err # "none" => out = RefusedBy(s, k.err)
    BY <1>2, <1>3, <1>5, <1>7, <1>11, <1>12, <1>15, <1>16, <1>21, <2>2, <2>3 DEF ReceiveV1
  <2>5. /\ k.err = "none" =>
              /\ e \in Epochs(y) /\ ChainOK(k.chain, v.auth) /\ IsReceived(y, k.chain, e, i)
              /\ k.salt = Salt(LinkAt(y, e).root, Peer(p), i)
        /\ k.err # "none" =>
              \/ e \notin Epochs(y)
              \/ ~Untaken(LinkAt(y, e).recv, i)
              \/ i + MaxOOO < LinkAt(y, e).recv.ctr
              \/ i > LinkAt(y, e).recv.ctr + MaxJump
    BY <1>4, <1>12, <2>1, <2>2, RecvKeyOK
  <2>6. e \in Epochs(c) <=> e \in Epochs(y)
    BY <1>4, <1>12, <1>13, <1>14 DEF IsExtended, Epochs, IsChain
  <2>7. CASE k.err = "none"
    <3>1. k.chain.sendEpoch = c.sendEpoch
      BY <1>12, <2>5, <2>7 DEF IsExtended, IsReceived
    <3>2. out.err = "none" /\ out.salt = k.salt /\ u.chain = k.chain /\ u.chain # Nothing /\ StepOK(s, t, u)
      BY <1>19, <2>4, <2>5, <2>7, <3>1
    <3>3. e \in Epochs(c)
      BY <2>5, <2>6, <2>7
    <3>4. IsGot(c, k.chain, e, i)
      BY <1>4, <1>12, <1>13, <2>1, <2>5, <2>7, <3>3, ReceivedGot
    <3>5. PICK r : r = LinkAt(y, e).root
      OBVIOUS
    <3>6. r \in Seq(Secrets(Samples)) /\ Len(r) = e /\ Begins(r, v.auth)
      BY <1>12, <1>13, <2>5, <2>7, <3>5, EpochsFacts DEF ChainOK, LinkOK, Links
    <3>7. /\ m.salt = Salt(m.salt.root, Peer(p), i)
          /\ m.salt.root \in Seq(Secrets(Samples))
          /\ Len(m.salt.root) = e /\ Begins(m.salt.root, t.auth)
      BY <1>2, <2>1 DEF IsFrom
    <3>8. e <= Len(v.auth)
      BY <1>13, <2>5, <2>7 DEF Epochs, IsChain
    <3>9. Begins(m.salt.root, v.auth)
      BY <1>8, <3>7, <3>8, AuthsBegin
    <3>10. m.salt.root = r
      BY <3>6, <3>7, <3>9, BeginsSame
    <3>11. out.salt = m.salt
      BY <2>5, <2>7, <3>2, <3>5, <3>7, <3>10
    <3> QED BY <1>2, <3>2, <3>3, <3>4, <3>11
  <2>8. CASE k.err # "none"
    <3>1. out.err # "none" /\ out.state = s
      BY <2>4, <2>8 DEF RefusedBy
    <3>2. u = s
      <4>1. s.chain = Nothing \/ IsChain(s.chain)
        BY <1>2, <1>13 DEF chainForRecv
      <4>2. Stored(s.v1) = s.v1
        BY <1>1, StoredHeader
      <4>3. DeserializeState(Serialize(s)) = SpqrState(VersionV1, Stored(s.v1), s.chain, s.negotiation)
        BY <1>1, <4>1, StoredState
      <4> QED BY <1>1, <3>1, <4>2, <4>3
    <3>3. StepOK(s, t, u)
      BY <3>2 DEF StepOK, Grows
    <3>4. Stale(m, c)
      <4>1. CASE e \notin Epochs(c)
        <5>1. e < Oldest(c) /\ Oldest(c) \in Nat /\ c.sendEpoch \in Nat
          BY <1>4, <1>13, <1>14, <4>1 DEF Epochs, IsChain
        <5>2. Oldest(c) > 0 => c.sendEpoch = Oldest(c) + 1
          BY <1>13 DEF IsChain
        <5>3. e < c.sendEpoch - 1
          BY <1>4, <5>1, <5>2
        <5> QED BY <1>2, <5>3 DEF Stale
      <4>2. CASE e \in Epochs(c)
        <5>1. LinkAt(y, e) = LinkAt(c, e) /\ e \in Epochs(y)
          BY <1>12, <4>2 DEF IsExtended
        <5>2. Untaken(LinkAt(c, e).recv, i)
          BY <1>2, <2>1, <4>2 DEF Pending
        <5> QED BY <1>2, <2>5, <2>8, <4>2, <5>1, <5>2 DEF Stale
      <4> QED BY <4>1, <4>2
    <3> QED BY <1>2, <2>1, <3>1, <3>2, <3>3, <3>4
  <2> QED BY <2>7, <2>8
<1> QED BY <1>20, <1>21

-----------------------------------------------------------------------------
(* What drawing a key for sending leaves true. *)

LEMMA CtrNat ==
  ASSUME NEW c, IsChain(c), NEW e \in Epochs(c)
  PROVE  /\ e \in Nat /\ c.sendEpoch \in Nat /\ LinkAt(c, e).send.ctr \in Nat /\ LinkAt(c, e).recv.ctr \in Nat
         /\ LinkAt(c, e).recv.prev \subseteq Nat /\ c.sendEpoch \in Epochs(c)
         /\ LinkAt(c, c.sendEpoch).send.ctr \in Nat
<1>1. LinkAt(c, e) \in Links /\ e \in Nat /\ c.sendEpoch \in Epochs(c) /\ LinkAt(c, c.sendEpoch) \in Links
  BY EpochsFacts
<1>2. c.sendEpoch \in Nat
  BY DEF IsChain
<1> QED BY <1>1, <1>2 DEF Links, Dirs

LEMMA DrawnBehind ==
  ASSUME NEW c, IsChain(c), NEW d, IsChain(d), NEW e \in Nat, NEW n, IsDrawn(c, d, e, n),
         NEW x, IsChain(x), Behind(x, c)
  PROVE  /\ Behind(x, d)
         /\ e \in Epochs(x) => Untaken(LinkAt(x, e).recv, n)
<1>1. /\ d.sendEpoch = e /\ c.sendEpoch <= e /\ LinkAt(d, e).send.ctr = n /\ n \in Nat /\ n > 0
      /\ e = c.sendEpoch => LinkAt(c, e).send.ctr + 1 = n
  BY DEF IsDrawn
<1>2. c.sendEpoch \in Nat /\ LinkAt(c, c.sendEpoch).send.ctr \in Nat
  BY EpochsFacts, CtrNat
<1>3. ASSUME NEW k \in Epochs(x)
      PROVE  /\ k > e => LinkAt(x, k).recv.ctr = 0
             /\ k = e => LinkAt(x, k).recv.ctr < n
  <2>1. LinkAt(x, k).recv.ctr \in Nat /\ k \in Nat
    BY CtrNat
  <2>2. /\ k > c.sendEpoch => LinkAt(x, k).recv.ctr = 0
        /\ k = c.sendEpoch => LinkAt(x, k).recv.ctr <= LinkAt(c, k).send.ctr
    BY DEF Behind
  <2>3. CASE k > c.sendEpoch
    BY <1>1, <2>2, <2>3
  <2>4. CASE k = c.sendEpoch
    BY <1>1, <1>2, <2>1, <2>2, <2>4
  <2>5. CASE k < c.sendEpoch
    BY <1>1, <1>2, <2>1, <2>5
  <2> QED BY <1>2, <2>1, <2>3, <2>4, <2>5
<1>4. Behind(x, d)
  <2>1. ASSUME NEW k \in Epochs(x), k = e PROVE LinkAt(x, k).recv.ctr <= n
    BY <1>1, <1>3, <2>1, CtrNat
  <2> QED BY <1>1, <1>3, <2>1 DEF Behind
<1>5. e \in Epochs(x) => Untaken(LinkAt(x, e).recv, n)
  BY <1>1, <1>3, CtrNat DEF Untaken
<1> QED BY <1>4, <1>5

\* The links that a party opens messages with are as before, or new.
LEMMA DrawnKeeps ==
  ASSUME NEW c, IsChain(c), NEW d, IsChain(d), NEW e \in Nat, NEW n, IsDrawn(c, d, e, n)
  PROVE  /\ \A x : IsChain(x) /\ Behind(c, x) => Behind(d, x)
         /\ \A m : m.wire[3] \in Nat /\ Pending(m, c) => Pending(m, d)
<1>1. newChainEpochDirection.ctr = 0 /\ newChainEpochDirection.prev = {}
  BY DEF newChainEpochDirection
<1>2. ASSUME NEW x, IsChain(x), Behind(c, x) PROVE Behind(d, x)
  <2>1. ASSUME NEW k \in Epochs(d)
        PROVE  /\ k > x.sendEpoch => LinkAt(d, k).recv.ctr = 0
               /\ k = x.sendEpoch => LinkAt(d, k).recv.ctr <= LinkAt(x, k).send.ctr
    <3>1. CASE k \in Epochs(c)
      BY <1>2, <3>1 DEF IsDrawn, Behind
    <3>2. CASE k \notin Epochs(c)
      <4>1. LinkAt(d, k).recv.ctr = 0
        BY <1>1, <3>2 DEF IsDrawn
      <4>2. k = x.sendEpoch => LinkAt(x, k).send.ctr \in Nat
        BY <1>2, EpochsFacts, CtrNat
      <4> QED BY <4>1, <4>2
    <3> QED BY <3>1, <3>2
  <2> QED BY <2>1 DEF Behind
<1>3. ASSUME NEW m, m.wire[3] \in Nat, Pending(m, c) PROVE Pending(m, d)
  <2>1. PICK k, i : k = m.wire[2] - 1 /\ i = m.wire[3]
    OBVIOUS
  <2>2. ASSUME i > 0, k \in Epochs(d) PROVE Untaken(LinkAt(d, k).recv, i)
    <3>1. CASE k \in Epochs(c)
      BY <1>3, <2>1, <2>2, <3>1 DEF IsDrawn, Pending
    <3>2. CASE k \notin Epochs(c)
      BY <1>1, <1>3, <2>2, <3>2 DEF IsDrawn, Untaken
    <3> QED BY <3>1, <3>2
  <2> QED BY <2>1, <2>2 DEF Pending
<1> QED BY <1>2, <1>3

LEMMA DrawnUsed ==
  ASSUME NEW c, IsChain(c), NEW d, IsChain(d), NEW e \in Nat, NEW n, IsDrawn(c, d, e, n),
         NEW p, NEW salts, UsedOK(salts, p, c)
  PROVE  UsedOK(salts, p, d)
<1>1. /\ d.sendEpoch = e /\ c.sendEpoch <= e /\ LinkAt(d, e).send.ctr = n /\ n \in Nat /\ n > 0
      /\ e = c.sendEpoch => LinkAt(c, e).send.ctr + 1 = n
  BY DEF IsDrawn
<1>2. c.sendEpoch \in Nat /\ LinkAt(c, c.sendEpoch).send.ctr \in Nat
  BY EpochsFacts, CtrNat
<1>3. ASSUME NEW salt \in salts
      PROVE  Len(salt.root) <= e /\ (Len(salt.root) = e => salt.index <= n)
  <2>1. /\ salt.root \in Seq(Secrets(Samples)) /\ salt.index \in Nat
        /\ Len(salt.root) <= c.sendEpoch
        /\ Len(salt.root) = c.sendEpoch => salt.index <= LinkAt(c, c.sendEpoch).send.ctr
    BY DEF UsedOK
  <2>2. Len(salt.root) \in Nat
    BY <2>1
  <2>3. Len(salt.root) = e => e = c.sendEpoch
    BY <1>1, <1>2, <2>1, <2>2
  <2>4. Len(salt.root) = e => salt.index <= n
    BY <1>1, <1>2, <2>1, <2>3
  <2> QED BY <1>1, <1>2, <2>1, <2>2, <2>4
<1> QED BY <1>1, <1>3 DEF UsedOK

LEMMA DrawnFrom ==
  ASSUME NEW c, IsChain(c), NEW d, IsChain(d), NEW e \in Nat, NEW n, IsDrawn(c, d, e, n),
         NEW q, NEW a, NEW b, Grows(a, b), NEW m, IsFrom(m, q, c, a)
  PROVE  /\ IsFrom(m, q, d, b)
         /\ m.wire[3] > 0 /\ m.wire[2] - 1 = e => m.wire[3] # n
<1>1. /\ d.sendEpoch = e /\ c.sendEpoch <= e /\ LinkAt(d, e).send.ctr = n /\ n \in Nat /\ n > 0
      /\ e = c.sendEpoch => LinkAt(c, e).send.ctr + 1 = n
  BY DEF IsDrawn
<1>2. c.sendEpoch \in Nat /\ LinkAt(c, c.sendEpoch).send.ctr \in Nat
  BY EpochsFacts, CtrNat
<1>3. m.wire[2] \in Nat \ {0} /\ m.wire[3] \in Nat
  BY DEF IsFrom
<1>4. ASSUME m.wire[3] > 0
      PROVE  m.wire[2] - 1 <= e /\ (m.wire[2] - 1 = e => m.wire[3] < n)
  <2>1. /\ m.wire[2] - 1 <= c.sendEpoch
        /\ m.wire[2] - 1 = c.sendEpoch => m.wire[3] <= LinkAt(c, c.sendEpoch).send.ctr
    BY <1>4 DEF IsFrom
  <2>2. m.wire[2] - 1 = e => e = c.sendEpoch
    BY <1>1, <1>2, <1>3, <2>1
  <2>3. m.wire[2] - 1 = e => m.wire[3] < n
    BY <1>1, <1>2, <1>3, <2>1, <2>2
  <2> QED BY <1>1, <1>2, <1>3, <2>1, <2>3
<1>5. m.wire[3] > 0 =>
        m.wire[2] - 1 <= d.sendEpoch /\ (m.wire[2] - 1 = d.sendEpoch => m.wire[3] <= LinkAt(d, d.sendEpoch).send.ctr)
  BY <1>1, <1>3, <1>4
<1>6. m.wire[3] > 0 => Begins(m.salt.root, b)
  BY DEF IsFrom, Grows
<1>7. IsFrom(m, q, d, b)
  BY <1>5, <1>6 DEF IsFrom
<1>8. m.wire[3] > 0 /\ m.wire[2] - 1 = e => m.wire[3] # n
  BY <1>1, <1>3, <1>4
<1> QED BY <1>7, <1>8

-----------------------------------------------------------------------------
(* What taking a key to open a message leaves true. *)

LEMMA GotKeeps ==
  ASSUME NEW c, IsChain(c), NEW y, IsChain(y), NEW e \in Nat, NEW i \in Nat, IsGot(c, y, e, i)
  PROVE  /\ \A x : Behind(x, c) => Behind(x, y)
         /\ \A salts, p : UsedOK(salts, p, c) => UsedOK(salts, p, y)
         /\ \A m, q, a, b : IsFrom(m, q, c, a) /\ Grows(a, b) => IsFrom(m, q, y, b)
         /\ \A m : m.wire[3] \in Nat /\ Pending(m, c) /\ (i = 0 \/ m.wire[2] - 1 # e \/ m.wire[3] # i) =>
                     Pending(m, y)
<1>1. newChainEpochDirection.ctr = 0 /\ newChainEpochDirection.prev = {}
  BY DEF newChainEpochDirection
<1>2. /\ y.sendEpoch = c.sendEpoch /\ c.sendEpoch \in Epochs(c)
      /\ LinkAt(y, c.sendEpoch).send = LinkAt(c, c.sendEpoch).send
  BY EpochsFacts DEF IsGot
<1>3. ASSUME NEW x, Behind(x, c) PROVE Behind(x, y)
  BY <1>2, <1>3 DEF Behind
<1>4. ASSUME NEW salts, NEW p, UsedOK(salts, p, c) PROVE UsedOK(salts, p, y)
  BY <1>2, <1>4 DEF UsedOK
<1>5. ASSUME NEW m, NEW q, NEW a, NEW b, IsFrom(m, q, c, a), Grows(a, b) PROVE IsFrom(m, q, y, b)
  <2>1. m.wire[3] > 0 => Begins(m.salt.root, b)
    BY <1>5 DEF IsFrom, Grows
  <2> QED BY <1>2, <1>5, <2>1 DEF IsFrom
<1>6. ASSUME NEW m, m.wire[3] \in Nat, Pending(m, c), i = 0 \/ m.wire[2] - 1 # e \/ m.wire[3] # i
      PROVE  Pending(m, y)
  <2>1. PICK k, j : k = m.wire[2] - 1 /\ j = m.wire[3]
    OBVIOUS
  <2>2. ASSUME j > 0, k \in Epochs(y) PROVE Untaken(LinkAt(y, k).recv, j)
    <3>1. CASE k \notin Epochs(c)
      BY <1>1, <1>6, <2>1, <2>2, <3>1 DEF IsGot, Untaken
    <3>2. CASE k \in Epochs(c) /\ (k # e \/ i = 0)
      <4>1. LinkAt(y, k).recv = LinkAt(c, k).recv
        BY <3>2 DEF IsGot
      <4> QED BY <1>6, <2>1, <2>2, <3>2, <4>1 DEF Pending
    <3>3. CASE k \in Epochs(c) /\ k = e /\ i # 0
      <4>1. i > 0 /\ j # i /\ j \in Nat
        BY <1>6, <2>1, <3>3
      <4>2. IsTaken(LinkAt(c, k).recv, LinkAt(y, k).recv, i)
        BY <3>3, <4>1 DEF IsGot
      <4>3. Untaken(LinkAt(c, k).recv, j)
        BY <1>6, <2>1, <2>2, <3>3 DEF Pending
      <4> QED BY <4>1, <4>2, <4>3 DEF IsTaken
    <3> QED BY <3>1, <3>2, <3>3
  <2> QED BY <2>1, <2>2 DEF Pending
<1> QED BY <1>3, <1>4, <1>5, <1>6

LEMMA GotBehind ==
  ASSUME NEW c, IsChain(c), NEW y, IsChain(y), NEW m, NEW q, NEW x, IsChain(x), NEW a, IsFrom(m, q, x, a),
         m.wire[3] > 0 => m.wire[2] - 1 \in Epochs(c),
         IsGot(c, y, m.wire[2] - 1, m.wire[3]), Behind(c, x)
  PROVE  Behind(y, x)
<1>1. PICK e, i : e = m.wire[2] - 1 /\ i = m.wire[3]
  OBVIOUS
<1>2. /\ e \in Nat /\ i \in Nat
      /\ i > 0 => e <= x.sendEpoch /\ (e = x.sendEpoch => i <= LinkAt(x, x.sendEpoch).send.ctr)
  BY <1>1 DEF IsFrom
<1>3. x.sendEpoch \in Nat /\ LinkAt(x, x.sendEpoch).send.ctr \in Nat
  BY EpochsFacts, CtrNat
<1>4. newChainEpochDirection.ctr = 0
  BY DEF newChainEpochDirection
<1>5. ASSUME NEW k \in Epochs(y)
      PROVE  /\ k > x.sendEpoch => LinkAt(y, k).recv.ctr = 0
             /\ k = x.sendEpoch => LinkAt(y, k).recv.ctr <= LinkAt(x, k).send.ctr
  <2>1. CASE k \notin Epochs(c)
    BY <1>3, <1>4, <2>1 DEF IsGot
  <2>2. CASE k \in Epochs(c) /\ (k # e \/ i = 0)
    <3>1. LinkAt(y, k).recv = LinkAt(c, k).recv
      BY <1>1, <2>2 DEF IsGot
    <3> QED BY <2>2, <3>1 DEF Behind
  <2>3. CASE k \in Epochs(c) /\ k = e /\ i # 0
    <3>1. i > 0
      BY <1>2, <2>3
    <3>2. IsTaken(LinkAt(c, k).recv, LinkAt(y, k).recv, i)
      BY <1>1, <2>3, <3>1 DEF IsGot
    <3>3. LinkAt(y, k).recv.ctr = LinkAt(c, k).recv.ctr \/ LinkAt(y, k).recv.ctr = i
      BY <3>2 DEF IsTaken
    <3>4. ~(k > x.sendEpoch)
      BY <1>2, <1>3, <2>3, <3>1
    <3>5. k = x.sendEpoch => LinkAt(c, k).recv.ctr <= LinkAt(x, k).send.ctr
      BY <2>3 DEF Behind
    <3>6. k = x.sendEpoch => i <= LinkAt(x, k).send.ctr
      BY <1>2, <2>3, <3>1
    <3> QED BY <3>3, <3>4, <3>5, <3>6
  <2> QED BY <2>1, <2>2, <2>3
<1> QED BY <1>5 DEF Behind

-----------------------------------------------------------------------------
(* The invariant is inductive. *)

\* What the invariant says of a party and its peer.
LEMMA PairFacts ==
  ASSUME IInv, speaks = Party, NEW p \in Party
  PROVE  /\ StateOK(state[p]) /\ V1State(state[p].v1, Samples) /\ IsChain(ChainFor(p))
         /\ Joined(state[p].v1, state[Peer(p)].v1) /\ state[p] # Nothing
<1>1. BothInv
  BY DEF IInv
<1>2. StateOK(state[p])
  BY <1>1 DEF BothInv
<1>3. V1State(state[p].v1, Samples) /\ IsChain(ChainFor(p))
  BY <1>2 DEF StateOK, ChainOK, ChainFor
<1>4. Joined(state[p].v1, state[Peer(p)].v1)
  <2>1. CASE p = A
    BY <1>1, <2>1 DEF BothInv, Peer
  <2>2. CASE p = B
    BY <1>1, <2>2, JoinedSymmetric, SpqrAssumption DEF BothInv, Peer
  <2> QED BY <2>1, <2>2 DEF Party
<1>5. state[p] # Nothing
  BY <1>2, NotNothing DEF StateOK
<1> QED BY <1>2, <1>3, <1>4, <1>5

LEMMA NewStateOK ==
  ASSUME NEW v, v = initV1StateA \/ v = initV1StateB, NEW s, s = NewState(v)
  PROVE  /\ s = SpqrState(VersionV1, v, Nothing, TRUE) /\ s.v1 = v /\ s.chain = Nothing
         /\ s.negotiation = TRUE /\ s.version = VersionV1 /\ chainForRecv(s) = NewChain /\ StateOK(s) /\ Fresh(v)
<1>1. /\ s = SpqrState(VersionV1, v, Nothing, TRUE) /\ s.v1 = v /\ s.chain = Nothing
      /\ s.negotiation = TRUE /\ s.version = VersionV1
  BY DEF NewState, SpqrState
<1>2. V1State(v, Samples)
  BY InitJoined
<1>3. v.epoch = 1 /\ v.auth = << >> /\ v.phase \in {"KeysUnsampled", "NoHeaderReceived"}
  BY DEF initV1StateA, initV1StateB, State, newAuthenticator
<1>4. Fresh(v)
  BY <1>3 DEF Fresh
<1>5. chainForRecv(s) = NewChain
  BY <1>1 DEF chainForRecv
<1>6. ChainOK(chainForRecv(s), v.auth) /\ InStep(chainForRecv(s), v)
  BY <1>3, <1>5, NewChainOK DEF InStep
<1>7. v.phase = "Ct2Sampled" => v.ek = Nothing
  BY <1>3
<1>8. StateOK(s)
  BY <1>1, <1>2, <1>4, <1>6, <1>7 DEF StateOK
<1> QED BY <1>1, <1>4, <1>5, <1>8

LEMMA InitIInv == Init => IInv
<1> SUFFICES ASSUME Init PROVE IInv
  OBVIOUS
<1>1. FunctionsInv
  BY DEF Init, FunctionsInv
<1>2. ASSUME NEW p \in Party
      PROVE  /\ net[p] = {} /\ used[p] = {}
             /\ p \notin speaks => state[p] = Nothing
             /\ p \in speaks /\ p = A => state[p] = NewState(initV1StateA)
             /\ p \in speaks /\ p = B => state[p] = NewState(initV1StateB)
  BY SpqrAssumption DEF Init
<1>3. CASE speaks = Party
  <2>1. state[A] = NewState(initV1StateA) /\ state[B] = NewState(initV1StateB)
    BY <1>2, <1>3 DEF Party
  <2>2. /\ StateOK(state[A]) /\ state[A].v1 = initV1StateA /\ chainForRecv(state[A]) = NewChain
        /\ StateOK(state[B]) /\ state[B].v1 = initV1StateB /\ chainForRecv(state[B]) = NewChain
    BY <2>1, NewStateOK
  <2>3. Joined(state[A].v1, state[B].v1)
    BY <2>2, InitJoined
  <2>4. \A p \in Party : StateOK(state[p]) /\ ChainFor(p) = NewChain /\ Peer(p) \in Party
    BY <2>2, PeerFacts DEF Party, ChainFor
  <2>5. Behind(NewChain, NewChain)
    BY NewChainOK DEF Behind, Link, newChainEpochDirection
  <2>6. \A p \in Party : UsedOK(used[p], p, ChainFor(p))
    BY <1>2 DEF UsedOK
  <2>7. BothInv
    BY <1>2, <2>3, <2>4, <2>5, <2>6 DEF BothInv
  <2> QED BY <1>1, <1>3, <2>7 DEF IInv
<1>4. CASE speaks # Party
  <2>1. ASSUME NEW p \in Party, p \in speaks
        PROVE  /\ state[p] = SpqrState(VersionV1, state[p].v1, Nothing, TRUE)
               /\ V1State(state[p].v1, Samples) /\ Fresh(state[p].v1)
    <3>1. PICK v : (v = initV1StateA \/ v = initV1StateB) /\ state[p] = NewState(v)
      BY <1>2, <2>1 DEF Party
    <3> QED BY <3>1, NewStateOK, InitJoined
  <2>2. AloneInv
    BY <1>2, <2>1 DEF AloneInv
  <2> QED BY <1>1, <1>4, <2>2 DEF IInv
<1> QED BY <1>3, <1>4

\* A step of one of two parties that both have the ratchet.
LEMMA BothStep ==
  ASSUME IInv, speaks = Party, NEW p \in Party, NEW q, q = Peer(p), NEW u,
         StepOK(state[p], state[q].v1, u), NEW c, c = chainForRecv(u),
         state' = [state EXCEPT ![p] = u], speaks' = speaks, samples' \in [Party -> Nat],
         net' = [r \in Party |-> net'[r]], used' = [r \in Party |-> used'[r]],
         Behind(c, ChainFor(q)), Behind(ChainFor(q), c),
         used'[q] = used[q], UsedOK(used'[p], p, c),
         net'[p] \subseteq net[p], \A m \in net'[p] : Pending(m, c),
         \A m \in net'[q] : /\ Genuine(deserializeV1Message(m.wire), u.v1)
                            /\ IsFrom(m, p, c, u.v1.auth) /\ Pending(m, ChainFor(q)),
         \A m, n \in net'[q] :
           m.wire[3] > 0 /\ m.wire[2] = n.wire[2] /\ m.wire[3] = n.wire[3] => m = n
  PROVE  IInv'
<1>1. q \in Party /\ q # p /\ Peer(q) = p /\ Party = {p, q}
  BY PeerFacts
<1>2. BothInv /\ FunctionsInv
  BY DEF IInv
<1>3. state' = [r \in Party |-> state'[r]] /\ state'[p] = u /\ state'[q] = state[q]
  BY <1>1, <1>2 DEF FunctionsInv
<1>4. FunctionsInv'
  BY <1>2, <1>3 DEF FunctionsInv
<1>5. ChainFor(p)' = c /\ ChainFor(q)' = ChainFor(q)
  BY <1>3 DEF ChainFor
<1>6. \A r \in Party : StateOK(state'[r])
  BY <1>1, <1>2, <1>3 DEF BothInv, StepOK
<1>7. Joined(state'[A].v1, state'[B].v1)
  <2>1. Joined(u.v1, state[q].v1) /\ Joined(state[q].v1, u.v1)
    BY JoinedSymmetric DEF StepOK
  <2>2. (p = A /\ q = B) \/ (p = B /\ q = A)
    BY SpqrAssumption DEF Party, Peer
  <2> QED BY <1>3, <2>1, <2>2
<1>8. ASSUME NEW m \in net'[p]
      PROVE  /\ Genuine(deserializeV1Message(m.wire), state[q].v1)
             /\ IsFrom(m, q, ChainFor(q), state[q].v1.auth)
  BY <1>2 DEF BothInv
<1>9. \A m, n \in net'[p] : m.wire[3] > 0 /\ m.wire[2] = n.wire[2] /\ m.wire[3] = n.wire[3] => m = n
  BY <1>2 DEF BothInv
<1>10. UsedOK(used'[q], q, ChainFor(q))
  BY <1>1, <1>2 DEF BothInv
<1>11. ASSUME NEW r \in Party
       PROVE  /\ Behind(ChainFor(r)', ChainFor(Peer(r))')
              /\ UsedOK(used'[r], r, ChainFor(r)')
              /\ \A m \in net'[r] :
                   /\ Genuine(deserializeV1Message(m.wire), state'[Peer(r)].v1)
                   /\ IsFrom(m, Peer(r), ChainFor(Peer(r))', state'[Peer(r)].v1.auth)
                   /\ Pending(m, ChainFor(r)')
              /\ \A m, n \in net'[r] :
                   m.wire[3] > 0 /\ m.wire[2] = n.wire[2] /\ m.wire[3] = n.wire[3] => m = n
  <2>1. CASE r = p
    BY <1>1, <1>3, <1>5, <1>8, <1>9, <2>1
  <2>2. CASE r = q
    BY <1>1, <1>3, <1>5, <1>10, <2>2
  <2> QED BY <1>1, <2>1, <2>2
<1>12. BothInv'
  BY <1>6, <1>7, <1>11 DEF BothInv
<1> QED BY <1>4, <1>12 DEF IInv

LEMMA SendStep ==
  ASSUME IInv, NEW p \in Party, Send(p)
  PROVE  \E out, u, m :
           /\ out = SendOutcome(p) /\ u = DeserializeState(Serialize(out.state))
           /\ m = [wire |-> out.wire, salt |-> out.salt]
           /\ state' = [state EXCEPT ![p] = u]
           /\ net' = [r \in Party |-> net'[r]] /\ net'[p] = net[p] /\ net'[Peer(p)] = net[Peer(p)] \cup {m}
           /\ used' = [r \in Party |-> used'[r]] /\ used'[Peer(p)] = used[Peer(p)]
           /\ used'[p] = used[p] \cup NonEmpty(out.salt)
           /\ samples' \in [Party -> Nat] /\ speaks' = speaks
<1>1. PICK out : out = SendOutcome(p)
  OBVIOUS
<1>2. PICK u, m : u = DeserializeState(Serialize(out.state)) /\ m = [wire |-> out.wire, salt |-> out.salt]
  OBVIOUS
<1>3. /\ Store(p, out.state)
      /\ samples' = [samples EXCEPT ![p] =
           IF state[p] # Nothing /\ DrawsSample(state[p].v1) THEN @ + 1 ELSE @]
      /\ net' = [net EXCEPT ![Peer(p)] = @ \cup {[wire |-> out.wire, salt |-> out.salt]}]
      /\ used' = [used EXCEPT ![p] = @ \cup NonEmpty(out.salt)]
      /\ speaks' = speaks
  BY <1>1, Zenon DEF Send
<1>4. state' = [state EXCEPT ![p] = u]
  BY <1>2, <1>3, Zenon DEF Store
<1>5. Peer(p) \in Party /\ Peer(p) # p
  BY PeerFacts
<1>6. /\ net = [r \in Party |-> net[r]] /\ used = [r \in Party |-> used[r]] /\ samples \in [Party -> Nat]
  BY DEF IInv, FunctionsInv
<1>7. /\ net' = [r \in Party |-> net'[r]] /\ net'[p] = net[p] /\ net'[Peer(p)] = net[Peer(p)] \cup {m}
  BY <1>2, <1>3, <1>5, <1>6
<1>8. /\ used' = [r \in Party |-> used'[r]] /\ used'[Peer(p)] = used[Peer(p)]
      /\ used'[p] = used[p] \cup NonEmpty(out.salt)
  BY <1>3, <1>5, <1>6
<1>9. samples' \in [Party -> Nat]
  BY <1>3, <1>6
<1> QED BY <1>1, <1>2, <1>3, <1>4, <1>7, <1>8, <1>9, ZenonT(40)

LEMMA FromGrows ==
  ASSUME NEW m, NEW q, NEW c, NEW a, NEW b, IsFrom(m, q, c, a), Grows(a, b)
  PROVE  IsFrom(m, q, c, b)
BY DEF IsFrom, Grows

LEMMA BothSend ==
  ASSUME IInv, speaks = Party, NEW p \in Party, Send(p)
  PROVE  IInv'
<1>1. PICK out, u, m :
           /\ out = SendOutcome(p) /\ u = DeserializeState(Serialize(out.state))
           /\ m = [wire |-> out.wire, salt |-> out.salt]
           /\ state' = [state EXCEPT ![p] = u]
           /\ net' = [r \in Party |-> net'[r]] /\ net'[p] = net[p] /\ net'[Peer(p)] = net[Peer(p)] \cup {m}
           /\ used' = [r \in Party |-> used'[r]] /\ used'[Peer(p)] = used[Peer(p)]
           /\ used'[p] = used[p] \cup NonEmpty(out.salt)
           /\ samples' \in [Party -> Nat] /\ speaks' = speaks
  BY SendStep
<1>2. PICK q, s, c : q = Peer(p) /\ s = state[p] /\ c = ChainFor(p)
  OBVIOUS
<1>3. q \in Party /\ q # p /\ Peer(q) = p
  BY <1>2, PeerFacts
<1>4. BothInv /\ samples[p] \in Nat
  BY DEF IInv, FunctionsInv
<1>5. /\ StateOK(s) /\ IsChain(c) /\ Joined(s.v1, state[q].v1) /\ s # Nothing
      /\ V1State(state[q].v1, Samples) /\ IsChain(ChainFor(q))
  BY <1>2, <1>3, PairFacts
<1>6. out = SendState(p, s)
  BY <1>1, <1>2, <1>5 DEF SendOutcome
<1>7. StepOK(s, state[q].v1, u) /\ SentOK(p, s, u, out)
  BY <1>1, <1>4, <1>5, <1>6, SendStateOK
<1>8. /\ Behind(c, ChainFor(q)) /\ Behind(ChainFor(q), c) /\ UsedOK(used[p], p, c)
      /\ \A x \in net[p] : Pending(x, c) /\ x.wire[3] \in Nat
      /\ \A x \in net[q] : /\ Genuine(deserializeV1Message(x.wire), s.v1)
                           /\ IsFrom(x, p, c, s.v1.auth) /\ Pending(x, ChainFor(q))
      /\ \A x, y \in net[q] :
           x.wire[3] > 0 /\ x.wire[2] = y.wire[2] /\ x.wire[3] = y.wire[3] => x = y
  BY <1>2, <1>3, <1>4 DEF BothInv, IsFrom
<1>9. /\ m.wire = out.wire /\ m.salt = out.salt
      /\ Genuine(deserializeV1Message(m.wire), u.v1) /\ m.wire # << >> /\ m.wire[1] = VersionV1
      /\ m.wire[2] = s.v1.epoch /\ m.wire[3] = out.index /\ s.v1.epoch \in Nat \ {0}
  BY <1>1, <1>5, <1>7 DEF SentOK, StateOK, V1State
<1>10. Grows(s.v1.auth, u.v1.auth) /\ \A x : Genuine(x, s.v1) => Genuine(x, u.v1)
  BY <1>7 DEF StepOK
<1>11. CASE s.chain = Nothing
  <2>1. u.chain = Nothing /\ s.v1.epoch = 1 /\ out.index = 0 /\ out.salt = Nothing
    BY <1>7, <1>11 DEF SentOK
  <2>2. chainForRecv(u) = c
    BY <1>2, <1>11, <2>1 DEF ChainFor, chainForRecv
  <2>3. used'[p] = used[p]
    BY <1>1, <2>1 DEF NonEmpty
  <2>4. IsFrom(m, p, c, u.v1.auth) /\ Pending(m, ChainFor(q))
    BY <1>9, <2>1 DEF IsFrom, Pending
  <2>5. ASSUME NEW x \in net'[q]
        PROVE  /\ Genuine(deserializeV1Message(x.wire), u.v1)
               /\ IsFrom(x, p, c, u.v1.auth) /\ Pending(x, ChainFor(q))
    <3>1. CASE x = m
      BY <1>9, <2>4, <3>1
    <3>2. CASE x \in net[q]
      BY <1>8, <1>10, <3>2, FromGrows
    <3> QED BY <1>1, <1>2, <3>1, <3>2
  <2>6. ASSUME NEW x \in net'[q], NEW y \in net'[q],
               x.wire[3] > 0, x.wire[2] = y.wire[2], x.wire[3] = y.wire[3]
        PROVE  x = y
    <3>1. ~(m.wire[3] > 0)
      BY <1>9, <2>1
    <3> QED BY <1>1, <1>2, <1>8, <2>6, <3>1
  <2> QED BY <1>1, <1>2, <1>7, <1>8, <2>2, <2>3, <2>5, <2>6, BothStep
<1>12. CASE s.chain # Nothing
  <2>1. PICK d, e, n : d = u.chain /\ e = s.v1.epoch - 1 /\ n = out.index
    OBVIOUS
  <2>2. /\ u.chain # Nothing /\ IsDrawn(c, d, e, n)
        /\ out.salt = Salt(out.salt.root, p, n) /\ out.salt.root \in Seq(Secrets(Samples))
        /\ Len(out.salt.root) = e /\ Begins(out.salt.root, u.v1.auth)
    BY <1>2, <1>7, <1>12, <2>1 DEF SentOK, ChainFor, chainForRecv
  <2>3. chainForRecv(u) = d /\ IsChain(d)
    BY <1>7, <2>1, <2>2 DEF chainForRecv, StepOK, StateOK, ChainOK
  <2>4. e \in Nat /\ m.wire[2] - 1 = e /\ m.wire[2] \in Nat \ {0}
    BY <1>9, <2>1
  <2>5. /\ d.sendEpoch = e /\ LinkAt(d, e).send.ctr = n /\ n \in Nat /\ n > 0
    BY <2>2 DEF IsDrawn
  <2>6. Behind(ChainFor(q), d) /\ (e \in Epochs(ChainFor(q)) => Untaken(LinkAt(ChainFor(q), e).recv, n))
    BY <1>5, <1>8, <2>2, <2>3, <2>4, DrawnBehind
  <2>7. Behind(d, ChainFor(q)) /\ \A x \in net'[p] : Pending(x, d)
    BY <1>1, <1>5, <1>8, <2>2, <2>3, <2>4, DrawnKeeps
  <2>8. UsedOK(used'[p], p, d)
    <3>1. UsedOK(used[p], p, d)
      BY <1>5, <1>8, <2>2, <2>3, <2>4, DrawnUsed
    <3>2. used'[p] \subseteq used[p] \cup {out.salt}
      BY <1>1 DEF NonEmpty
    <3>3. out.salt.index = n
      BY <2>2 DEF Salt
    <3>4. e <= d.sendEpoch /\ n <= LinkAt(d, d.sendEpoch).send.ctr
      BY <2>4, <2>5
    <3> QED BY <2>2, <2>5, <3>1, <3>2, <3>3, <3>4 DEF UsedOK
  <2>9. IsFrom(m, p, d, u.v1.auth)
    <3>1. m.wire[3] # 0 /\ m.wire[3] \in Nat /\ m.wire[3] = n
      BY <1>9, <2>1, <2>5
    <3>2. m.wire[2] - 1 <= d.sendEpoch /\ m.wire[3] <= LinkAt(d, d.sendEpoch).send.ctr
      BY <2>4, <2>5, <3>1
    <3> QED BY <1>9, <2>2, <2>4, <3>1, <3>2 DEF IsFrom
  <2>10. Pending(m, ChainFor(q))
    BY <1>9, <2>1, <2>4, <2>6 DEF Pending
  <2>11. ASSUME NEW x \in net[q]
         PROVE  /\ IsFrom(x, p, d, u.v1.auth)
                /\ x.wire[3] > 0 /\ x.wire[2] - 1 = e => x.wire[3] # n
    BY <1>5, <1>8, <1>10, <2>2, <2>3, <2>4, DrawnFrom, SMTT(30)
  <2>12. ASSUME NEW x \in net'[q]
         PROVE  /\ Genuine(deserializeV1Message(x.wire), u.v1)
                /\ IsFrom(x, p, d, u.v1.auth) /\ Pending(x, ChainFor(q))
    <3>1. CASE x = m
      BY <1>9, <2>9, <2>10, <3>1
    <3>2. CASE x \in net[q]
      BY <1>8, <1>10, <2>11, <3>2
    <3> QED BY <1>1, <1>2, <3>1, <3>2
  <2>13. ASSUME NEW x \in net'[q], NEW y \in net'[q],
                x.wire[3] > 0, x.wire[2] = y.wire[2], x.wire[3] = y.wire[3]
         PROVE  x = y
    <3>1. m.wire[3] = n
      BY <1>9, <2>1
    <3>2. ASSUME NEW z \in net[q], z.wire[3] > 0, z.wire[2] = m.wire[2], z.wire[3] = m.wire[3] PROVE FALSE
      BY <2>4, <2>11, <3>1, <3>2
    <3> QED BY <1>1, <1>2, <1>8, <2>13, <3>2
  <2> QED BY <1>1, <1>2, <1>7, <2>3, <2>6, <2>7, <2>8, <2>12, <2>13, BothStep
<1> QED BY <1>11, <1>12

LEMMA ReceiveStep ==
  ASSUME IInv, NEW p \in Party, NEW m \in net[p], ReceiveMessage(p, m)
  PROVE  \E out, u :
           /\ out = ReceiveOutcome(p, m) /\ u = DeserializeState(Serialize(out.state))
           /\ state' = [state EXCEPT ![p] = u]
           /\ net' = [r \in Party |-> net'[r]] /\ net'[p] = net[p] \ {m} /\ net'[Peer(p)] = net[Peer(p)]
           /\ used' = used /\ samples' = samples /\ speaks' = speaks
<1>1. PICK out, u : out = ReceiveOutcome(p, m) /\ u = DeserializeState(Serialize(out.state))
  OBVIOUS
<1>2. /\ Store(p, out.state) /\ net' = [net EXCEPT ![p] = @ \ {m}]
      /\ used' = used /\ samples' = samples /\ speaks' = speaks
  BY <1>1, Zenon DEF ReceiveMessage
<1>3. state' = [state EXCEPT ![p] = u]
  BY <1>1, <1>2, Zenon DEF Store
<1>4. Peer(p) \in Party /\ Peer(p) # p
  BY PeerFacts
<1>5. net = [r \in Party |-> net[r]]
  BY DEF IInv, FunctionsInv
<1>6. net' = [r \in Party |-> net'[r]] /\ net'[p] = net[p] \ {m} /\ net'[Peer(p)] = net[Peer(p)]
  BY <1>2, <1>4, <1>5
<1> QED BY <1>1, <1>2, <1>3, <1>6

\* What is known of a party, its peer and what is under way.
LEMMA BothFacts ==
  ASSUME IInv, speaks = Party, NEW p \in Party, NEW q, q = Peer(p)
  PROVE  /\ q \in Party /\ q # p /\ Peer(q) = p
         /\ Behind(ChainFor(p), ChainFor(q)) /\ Behind(ChainFor(q), ChainFor(p))
         /\ UsedOK(used[p], p, ChainFor(p))
         /\ \A x \in net[p] : /\ Genuine(deserializeV1Message(x.wire), state[q].v1)
                              /\ IsFrom(x, q, ChainFor(q), state[q].v1.auth)
                              /\ Pending(x, ChainFor(p)) /\ x.wire[3] \in Nat /\ x.wire[2] \in Nat \ {0}
         /\ \A x \in net[q] : /\ Genuine(deserializeV1Message(x.wire), state[p].v1)
                              /\ IsFrom(x, p, ChainFor(p), state[p].v1.auth) /\ Pending(x, ChainFor(q))
         /\ \A x, y \in net[p] : x.wire[3] > 0 /\ x.wire[2] = y.wire[2] /\ x.wire[3] = y.wire[3] => x = y
         /\ \A x, y \in net[q] : x.wire[3] > 0 /\ x.wire[2] = y.wire[2] /\ x.wire[3] = y.wire[3] => x = y
<1>1. q \in Party /\ q # p /\ Peer(q) = p
  BY PeerFacts
<1>2. BothInv
  BY DEF IInv
<1> QED BY <1>1, <1>2 DEF BothInv, IsFrom

\* What receiving a message does to the state.
LEMMA BothOutcome ==
  ASSUME IInv, speaks = Party, NEW p \in Party, NEW m \in net[p], NEW out, out = ReceiveOutcome(p, m),
         NEW u, u = DeserializeState(Serialize(out.state))
  PROVE  /\ StepOK(state[p], state[Peer(p)].v1, u)
         /\ out.err # "none" => u = state[p] /\ m.wire[3] > 0 /\ Stale(m, ChainFor(p))
         /\ out.err = "none" =>
              /\ out.salt = m.salt /\ u.chain # Nothing
              /\ m.wire[3] > 0 => m.wire[2] - 1 \in Epochs(ChainFor(p))
              /\ IsGot(ChainFor(p), u.chain, m.wire[2] - 1, m.wire[3])
<1>1. PICK q, s, t : q = Peer(p) /\ s = state[p] /\ t = state[q].v1
  OBVIOUS
<1>2. /\ StateOK(s) /\ s # Nothing /\ Joined(s.v1, t) /\ V1State(t, Samples)
  BY <1>1, PairFacts, PeerFacts
<1>3. /\ Genuine(deserializeV1Message(m.wire), t) /\ IsFrom(m, q, ChainFor(q), t.auth)
      /\ Pending(m, chainForRecv(s))
  BY <1>1, BothFacts DEF ChainFor
<1>4. out = ReceiveState(p, s, m.wire)
  BY <1>1, <1>2 DEF ReceiveOutcome
<1>5. PICK d : d = ChainFor(q)
  OBVIOUS
<1>6. /\ StepOK(s, t, u)
      /\ out.err # "none" => u = s /\ m.wire[3] > 0 /\ Stale(m, chainForRecv(s))
      /\ out.err = "none" =>
              /\ out.salt = m.salt /\ u.chain # Nothing
              /\ m.wire[3] > 0 => m.wire[2] - 1 \in Epochs(chainForRecv(s))
              /\ IsGot(chainForRecv(s), u.chain, m.wire[2] - 1, m.wire[3])
  BY <1>1, <1>2, <1>3, <1>4, <1>5, RecvStateOK
<1> QED BY <1>1, <1>6 DEF ChainFor

LEMMA BothReceive ==
  ASSUME IInv, speaks = Party, NEW p \in Party, NEW m \in net[p], ReceiveMessage(p, m)
  PROVE  IInv'
<1>1. PICK out, u :
           /\ out = ReceiveOutcome(p, m) /\ u = DeserializeState(Serialize(out.state))
           /\ state' = [state EXCEPT ![p] = u]
           /\ net' = [r \in Party |-> net'[r]] /\ net'[p] = net[p] \ {m} /\ net'[Peer(p)] = net[Peer(p)]
           /\ used' = used /\ samples' = samples /\ speaks' = speaks
  BY ReceiveStep
<1>2. PICK q, s, c : q = Peer(p) /\ s = state[p] /\ c = ChainFor(p)
  OBVIOUS
<1>3. /\ StateOK(s) /\ IsChain(c) /\ V1State(state[q].v1, Samples) /\ IsChain(ChainFor(q))
      /\ q \in Party /\ q # p
  BY <1>2, PairFacts, PeerFacts
<1>4. /\ StepOK(s, state[q].v1, u)
      /\ out.err # "none" => u = s
      /\ out.err = "none" =>
              /\ u.chain # Nothing
              /\ m.wire[3] > 0 => m.wire[2] - 1 \in Epochs(c)
              /\ IsGot(c, u.chain, m.wire[2] - 1, m.wire[3])
  BY <1>1, <1>2, BothOutcome
<1>5. /\ Behind(c, ChainFor(q)) /\ Behind(ChainFor(q), c) /\ UsedOK(used[p], p, c)
      /\ \A x \in net[p] : /\ Pending(x, c) /\ x.wire[3] \in Nat /\ x.wire[2] \in Nat \ {0}
                           /\ IsFrom(x, q, ChainFor(q), state[q].v1.auth)
      /\ \A x \in net[q] : /\ Genuine(deserializeV1Message(x.wire), s.v1)
                           /\ IsFrom(x, p, c, s.v1.auth) /\ Pending(x, ChainFor(q))
      /\ \A x, y \in net[p] : x.wire[3] > 0 /\ x.wire[2] = y.wire[2] /\ x.wire[3] = y.wire[3] => x = y
      /\ \A x, y \in net[q] : x.wire[3] > 0 /\ x.wire[2] = y.wire[2] /\ x.wire[3] = y.wire[3] => x = y
  BY <1>2, BothFacts
<1>6. used = [r \in Party |-> used[r]] /\ samples \in [Party -> Nat]
  BY DEF IInv, FunctionsInv
<1>7. Grows(s.v1.auth, u.v1.auth) /\ \A x : Genuine(x, s.v1) => Genuine(x, u.v1)
  BY <1>4 DEF StepOK
<1>8. CASE out.err # "none"
  <2>1. u = s /\ chainForRecv(u) = c
    BY <1>2, <1>4, <1>8 DEF ChainFor
  <2>2. /\ used'[p] = used[p] /\ used'[q] = used[q] /\ used' = [r \in Party |-> used'[r]]
        /\ net'[p] \subseteq net[p] /\ net'[q] = net[q] /\ samples' \in [Party -> Nat]
    BY <1>1, <1>2, <1>6
  <2> QED BY <1>1, <1>2, <1>4, <1>5, <2>1, <2>2, BothStep
<1>9. CASE out.err = "none"
  <2>1. PICK y, e, i : y = u.chain /\ e = m.wire[2] - 1 /\ i = m.wire[3]
    OBVIOUS
  <2>2. /\ u.chain # Nothing /\ IsGot(c, y, e, i) /\ (i > 0 => e \in Epochs(c))
    BY <1>4, <1>9, <2>1
  <2>3. chainForRecv(u) = y /\ IsChain(y)
    BY <1>4, <2>1, <2>2 DEF chainForRecv, StepOK, StateOK, ChainOK
  <2>4. e \in Nat /\ i \in Nat
    BY <1>5, <2>1
  <2>5. /\ \A x : Behind(x, c) => Behind(x, y)
        /\ \A salts, r : UsedOK(salts, r, c) => UsedOK(salts, r, y)
        /\ \A x, r, a, b : IsFrom(x, r, c, a) /\ Grows(a, b) => IsFrom(x, r, y, b)
        /\ \A x : x.wire[3] \in Nat /\ Pending(x, c) /\ (i = 0 \/ x.wire[2] - 1 # e \/ x.wire[3] # i) =>
                    Pending(x, y)
    BY <1>3, <2>2, <2>3, <2>4, GotKeeps
  <2>6. Behind(y, ChainFor(q))
    BY <1>3, <1>4, <1>5, <1>9, <2>1, <2>3, GotBehind
  <2>7. ASSUME NEW x \in net'[p] PROVE Pending(x, y)
    <3>1. x \in net[p] /\ x # m
      BY <1>1
    <3>2. i = 0 \/ x.wire[2] - 1 # e \/ x.wire[3] # i
      <4>1. SUFFICES ASSUME i # 0, x.wire[2] - 1 = e, x.wire[3] = i PROVE FALSE
        OBVIOUS
      <4>2. m.wire[3] > 0 /\ m.wire[2] = x.wire[2] /\ m.wire[3] = x.wire[3]
        BY <1>5, <2>1, <2>4, <3>1, <4>1
      <4> QED BY <1>5, <3>1, <4>2
    <3> QED BY <1>5, <2>5, <3>1, <3>2
  <2>8. ASSUME NEW x \in net'[q]
        PROVE  /\ Genuine(deserializeV1Message(x.wire), u.v1)
               /\ IsFrom(x, p, y, u.v1.auth) /\ Pending(x, ChainFor(q))
    BY <1>1, <1>2, <1>5, <1>7, <2>5
  <2>9. /\ used'[p] = used[p] /\ used'[q] = used[q] /\ used' = [r \in Party |-> used'[r]]
        /\ net'[p] \subseteq net[p] /\ net'[q] = net[q] /\ samples' \in [Party -> Nat]
    BY <1>1, <1>2, <1>6
  <2>10. Behind(ChainFor(q), y) /\ UsedOK(used'[p], p, y)
    BY <1>5, <2>5, <2>9
  <2> QED BY <1>1, <1>2, <1>4, <1>5, <2>3, <2>6, <2>7, <2>8, <2>9, <2>10, BothStep, ZenonT(40)
<1> QED BY <1>8, <1>9

\* One of the parties does not have the ratchet: no step ever gives it a salt.
LEMMA AloneSend ==
  ASSUME IInv, speaks # Party, NEW p \in Party, Send(p)
  PROVE  IInv'
<1>1. PICK out, u, m :
           /\ out = SendOutcome(p) /\ u = DeserializeState(Serialize(out.state))
           /\ m = [wire |-> out.wire, salt |-> out.salt]
           /\ state' = [state EXCEPT ![p] = u]
           /\ net' = [r \in Party |-> net'[r]] /\ net'[p] = net[p] /\ net'[Peer(p)] = net[Peer(p)] \cup {m}
           /\ used' = [r \in Party |-> used'[r]] /\ used'[Peer(p)] = used[Peer(p)]
           /\ used'[p] = used[p] \cup NonEmpty(out.salt)
           /\ samples' \in [Party -> Nat] /\ speaks' = speaks
  BY SendStep
<1>2. AloneInv /\ FunctionsInv /\ samples[p] \in Nat
  BY DEF IInv, FunctionsInv
<1>3. PICK q : q = Peer(p)
  OBVIOUS
<1>4. q \in Party /\ q # p /\ Party = {p, q} /\ (p \in speaks => q \notin speaks)
  BY <1>2, <1>3, PeerFacts, SpqrAssumption DEF FunctionsInv, Party
<1>5. /\ state' = [r \in Party |-> state'[r]] /\ state'[p] = u /\ state'[q] = state[q]
  BY <1>1, <1>2, <1>4 DEF FunctionsInv
<1>6. /\ out.salt = Nothing
      /\ p \notin speaks => u = Nothing /\ out.wire = << >>
      /\ p \in speaks /\ u # Nothing =>
           u = SpqrState(VersionV1, u.v1, Nothing, TRUE) /\ V1State(u.v1, Samples) /\ Fresh(u.v1)
  <2>1. CASE state[p] = Nothing
    <3>1. out.salt = Nothing /\ out.wire = << >> /\ out.state = Nothing
      BY <1>1, <2>1 DEF SendOutcome
    <3>2. u = Nothing
      BY <1>1, <3>1, StoredNothing
    <3> QED BY <3>1, <3>2
  <2>2. CASE state[p] # Nothing
    <3>1. PICK s : s = state[p]
      OBVIOUS
    <3>2. /\ p \in speaks /\ s = SpqrState(VersionV1, s.v1, Nothing, TRUE)
          /\ V1State(s.v1, Samples) /\ Fresh(s.v1)
      BY <1>2, <2>2, <3>1 DEF AloneInv
    <3>3. s.negotiation = TRUE
      BY <3>2 DEF SpqrState
    <3>4. out = SendState(p, s) /\ s = SpqrState(VersionV1, s.v1, Nothing, s.negotiation)
      BY <1>1, <2>2, <3>1, <3>2, <3>3 DEF SendOutcome
    <3>5. PICK o : o = send(s.v1, <<p, samples[p]>>)
      OBVIOUS
    <3>6. /\ out.salt = Nothing /\ V1State(Stored(o.state), Samples) /\ Fresh(Stored(o.state))
          /\ u = SpqrState(VersionV1, Stored(o.state), Nothing, s.negotiation)
      BY <1>1, <1>2, <3>2, <3>4, <3>5, SendFreshOK
    <3>7. u.v1 = Stored(o.state)
      BY <3>6 DEF SpqrState
    <3> QED BY <3>2, <3>3, <3>6, <3>7
  <2> QED BY <2>1, <2>2
<1>7. used'[p] = {} /\ used'[q] = {}
  BY <1>1, <1>2, <1>3, <1>4, <1>6 DEF AloneInv, NonEmpty
<1>8. m.wire = out.wire /\ m.salt = Nothing
  BY <1>1, <1>6
<1>9. ASSUME NEW r \in Party
      PROVE  /\ used'[r] = {} /\ \A x \in net'[r] : x.salt = Nothing
             /\ r \notin speaks => state'[r] = Nothing
             /\ r \in speaks =>
                  /\ \A x \in net'[r] : x.wire = << >>
                  /\ state'[r] # Nothing =>
                       /\ state'[r] = SpqrState(VersionV1, state'[r].v1, Nothing, TRUE)
                       /\ V1State(state'[r].v1, Samples) /\ Fresh(state'[r].v1)
  <2>1. CASE r = p
    BY <1>1, <1>2, <1>5, <1>6, <1>7, <2>1, ZenonT(40) DEF AloneInv
  <2>2. CASE r = q
    <3>1. \A x \in net'[q] : x.salt = Nothing /\ (q \in speaks => x.wire = << >>)
      BY <1>1, <1>2, <1>3, <1>4, <1>6, <1>8 DEF AloneInv
    <3> QED BY <1>2, <1>4, <1>5, <1>7, <2>2, <3>1 DEF AloneInv
  <2> QED BY <1>4, <2>1, <2>2
<1>10. AloneInv'
  BY <1>1, <1>9 DEF AloneInv
<1>11. FunctionsInv'
  BY <1>1, <1>2, <1>5 DEF FunctionsInv
<1> QED BY <1>1, <1>10, <1>11 DEF IInv, Party

\* What a party, of which one does not have the ratchet, makes of a message.
LEMMA AloneOutcome ==
  ASSUME IInv, speaks # Party, NEW p \in Party, NEW m \in net[p], NEW out, out = ReceiveOutcome(p, m)
  PROVE  out.err = "none" /\ out.salt = Nothing /\ DeserializeState(Serialize(out.state)) = Nothing
<1>1. AloneInv
  BY DEF IInv
<1>2. CASE state[p] = Nothing
  <2>1. p \in speaks => m.wire = << >>
    BY <1>1 DEF AloneInv
  <2>2. out = AcceptedBy(Nothing, Nothing)
    BY <1>2, <2>1 DEF ReceiveOutcome
  <2>3. out.err = "none" /\ out.salt = Nothing /\ out.state = Nothing
    BY <2>2 DEF AcceptedBy
  <2> QED BY <2>3, StoredNothing
<1>3. CASE state[p] # Nothing
  <2>1. PICK s : s = state[p]
    OBVIOUS
  <2>2. /\ m.wire = << >> /\ s = SpqrState(VersionV1, s.v1, Nothing, TRUE) /\ V1State(s.v1, Samples)
    BY <1>1, <1>3, <2>1 DEF AloneInv
  <2>3. s.negotiation = TRUE
    BY <2>2 DEF SpqrState
  <2>4. s.v1 # Nothing
    <3>1. s.v1 = [phase |-> s.v1.phase, epoch |-> s.v1.epoch, auth |-> s.v1.auth,
                  ek |-> s.v1.ek, ct |-> s.v1.ct, sent |-> s.v1.sent, dec |-> s.v1.dec]
      BY <2>2 DEF V1State, IsRecord
    <3> QED BY <3>1, NotNothing
  <2>5. out = AcceptedBy(Disabled, Nothing)
    BY <1>3, <2>1, <2>2, <2>3, <2>4 DEF ReceiveOutcome, ReceiveState, msgVersion
  <2>6. out.err = "none" /\ out.salt = Nothing /\ out.state = Disabled
    BY <2>5 DEF AcceptedBy
  <2> QED BY <2>6, StoredNothing
<1> QED BY <1>2, <1>3

LEMMA AloneReceive ==
  ASSUME IInv, speaks # Party, NEW p \in Party, NEW m \in net[p], ReceiveMessage(p, m)
  PROVE  IInv'
<1>1. PICK out, u :
           /\ out = ReceiveOutcome(p, m) /\ u = DeserializeState(Serialize(out.state))
           /\ state' = [state EXCEPT ![p] = u]
           /\ net' = [r \in Party |-> net'[r]] /\ net'[p] = net[p] \ {m} /\ net'[Peer(p)] = net[Peer(p)]
           /\ used' = used /\ samples' = samples /\ speaks' = speaks
  BY ReceiveStep
<1>2. u = Nothing
  BY <1>1, AloneOutcome
<1>3. AloneInv /\ FunctionsInv
  BY DEF IInv
<1>4. Peer(p) # p /\ Party = {p, Peer(p)}
  BY PeerFacts
<1>5. ASSUME NEW r \in Party PROVE net'[r] \subseteq net[r] /\ (state'[r] = state[r] \/ state'[r] = Nothing)
  BY <1>1, <1>2, <1>3, <1>4 DEF FunctionsInv
<1>6. AloneInv'
  BY <1>1, <1>3, <1>5 DEF AloneInv
<1>7. FunctionsInv'
  BY <1>1, <1>3 DEF FunctionsInv
<1> QED BY <1>1, <1>6, <1>7 DEF IInv, Party

LEMMA LoseStep ==
  ASSUME IInv, NEW p \in Party, Lose(p)
  PROVE  IInv'
<1>1. PICK m \in net[p] : /\ net' = [net EXCEPT ![p] = @ \ {m}]
                          /\ speaks' = speaks /\ state' = state /\ samples' = samples /\ used' = used
  BY DEF Lose
<1>2. FunctionsInv
  BY DEF IInv
<1>3. net' = [r \in Party |-> net'[r]] /\ \A r \in Party : net'[r] \subseteq net[r]
  BY <1>1, <1>2 DEF FunctionsInv
<1>4. FunctionsInv'
  BY <1>1, <1>2, <1>3 DEF FunctionsInv
<1>5. CASE speaks = Party
  <2>1. BothInv
    BY <1>5 DEF IInv
  <2>2. \A r \in Party : ChainFor(r)' = ChainFor(r)
    BY <1>1 DEF ChainFor
  <2>3. \A r \in Party : Peer(r) \in Party
    BY PeerFacts
  <2>4. BothInv'
    BY <1>1, <1>3, <2>1, <2>2, <2>3 DEF BothInv
  <2> QED BY <1>1, <1>4, <1>5, <2>4 DEF IInv, Party
<1>6. CASE speaks # Party
  <2>1. AloneInv'
    BY <1>1, <1>3, <1>6 DEF IInv, AloneInv
  <2> QED BY <1>1, <1>4, <1>6, <2>1 DEF IInv, Party
<1> QED BY <1>5, <1>6

LEMMA NextIInv == IInv /\ [Next]_vars => IInv'
<1> SUFFICES ASSUME IInv, [Next]_vars PROVE IInv'
  OBVIOUS
<1>1. CASE UNCHANGED vars
  <2>1. FunctionsInv'
    BY <1>1 DEF vars, IInv, FunctionsInv
  <2>2. BothInv => BothInv'
    BY <1>1 DEF vars, BothInv, ChainFor
  <2>3. AloneInv => AloneInv'
    BY <1>1 DEF vars, AloneInv
  <2>4. speaks' = speaks
    BY <1>1 DEF vars
  <2> QED BY <2>1, <2>2, <2>3, <2>4 DEF IInv
<1>2. ASSUME NEW p \in Party, Send(p) PROVE IInv'
  BY <1>2, BothSend, AloneSend
<1>3. ASSUME NEW p \in Party, Receive(p) PROVE IInv'
  <2>1. PICK m \in net[p] : ReceiveMessage(p, m)
    BY <1>3 DEF Receive
  <2> QED BY <2>1, BothReceive, AloneReceive
<1>4. ASSUME NEW p \in Party, Lose(p) PROVE IInv'
  BY <1>4, LoseStep
<1> QED BY <1>1, <1>2, <1>3, <1>4 DEF Next

-----------------------------------------------------------------------------
(* Theorems. *)

\* Both chains, the salts used and the messages under way always fit together,
\* whatever State.Send and State.Receive have done; or, if one party does not
\* have the ratchet, no message has a salt.
THEOREM Invariance == Spec => []IInv
BY InitIInv, NextIInv, PTL DEF Spec

\* A direction stores at most MaxOOO keys.
LEMMA DirBounded ==
  ASSUME NEW d \in Dirs, DirOK(d)
  PROVE  Cardinality(d.prev) <= MaxOOO /\ \A j \in d.prev : j < d.ctr
<1>1. d.ctr \in Nat /\ MaxOOO \in Nat /\ d.prev \subseteq Nat
  BY SpqrAssumption DEF Dirs
<1>2. PICK lo, hi, S : lo = d.ctr - 1 - MaxOOO /\ hi = d.ctr - 1 /\ S = lo .. hi
  OBVIOUS
<1>3. lo \in Int /\ hi \in Int /\ lo <= hi /\ hi - lo + 1 = MaxOOO + 1
  BY <1>1, <1>2
<1>4. IsFiniteSet(S) /\ Cardinality(S) = MaxOOO + 1
  BY <1>2, <1>3, FS_Interval
<1>5. PICK w \in S : w \notin d.prev
  BY <1>2 DEF DirOK
<1>6. IsFiniteSet(S \ {w}) /\ Cardinality(S \ {w}) = MaxOOO
  <2>1. IsFiniteSet(S \ {w}) /\ Cardinality(S \ {w}) = Cardinality(S) - 1
    BY <1>4, <1>5, FS_RemoveElement
  <2> QED BY <1>1, <1>4, <2>1
<1>7. d.prev \subseteq S \ {w}
  <2>1. ASSUME NEW j \in d.prev PROVE j \in S
    BY <1>1, <1>2 DEF DirOK
  <2> QED BY <1>5, <2>1
<1>8. Cardinality(d.prev) <= MaxOOO
  BY <1>6, <1>7, FS_Subset
<1> QED BY <1>8 DEF DirOK

\* A party that does not have a peer with the ratchet has no chain.
LEMMA AloneChain ==
  ASSUME IInv, speaks # Party, NEW p \in Party
  PROVE  ChainOf(state[p]) = Nothing
<1>1. CASE state[p] = Nothing
  BY <1>1 DEF ChainOf
<1>2. CASE state[p] # Nothing
  <2>1. state[p] = SpqrState(VersionV1, state[p].v1, Nothing, TRUE)
    BY <1>2 DEF IInv, AloneInv
  <2>2. state[p].chain = Nothing
    BY <2>1 DEF SpqrState
  <2> QED BY <1>2, <2>2 DEF ChainOf
<1> QED BY <1>1, <1>2

\* The chain of a party is the one the invariant speaks of.
LEMMA ChainIs ==
  ASSUME IInv, NEW p \in Party, ChainOf(state[p]) # Nothing
  PROVE  /\ speaks = Party /\ ChainOf(state[p]) = ChainFor(p)
         /\ StateOK(state[p]) /\ ChainOK(ChainFor(p), state[p].v1.auth) /\ IsChain(ChainFor(p))
<1>1. speaks = Party
  BY AloneChain
<1>2. StateOK(state[p]) /\ state[p] # Nothing /\ IsChain(ChainFor(p))
  BY <1>1, PairFacts
<1>3. ChainOf(state[p]) = ChainFor(p)
  BY <1>2 DEF ChainOf, ChainFor, chainForRecv
<1> QED BY <1>1, <1>2, <1>3 DEF StateOK, ChainFor

\* A chain never has more than three links: chain.go drops the others when the
\* sending epoch moves on, and the state machine adds at most one more before.
\* A direction never stores more than MaxOOO keys.
THEOREM BoundedChains == Spec => []ChainsBounded
<1>1. ASSUME IInv, NEW p \in Party, NEW c, c = ChainOf(state[p]), c # Nothing
      PROVE  /\ Len(c.links) \in 1 .. 3
             /\ c.sendEpoch <= c.currentEpoch
             /\ \A i \in 1 .. Len(c.links) : \A d \in {c.links[i].send, c.links[i].recv} :
                  /\ Cardinality(d.prev) <= MaxOOO
                  /\ \A j \in d.prev : j < d.ctr
  <2>1. PICK s : s = state[p].v1
    OBVIOUS
  <2>2. speaks = Party /\ c = ChainFor(p) /\ StateOK(state[p]) /\ ChainOK(c, s.auth) /\ IsChain(c)
    BY <1>1, <2>1, ChainIs
  <2>3. InStep(c, s)
    BY <2>1, <2>2 DEF StateOK, ChainFor
  <2>4. PICK o, n, cur, sd : o = Oldest(c) /\ n = Len(c.links) /\ cur = c.currentEpoch /\ sd = c.sendEpoch
    OBVIOUS
  <2>5. /\ o \in Nat /\ n \in Nat /\ cur \in Nat /\ sd \in Nat /\ n >= 1 /\ o + n = cur + 1
        /\ o <= sd /\ sd <= cur /\ sd <= o + 1
    BY <2>2, <2>4, EpochsFacts DEF IsChain
  <2>6. PICK ep : ep = s.epoch
    OBVIOUS
  <2>7. /\ ep \in Nat /\ cur = Len(s.auth) /\ ep - 1 <= cur /\ cur <= ep
        /\ cur = ep => s.phase \in HasSent
    <3>1. V1State(s, Samples) /\ V1State(state[Peer(p)].v1, Samples) /\ Joined(s, state[Peer(p)].v1)
      BY <1>1, <2>1, <2>2, PairFacts, PeerFacts
    <3>2. cur = Len(s.auth)
      BY <2>2, <2>4 DEF ChainOK
    <3> QED BY <2>6, <3>1, <3>2, AuthLength
  <2>8. sd <= ep - 1 /\ ep - 1 <= sd + 1 /\ (s.phase \in HasSent => sd = ep - 1)
    BY <2>3, <2>4, <2>6 DEF InStep
  <2>9. cur <= sd + 1
    <3>1. CASE cur = ep
      BY <2>5, <2>7, <2>8, <3>1
    <3>2. CASE cur # ep
      BY <2>5, <2>7, <2>8, <3>2
    <3> QED BY <3>1, <3>2
  <2>10. n \in 1 .. 3
    BY <2>5, <2>9
  <2>11. ASSUME NEW i \in 1 .. Len(c.links), NEW d \in {c.links[i].send, c.links[i].recv}
         PROVE  Cardinality(d.prev) <= MaxOOO /\ \A j \in d.prev : j < d.ctr
    <3>1. PICK e : e = o + i - 1
      OBVIOUS
    <3>2. e \in Epochs(c) /\ e - o + 1 = i
      BY <2>4, <2>5, <3>1, SMTT(30) DEF Epochs
    <3>3. c.links[i] = LinkAt(c, e)
      BY <2>4, <3>2 DEF LinkAt
    <3>4. LinkOK(c, e, s.auth) /\ LinkAt(c, e) \in Links
      BY <2>2, <3>2, EpochsFacts DEF ChainOK
    <3>5. CASE d = c.links[i].send
      <4>1. d.prev = {}
        BY <3>3, <3>4, <3>5 DEF LinkOK
      <4> QED BY <4>1, FS_EmptySet, SpqrAssumption
    <3>6. CASE d = c.links[i].recv
      <4>1. d \in Dirs /\ DirOK(d)
        BY <3>3, <3>4, <3>6 DEF LinkOK, Links
      <4> QED BY <4>1, DirBounded
    <3> QED BY <3>5, <3>6
  <2> QED BY <2>4, <2>5, <2>10, <2>11
<1>2. IInv => ChainsBounded
  BY <1>1 DEF ChainsBounded
<1> QED BY Invariance, <1>2, PTL

\* State.Send never returns an error: the chain has the link of the epoch that
\* it sends in, and the link is open.
THEOREM SendSucceeds == Spec => []SendNeverFails
<1>1. ASSUME IInv, NEW p \in Party PROVE SendOutcome(p).err = "none"
  <2>1. samples[p] \in Nat
    BY <1>1 DEF IInv, FunctionsInv
  <2>2. CASE state[p] = Nothing
    BY <2>2 DEF SendOutcome
  <2>3. CASE state[p] # Nothing
    <3>1. SendOutcome(p) = SendState(p, state[p])
      BY <2>3 DEF SendOutcome
    <3>2. CASE speaks = Party
      <4>1. PICK t : t = state[Peer(p)].v1
        OBVIOUS
      <4>2. StateOK(state[p]) /\ Joined(state[p].v1, t) /\ V1State(t, Samples)
        BY <1>1, <3>2, <4>1, PairFacts, PeerFacts
      <4> QED BY <2>1, <3>1, <4>2, SendStateOK
    <3>3. CASE speaks # Party
      <4>1. PICK s : s = state[p]
        OBVIOUS
      <4>2. s = SpqrState(VersionV1, s.v1, Nothing, TRUE) /\ V1State(s.v1, Samples) /\ Fresh(s.v1)
        BY <1>1, <2>3, <3>3, <4>1 DEF IInv, AloneInv
      <4>3. s.negotiation = TRUE
        BY <4>2 DEF SpqrState
      <4>4. PICK out : out = SendState(p, s)
        OBVIOUS
      <4>5. s = SpqrState(VersionV1, s.v1, Nothing, s.negotiation)
        BY <4>2, <4>3
      <4>6. PICK o : o = send(s.v1, <<p, samples[p]>>)
        OBVIOUS
      <4>7. out.err = "none"
        BY <2>1, <4>2, <4>4, <4>5, <4>6, SendFreshOK
      <4> QED BY <3>1, <4>1, <4>4, <4>7
    <3> QED BY <3>2, <3>3
  <2> QED BY <2>2, <2>3
<1>2. IInv => SendNeverFails
  BY <1>1 DEF SendNeverFails
<1> QED BY Invariance, <1>2, PTL

\* Whatever was lost or overtaken, and however often the states were stored and
\* loaded, a message that State.Receive accepts is opened with the salt that
\* State.Send gave to it.
THEOREM SaltsAgree == Spec => []SaltAgreement
<1>1. ASSUME IInv, NEW p \in Party, NEW m \in net[p], NEW out, out = ReceiveOutcome(p, m), out.err = "none"
      PROVE  out.salt = m.salt
  <2>1. CASE speaks = Party
    BY <1>1, <2>1, BothOutcome
  <2>2. CASE speaks # Party
    BY <1>1, <2>2, AloneOutcome DEF IInv, AloneInv
  <2> QED BY <2>1, <2>2
<1>2. IInv => SaltAgreement
  BY <1>1 DEF SaltAgreement
<1> QED BY Invariance, <1>2, PTL

\* State.Receive refuses a message only for being too old, or too far ahead.
THEOREM OnlyStaleRefused == Spec => []RefusedOnlyIfStale
<1>1. ASSUME IInv, NEW p \in Party, NEW m \in net[p], ReceiveOutcome(p, m).err # "none",
             NEW c, c = chainForRecv(state[p]), NEW msg, msg = deserializeV1Message(m.wire),
             NEW i, i = EpochIndex(c, msg.epoch - 1)
      PROVE  /\ speaks = Party
             /\ \/ msg.epoch - 1 < c.sendEpoch - 1
                \/ i # 0 /\ msg.index + MaxOOO < c.links[i].recv.ctr
                \/ i # 0 /\ msg.index > c.links[i].recv.ctr + MaxJump
  <2>1. speaks = Party
    BY <1>1, AloneOutcome
  <2>2. PICK out : out = ReceiveOutcome(p, m)
    OBVIOUS
  <2>3. Stale(m, c)
    BY <1>1, <2>1, <2>2, BothOutcome DEF ChainFor
  <2>4. msg.epoch = m.wire[2] /\ msg.index = m.wire[3]
    BY <1>1 DEF deserializeV1Message
  <2>5. IsChain(c) /\ m.wire[2] - 1 \in Int
    BY <1>1, <2>1, PairFacts, BothFacts DEF ChainFor
  <2>6. ASSUME m.wire[2] - 1 \in Epochs(c) PROVE i # 0 /\ c.links[i] = LinkAt(c, m.wire[2] - 1)
    <3>1. i = m.wire[2] - 1 - Oldest(c) + 1
      BY <1>1, <2>4, <2>5, <2>6, IndexOf
    <3>2. m.wire[2] - 1 - Oldest(c) + 1 \in 1 .. Len(c.links)
      BY <2>5, <2>6, EpochsFacts
    <3> QED BY <3>1, <3>2 DEF LinkAt
  <2> QED BY <2>1, <2>3, <2>4, <2>6 DEF Stale
<1>2. IInv => RefusedOnlyIfStale
  BY <1>1 DEF RefusedOnlyIfStale
<1> QED BY Invariance, <1>2, PTL

\* State.Send never gives a salt to two messages, nor do both parties use one.
THEOREM SaltsUnique == Spec => []UniqueSalts
<1>1. ASSUME IInv PROVE used[A] \cap used[B] = {}
  <2>1. CASE speaks # Party
    BY <1>1, <2>1 DEF IInv, AloneInv, Party
  <2>2. CASE speaks = Party
    <3>1. UsedOK(used[A], A, ChainFor(A)) /\ UsedOK(used[B], B, ChainFor(B))
      BY <1>1, <2>2 DEF IInv, BothInv, Party
    <3>2. ASSUME NEW salt \in used[A], salt \in used[B] PROVE FALSE
      <4>1. salt = Salt(salt.root, A, salt.index) /\ salt = Salt(salt.root, B, salt.index)
        BY <3>1, <3>2 DEF UsedOK
      <4>2. salt.sender = A /\ salt.sender = B
        BY <4>1 DEF Salt
      <4> QED BY <4>2, SpqrAssumption
    <3> QED BY <3>2
  <2> QED BY <2>1, <2>2
<1>2. ASSUME IInv, NEW p \in Party PROVE SendOutcome(p).salt \notin used[p]
  <2>1. CASE speaks # Party
    BY <1>2, <2>1 DEF IInv, AloneInv
  <2>2. CASE speaks = Party
    <3>1. PICK s, t, out, u, c :
             /\ s = state[p] /\ t = state[Peer(p)].v1 /\ out = SendState(p, s)
             /\ u = DeserializeState(Serialize(out.state)) /\ c = ChainFor(p)
      OBVIOUS
    <3>2. /\ StateOK(s) /\ s # Nothing /\ Joined(s.v1, t) /\ V1State(t, Samples) /\ IsChain(c)
          /\ samples[p] \in Nat
      BY <1>2, <2>2, <3>1, PairFacts, PeerFacts DEF IInv, FunctionsInv
    <3>3. SentOK(p, s, u, out)
      BY <3>1, <3>2, SendStateOK
    <3>4. UsedOK(used[p], p, c)
      BY <1>2, <2>2, <3>1, BothFacts
    <3>5. SendOutcome(p) = out
      BY <3>1, <3>2 DEF SendOutcome
    <3>6. ASSUME out.salt \in used[p] PROVE FALSE
      <4>1. PICK root, index : root = out.salt.root /\ index = out.salt.index
        OBVIOUS
      <4>2. /\ out.salt = Salt(root, p, index) /\ Len(root) <= c.sendEpoch
            /\ Len(root) = c.sendEpoch => index <= LinkAt(c, c.sendEpoch).send.ctr
        BY <3>4, <3>6, <4>1 DEF UsedOK
      <4>3. s.chain # Nothing
        BY <3>3, <4>2, NotNothing DEF SentOK
      <4>4. c = s.chain
        BY <3>1, <4>3 DEF ChainFor, chainForRecv
      <4>5. PICK e : e = s.v1.epoch - 1
        OBVIOUS
      <4>6. IsDrawn(c, u.chain, e, out.index) /\ Len(root) = e /\ out.salt = Salt(out.salt.root, p, out.index)
        BY <3>3, <4>1, <4>3, <4>4, <4>5 DEF SentOK
      <4>7. index = out.index
        BY <4>1, <4>6 DEF Salt
      <4>8. /\ c.sendEpoch <= e /\ out.index \in Nat
            /\ e = c.sendEpoch => LinkAt(c, e).send.ctr + 1 = out.index
        BY <4>6 DEF IsDrawn
      <4>9. c.sendEpoch \in Nat /\ LinkAt(c, c.sendEpoch).send.ctr \in Nat
        BY <3>2, EpochsFacts, CtrNat
      <4>10. e = c.sendEpoch
        <5>1. e \in Int
          BY <3>2, <4>5 DEF StateOK, V1State
        <5> QED BY <4>2, <4>6, <4>8, <4>9, <5>1
      <4> QED BY <4>2, <4>6, <4>7, <4>8, <4>9, <4>10
    <3> QED BY <3>5, <3>6
  <2> QED BY <2>1, <2>2
<1>3. IInv => UniqueSalts
  BY <1>1, <1>2 DEF UniqueSalts
<1> QED BY Invariance, <1>3, PTL

-----------------------------------------------------------------------------
(* Forward secrecy. *)

\* The link that a salt comes from is that of its epoch.
LEMMA SaltLink ==
  ASSUME NEW p, NEW c, NEW a, ChainOK(c, a), c # Nothing, NEW salt,
         NEW k, k = Len(salt.root)
  PROVE  /\ Derivable(p, c, salt) =>
              /\ k \in Epochs(c) /\ LinkAt(c, k).root = salt.root
              /\ \/ salt.sender = p /\ LinkAt(c, k).send.open = TRUE /\ salt.index > LinkAt(c, k).send.ctr
                 \/ /\ salt.sender # p
                    /\ salt.index > LinkAt(c, k).recv.ctr \/ salt.index \in LinkAt(c, k).recv.prev
         /\ /\ k \in Epochs(c) /\ LinkAt(c, k).root = salt.root /\ salt.sender # p
            /\ salt.index > LinkAt(c, k).recv.ctr \/ salt.index \in LinkAt(c, k).recv.prev
            => Derivable(p, c, salt)
<1>1. IsChain(c)
  BY DEF ChainOK
<1>2. ASSUME Derivable(p, c, salt)
      PROVE  /\ k \in Epochs(c) /\ LinkAt(c, k).root = salt.root
             /\ \/ salt.sender = p /\ LinkAt(c, k).send.open = TRUE /\ salt.index > LinkAt(c, k).send.ctr
                \/ /\ salt.sender # p
                   /\ salt.index > LinkAt(c, k).recv.ctr \/ salt.index \in LinkAt(c, k).recv.prev
  <2>1. PICK i \in 1 .. Len(c.links) :
           /\ c.links[i].root = salt.root
           /\ \/ salt.sender = p /\ c.links[i].send.open /\ salt.index > c.links[i].send.ctr
              \/ salt.sender # p /\ (salt.index > c.links[i].recv.ctr \/ salt.index \in c.links[i].recv.prev)
    BY <1>2 DEF Derivable
  <2>2. PICK e : e = Oldest(c) + i - 1
    OBVIOUS
  <2>3. e \in Epochs(c) /\ e - Oldest(c) + 1 = i
    BY <1>1, <2>2, EpochsFacts DEF Epochs, IsChain
  <2>4. c.links[i] = LinkAt(c, e)
    BY <2>3 DEF LinkAt
  <2>5. Len(LinkAt(c, e).root) = e
    BY <2>3 DEF ChainOK, LinkOK
  <2>6. k = e
    BY <2>1, <2>4, <2>5
  <2>7. LinkAt(c, e).send.open \in BOOLEAN
    BY <1>1, <2>3, EpochsFacts DEF Links, Dirs
  <2> QED BY <2>1, <2>3, <2>4, <2>6, <2>7
<1>3. ASSUME k \in Epochs(c), LinkAt(c, k).root = salt.root, salt.sender # p,
             salt.index > LinkAt(c, k).recv.ctr \/ salt.index \in LinkAt(c, k).recv.prev
      PROVE  Derivable(p, c, salt)
  <2>1. PICK i : i = k - Oldest(c) + 1
    OBVIOUS
  <2>2. i \in 1 .. Len(c.links) /\ c.links[i] = LinkAt(c, k)
    BY <1>1, <1>3, <2>1, EpochsFacts DEF LinkAt
  <2> QED BY <1>3, <2>2 DEF Derivable
<1> QED BY <1>2, <1>3

\* A salt is spent once it has been used for sending.
LEMMA OwnSpent ==
  ASSUME NEW p, NEW c, NEW a, ChainOK(c, a), c # Nothing, NEW salts, UsedOK(salts, p, c), NEW salt \in salts
  PROVE  ~Derivable(p, c, salt)
<1>1. SUFFICES ASSUME Derivable(p, c, salt) PROVE FALSE
  OBVIOUS
<1>2. PICK k, root, index : k = Len(salt.root) /\ root = salt.root /\ index = salt.index
  OBVIOUS
<1>3. /\ salt = Salt(root, p, index) /\ index \in Nat /\ k <= c.sendEpoch
      /\ k = c.sendEpoch => index <= LinkAt(c, c.sendEpoch).send.ctr
  BY <1>2 DEF UsedOK
<1>4. salt.sender = p
  BY <1>3 DEF Salt
<1>5. k \in Epochs(c) /\ LinkAt(c, k).send.open = TRUE /\ index > LinkAt(c, k).send.ctr
  BY <1>1, <1>2, <1>4, SaltLink
<1>6. k \in Nat /\ c.sendEpoch \in Nat /\ LinkAt(c, k).send.ctr \in Nat
  BY <1>5, CtrNat DEF ChainOK
<1>7. k < c.sendEpoch => LinkAt(c, k).send.open = FALSE
  BY <1>5 DEF ChainOK, LinkOK
<1>8. k = c.sendEpoch
  BY <1>3, <1>5, <1>6, <1>7
<1> QED BY <1>3, <1>5, <1>6, <1>8

\* Drawing a key for sending does not bring back a salt of the peer.
LEMMA DrawnForgets ==
  ASSUME NEW p, NEW c, NEW a, ChainOK(c, a), c # Nothing, NEW d, NEW b, ChainOK(d, b), d # Nothing,
         NEW e, NEW n, IsDrawn(c, d, e, n), NEW salt, salt.sender # p,
         Derivable(p, d, salt), Knows(c, salt)
  PROVE  Derivable(p, c, salt)
<1>1. PICK k : k = Len(salt.root)
  OBVIOUS
<1>2. /\ k \in Epochs(d) /\ LinkAt(d, k).root = salt.root
      /\ salt.index > LinkAt(d, k).recv.ctr \/ salt.index \in LinkAt(d, k).recv.prev
  BY <1>1, SaltLink
<1>3. k \in Epochs(c) /\ LinkAt(d, k).root = LinkAt(c, k).root /\ LinkAt(d, k).recv = LinkAt(c, k).recv
  BY <1>1, <1>2 DEF IsDrawn, Knows
<1> QED BY <1>1, <1>2, <1>3, SaltLink

\* Nor does taking a key for a message that arrives, which forgets this key.
LEMMA GotForgets ==
  ASSUME NEW p, NEW c, NEW a, ChainOK(c, a), c # Nothing, NEW d, NEW b, ChainOK(d, b), d # Nothing,
         NEW e, NEW i \in Nat, IsGot(c, d, e, i), i > 0 => e \in Epochs(c),
         NEW salt, salt.sender # p, salt.index \in Nat, Derivable(p, d, salt)
  PROVE  /\ ~(i > 0 /\ Len(salt.root) = e /\ salt.index = i)
         /\ Knows(c, salt) => Derivable(p, c, salt)
<1>1. PICK k, j : k = Len(salt.root) /\ j = salt.index
  OBVIOUS
<1>2. /\ k \in Epochs(d) /\ LinkAt(d, k).root = salt.root
      /\ j > LinkAt(d, k).recv.ctr \/ j \in LinkAt(d, k).recv.prev
  BY <1>1, SaltLink
<1>3. IsChain(c) /\ IsChain(d) /\ LinkAt(d, k).recv.ctr \in Nat /\ j \in Nat
  BY <1>1, <1>2, CtrNat DEF ChainOK
<1>4. ~(i > 0 /\ k = e /\ j = i)
  <2>1. SUFFICES ASSUME i > 0, k = e, j = i PROVE FALSE
    OBVIOUS
  <2>2. IsTaken(LinkAt(c, e).recv, LinkAt(d, e).recv, i)
    BY <2>1 DEF IsGot
  <2>3. i <= LinkAt(d, e).recv.ctr /\ i \notin LinkAt(d, e).recv.prev
    BY <2>2 DEF IsTaken
  <2> QED BY <1>2, <1>3, <2>1, <2>3
<1>5. ASSUME Knows(c, salt) PROVE Derivable(p, c, salt)
  <2>1. k \in Epochs(c)
    BY <1>1, <1>2, <1>5 DEF IsGot, Knows
  <2>2. LinkAt(c, k).root = salt.root
    BY <1>2, <2>1 DEF IsGot
  <2>3. LinkAt(c, k).recv.ctr \in Nat
    BY <1>3, <2>1, CtrNat
  <2>4. j > LinkAt(c, k).recv.ctr \/ j \in LinkAt(c, k).recv.prev
    <3>1. CASE k # e \/ i = 0
      BY <1>2, <2>1, <3>1 DEF IsGot
    <3>2. CASE k = e /\ i # 0
      <4>1. IsTaken(LinkAt(c, k).recv, LinkAt(d, k).recv, i)
        BY <2>1, <3>2 DEF IsGot
      <4> QED BY <1>2, <1>3, <2>3, <4>1 DEF IsTaken
    <3> QED BY <3>1, <3>2
  <2> QED BY <1>1, <2>1, <2>2, <2>4, SaltLink
<1> QED BY <1>1, <1>4, <1>5

\* The chain of a state of which the invariant speaks.
LEMMA ChainOfState ==
  /\ \A s : StateOK(s) /\ ChainOf(s) # Nothing =>
       ChainOf(s) = s.chain /\ chainForRecv(s) = s.chain /\ s.chain # Nothing /\ ChainOK(s.chain, s.v1.auth)
  /\ \A s : s = Nothing \/ s = SpqrState(VersionV1, s.v1, Nothing, TRUE) => ChainOf(s) = Nothing
<1>1. ASSUME NEW s, StateOK(s), ChainOf(s) # Nothing
      PROVE  ChainOf(s) = s.chain /\ chainForRecv(s) = s.chain /\ s.chain # Nothing /\ ChainOK(s.chain, s.v1.auth)
  <2>1. ChainOf(s) = s.chain
    BY <1>1 DEF ChainOf
  <2>2. chainForRecv(s) = s.chain
    BY <1>1, <2>1 DEF chainForRecv
  <2> QED BY <1>1, <2>1, <2>2 DEF StateOK
<1>2. ASSUME NEW s, s = Nothing \/ s = SpqrState(VersionV1, s.v1, Nothing, TRUE) PROVE ChainOf(s) = Nothing
  <2>1. CASE s = Nothing
    BY <2>1 DEF ChainOf
  <2>2. CASE s = SpqrState(VersionV1, s.v1, Nothing, TRUE)
    <3>1. s.chain = Nothing
      BY <2>2 DEF SpqrState
    <3> QED BY <3>1 DEF ChainOf
  <2> QED BY <1>2, <2>1, <2>2
<1> QED BY <1>1, <1>2

\* What p can derive of the salts of its peer after a step of p.
Forgotten(p, salt) ==
  Derivable(p, ChainOf(state'[p]), salt) =>
    /\ salt \notin Taken(p)
    /\ Knows(ChainOf(state[p]), salt) => Derivable(p, ChainOf(state[p]), salt)

LEMMA SendForgets ==
  ASSUME IInv, IInv', speaks = Party, NEW p \in Party, Send(p), NEW salt, salt.sender # p
  PROVE  Forgotten(p, salt)
<1>1. PICK out, u : /\ out = SendOutcome(p) /\ u = DeserializeState(Serialize(out.state))
                    /\ state' = [state EXCEPT ![p] = u] /\ net'[p] = net[p] /\ speaks' = speaks
  BY SendStep
<1>2. state'[p] = u
  BY <1>1 DEF IInv, FunctionsInv
<1>3. PICK s, t : s = state[p] /\ t = state[Peer(p)].v1
  OBVIOUS
<1>4. /\ StateOK(s) /\ s # Nothing /\ Joined(s.v1, t) /\ V1State(t, Samples) /\ samples[p] \in Nat
  BY <1>3, PairFacts, PeerFacts DEF IInv, FunctionsInv
<1>5. out = SendState(p, s)
  BY <1>1, <1>3, <1>4 DEF SendOutcome
<1>6. SentOK(p, s, u, out) /\ StateOK(u)
  BY <1>1, <1>4, <1>5, SendStateOK DEF StepOK
<1>7. Taken(p) = {}
  BY <1>1 DEF Taken
<1>8. ASSUME Derivable(p, ChainOf(u), salt), Knows(ChainOf(s), salt) PROVE Derivable(p, ChainOf(s), salt)
  <2>1. ChainOf(u) # Nothing /\ ChainOf(s) # Nothing
    BY <1>8 DEF Derivable, Knows
  <2>2. /\ ChainOf(u) = u.chain /\ u.chain # Nothing /\ ChainOK(u.chain, u.v1.auth)
        /\ ChainOf(s) = s.chain /\ s.chain # Nothing /\ ChainOK(s.chain, s.v1.auth)
    BY <1>4, <1>6, <2>1, ChainOfState
  <2>3. PICK c, d, e : c = s.chain /\ d = u.chain /\ e = s.v1.epoch - 1
    OBVIOUS
  <2>4. IsDrawn(c, d, e, out.index)
    BY <1>6, <2>2, <2>3 DEF SentOK
  <2> QED BY <1>8, <2>2, <2>3, <2>4, DrawnForgets
<1> QED BY <1>2, <1>3, <1>7, <1>8 DEF Forgotten

LEMMA ReceiveForgets ==
  ASSUME IInv, IInv', speaks = Party, NEW p \in Party, NEW m \in net[p], ReceiveMessage(p, m),
         state'[p] # state[p], NEW salt, salt.sender # p, salt.index \in Nat
  PROVE  Forgotten(p, salt)
<1>1. PICK out, u : /\ out = ReceiveOutcome(p, m) /\ u = DeserializeState(Serialize(out.state))
                    /\ state' = [state EXCEPT ![p] = u] /\ net'[p] = net[p] \ {m}
  BY ReceiveStep
<1>2. state'[p] = u
  BY <1>1 DEF IInv, FunctionsInv
<1>3. PICK s, q, c, e, i : /\ s = state[p] /\ q = Peer(p) /\ c = ChainFor(p)
                           /\ e = m.wire[2] - 1 /\ i = m.wire[3]
  OBVIOUS
<1>4. /\ StateOK(u) /\ u.chain # Nothing /\ IsGot(c, u.chain, e, i) /\ (i > 0 => e \in Epochs(c))
  <2>1. out.err = "none"
    BY <1>1, <1>2, <1>3, BothOutcome
  <2> QED BY <1>1, <1>3, <2>1, BothOutcome DEF StepOK
<1>5. StateOK(s) /\ IsChain(c) /\ ChainOK(c, s.v1.auth)
  BY <1>3, PairFacts DEF StateOK, ChainFor
<1>6. IsFrom(m, q, ChainFor(q), state[q].v1.auth) /\ i \in Nat
  BY <1>3, BothFacts
<1>7. Taken(p) \subseteq {m.salt} \ {Nothing}
  BY <1>1 DEF Taken
<1>8. c # Nothing
  <2>1. c = [currentEpoch |-> c.currentEpoch, sendEpoch |-> c.sendEpoch, links |-> c.links]
    BY <1>5 DEF IsChain
  <2> QED BY <2>1, NotNothing
<1>9. ASSUME Derivable(p, ChainOf(u), salt)
      PROVE  /\ salt \notin Taken(p)
             /\ Knows(ChainOf(s), salt) => Derivable(p, ChainOf(s), salt)
  <2>1. ChainOf(u) # Nothing
    BY <1>9 DEF Derivable
  <2>2. PICK d : d = u.chain
    OBVIOUS
  <2>3. ChainOf(u) = d /\ d # Nothing /\ ChainOK(d, u.v1.auth)
    BY <1>4, <2>1, <2>2, ChainOfState
  <2>4. /\ ~(i > 0 /\ Len(salt.root) = e /\ salt.index = i)
        /\ Knows(c, salt) => Derivable(p, c, salt)
    BY <1>4, <1>5, <1>6, <1>8, <1>9, <2>2, <2>3, GotForgets
  <2>5. salt \notin Taken(p)
    <3>1. SUFFICES ASSUME salt = m.salt, salt # Nothing PROVE FALSE
      BY <1>7
    <3>2. i > 0
      BY <1>3, <1>6, <3>1 DEF IsFrom
    <3>3. m.salt = Salt(m.salt.root, q, i) /\ Len(m.salt.root) = e
      BY <1>3, <1>6, <3>2 DEF IsFrom
    <3>4. salt.index = i
      BY <3>1, <3>3 DEF Salt
    <3> QED BY <2>4, <3>1, <3>2, <3>3, <3>4
  <2>6. ASSUME Knows(ChainOf(s), salt) PROVE Derivable(p, ChainOf(s), salt)
    <3>1. ChainOf(s) # Nothing
      BY <2>6 DEF Knows
    <3>2. ChainOf(s) = c
      BY <1>3, <1>5, <3>1, ChainOfState DEF ChainFor
    <3> QED BY <2>4, <2>6, <3>2
  <2> QED BY <2>5, <2>6
<1> QED BY <1>2, <1>3, <1>9 DEF Forgotten

\* Only its own steps change the state of a party.
LEMMA OwnStep ==
  ASSUME IInv, [Next]_vars, NEW p \in Party, state'[p] # state[p]
  PROVE  (Send(p) \/ Receive(p)) /\ speaks' = speaks /\ used'[Peer(p)] = used[Peer(p)]
<1>1. ~UNCHANGED vars
  BY DEF vars
<1>2. PICK r \in Party : Send(r) \/ Receive(r) \/ Lose(r)
  BY <1>1 DEF Next
<1>3. CASE Send(r)
  <2>1. /\ \E u : state' = [state EXCEPT ![r] = u]
        /\ speaks' = speaks /\ used'[Peer(r)] = used[Peer(r)]
    BY <1>3, SendStep
  <2>2. r = p
    BY <2>1 DEF IInv, FunctionsInv
  <2> QED BY <1>3, <2>1, <2>2
<1>4. CASE Receive(r)
  <2>1. PICK m \in net[r] : ReceiveMessage(r, m)
    BY <1>4 DEF Receive
  <2>2. /\ \E u : state' = [state EXCEPT ![r] = u]
        /\ speaks' = speaks /\ used' = used
    BY <2>1, ReceiveStep
  <2>3. r = p
    BY <2>2 DEF IInv, FunctionsInv
  <2> QED BY <1>4, <2>2, <2>3
<1>5. CASE Lose(r)
  BY <1>5 DEF Lose
<1> QED BY <1>2, <1>3, <1>4, <1>5

\* What State.Send has encrypted with, and what State.Receive has opened a
\* message with, cannot be computed from the state that is stored after it, and
\* no later step makes a salt of a known epoch computable again.
THEOREM SaltsForgotten == Spec => ForwardSecrecy
<1>1. ASSUME IInv, IInv', [Next]_vars, NEW p \in Party, state'[p] # state[p]
      PROVE  /\ \A salt \in used'[p] : ~Derivable(p, ChainOf(state'[p]), salt)
             /\ \A salt \in used[Peer(p)] : Forgotten(p, salt)
  <2>1. (Send(p) \/ Receive(p)) /\ speaks' = speaks /\ used'[Peer(p)] = used[Peer(p)]
    BY <1>1, OwnStep
  <2>2. CASE speaks # Party
    <3>1. AloneInv'
      BY <1>1, <2>1, <2>2 DEF IInv, Party
    <3>2. state'[p] = Nothing \/ state'[p] = SpqrState(VersionV1, state'[p].v1, Nothing, TRUE)
      BY <3>1 DEF AloneInv
    <3>3. ChainOf(state'[p]) = Nothing
      BY <3>2, ChainOfState
    <3> QED BY <3>3 DEF Derivable, Forgotten
  <2>3. CASE speaks = Party
    <3>1. BothInv /\ BothInv'
      BY <1>1, <2>1, <2>3 DEF IInv, Party
    <3>2. StateOK(state'[p]) /\ UsedOK(used'[p], p, chainForRecv(state'[p]))
      BY <3>1 DEF BothInv, ChainFor
    <3>3. ASSUME NEW salt \in used'[p], Derivable(p, ChainOf(state'[p]), salt) PROVE FALSE
      <4>1. ChainOf(state'[p]) # Nothing
        BY <3>3 DEF Derivable
      <4>2. PICK u, c : u = state'[p] /\ c = ChainOf(u)
        OBVIOUS
      <4>3. c = u.chain /\ chainForRecv(u) = c /\ c # Nothing /\ ChainOK(c, u.v1.auth)
        BY <3>2, <4>1, <4>2, ChainOfState
      <4>4. UsedOK(used'[p], p, c)
        BY <3>2, <4>2, <4>3
      <4> QED BY <3>3, <4>2, <4>3, <4>4, OwnSpent
    <3>4. ASSUME NEW salt \in used[Peer(p)] PROVE Forgotten(p, salt)
      <4>1. UsedOK(used[Peer(p)], Peer(p), ChainFor(Peer(p)))
        BY <3>1, PeerFacts DEF BothInv
      <4>2. salt = Salt(salt.root, Peer(p), salt.index) /\ salt.index \in Nat
        BY <4>1 DEF UsedOK
      <4>3. salt.sender = Peer(p)
        BY <4>2 DEF Salt
      <4>4. salt.sender # p
        BY <4>3, PeerFacts
      <4>5. CASE Send(p)
        BY <1>1, <2>3, <4>4, <4>5, SendForgets
      <4>6. CASE Receive(p)
        <5>1. PICK m \in net[p] : ReceiveMessage(p, m)
          BY <4>6 DEF Receive
        <5> QED BY <1>1, <2>3, <4>2, <4>4, <5>1, ReceiveForgets
      <4> QED BY <2>1, <4>5, <4>6
    <3> QED BY <3>3, <3>4
  <2> QED BY <2>2, <2>3
<1>2. IInv /\ IInv' /\ [Next]_vars =>
        [\A p \in Party : state'[p] # state[p] =>
           \A before \in {ChainOf(state[p])}, after \in {ChainOf(state'[p])} :
             /\ \A salt \in used'[p] : ~Derivable(p, after, salt)
             /\ \A salt \in used[Peer(p)] : Derivable(p, after, salt) =>
                  /\ salt \notin Taken(p)
                  /\ Knows(before, salt) => Derivable(p, before, salt)]_vars
  BY <1>1, Zenon DEF Forgotten
<1> QED
  BY Invariance, <1>2, PTL DEF Spec, ForwardSecrecy
=============================================================================
